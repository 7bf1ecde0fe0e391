------------------------- MODULE PartHandlersProof -------------------------
(***************************************************************************)
(* What TLAPS proves of the consumption of user-data and vendor-data, for   *)
(* any part-handler code and any streams: the types; that a handler that    *)
(* works is begun before its parts and ended after them; and that the       *)
(* cloud-config of a stream has what its parts give, where no part-handler  *)
(* takes a type of it over.                                                *)
(***************************************************************************)
EXTENDS PartHandlers, TLAPS

LEMMA CloudConfigHandler ==
  /\ CC \in Handlers /\ CC \in Default /\ CC \notin Custom /\ CC.lists
  /\ CC.types \subseteq Types /\ "handler" \notin CC.types
  /\ CC # None /\ Runs(CC)
  BY HandlersAssumption DEF CC, Default, Handlers, Types, Runs

\* The part under the walk.
LEMMA WalkedPart ==
  ASSUME TypeOK, Walking
  PROVE  /\ Stream \in Seq(Parts) /\ Part \in Parts
         /\ pos + 1 \in 1..Len(Stream) /\ Len(Stream) <= MaxParts
  <1>1. Stream \in Data
    BY DEF TypeOK, Stream
  <1> QED BY <1>1, HandlersAssumption DEF TypeOK, Walking, Part, Stream

\* What a call with the signal c does to the calls of each handler.
LEMMA CallsAfter ==
  ASSUME TypeOK, NEW hs, NEW c \in {"begin", "part", "end"}, Called(hs, c)
  PROVE  /\ calls' \in [Handlers -> Seq({"begin", "part", "end"})]
         /\ \A h \in Handlers :
              calls'[h] = IF h \in hs /\ Runs(h) THEN Append(calls[h], c) ELSE calls[h]
  BY DEF TypeOK, Called

LEMMA BegunAppend ==
  ASSUME NEW s \in Seq({"begin", "part", "end"})
  PROVE  /\ Begun(s) => Begun(Append(s, "part"))
         /\ s = <<>> => Begun(Append(s, "begin"))
  <1>1. ASSUME Begun(s) PROVE Begun(Append(s, "part"))
    <2> DEFINE t == Append(s, "part")
    <2>1. Len(s) \in Nat /\ Len(s) >= 1 /\ Len(t) = Len(s) + 1
      BY <1>1 DEF Begun
    <2>2. \A i \in 1..Len(s) : t[i] = s[i]
      OBVIOUS
    <2>3. t[Len(s) + 1] = "part"
      OBVIOUS
    <2> HIDE DEF t
    <2>4. t # <<>> /\ t[1] = "begin"
      BY <1>1, <2>1, <2>2 DEF Begun
    <2>5. \A i \in 2..Len(t) : t[i] = "part"
      BY <1>1, <2>1, <2>2, <2>3 DEF Begun
    <2> QED BY <2>4, <2>5 DEF Begun, t
  <1>2. ASSUME s = <<>> PROVE Begun(Append(s, "begin"))
    <2>1. Append(s, "begin") = <<"begin">>
      BY <1>2
    <2> QED BY <2>1 DEF Begun
  <1> QED BY <1>1, <1>2

\* A part-handler part carries code that only it carries, or finds the module of an
\* earlier stream under its number: a handler that was not begun in this stream.
HandlerOf == IF modules[count] = None THEN Part.code ELSE modules[count]
LEMMA HandlerIsNew ==
  ASSUME PartHandlersInv, HandleHandler
  PROVE  /\ count \in Counts /\ count + 1 \in Counts
         /\ HandlerOf \in Custom /\ HandlerOf # None
         /\ \A n \in Counts : modules[n] = HandlerOf => n = count
         /\ \E r \in Streams : \E i \in Walked(r) \cup {j \in {pos + 1} : r = stream} :
              i \in 1..Len(data[r]) /\ data[r][i].code = HandlerOf
  <1> USE DEF PartHandlersInv
  <1>1. /\ Walking /\ Part.type = "handler" /\ Part \in Parts /\ pos + 1 \in 1..Len(Stream)
        /\ Len(Stream) <= MaxParts /\ count <= pos /\ pc = "walk" /\ pos \in Nat
    BY WalkedPart DEF HandleHandler, Walking, PosInv, TypeOK
  <1>2. count \in Counts /\ count + 1 \in Counts
    BY <1>1, HandlersAssumption DEF TypeOK, Counts
  <1>3. Part.code \in Custom /\ Part.code # None
    BY <1>1 DEF Parts
  <1>4. modules[count] \in Custom \cup {None}
    BY <1>2 DEF TypeOK
  <1>5. \A r \in Streams : Len(data[r]) \in Nat /\ Walked(r) \subseteq 1..Len(data[r])
    <2>1. \A r \in Streams : data[r] \in Seq(Parts)
      BY HandlersAssumption DEF TypeOK
    <2>2. pos <= Len(data[stream])
      BY <1>1 DEF PosInv, Stream
    <2> QED BY <1>1, <2>1, <2>2 DEF Walked
  <1>6. CASE modules[count] = None
    <2>1. HandlerOf = Part.code
      BY <1>6 DEF HandlerOf
    <2>2. ASSUME NEW n \in Counts, modules[n] = Part.code PROVE FALSE
      <3>1. PICK r \in Streams : \E i \in Walked(r) : data[r][i].code = modules[n]
        BY <1>3, <2>2 DEF ModulesInv
      <3>2. PICK i \in Walked(r) : data[r][i].code = modules[n]
        BY <3>1
      <3>3. r = stream /\ i = pos + 1
        BY <1>1, <1>3, <1>5, <2>2, <3>2 DEF PosInv, OwnCode, Part, Stream, TypeOK
      <3> QED BY <1>1, <3>2, <3>3 DEF Walked
    <2> QED BY <1>1, <1>2, <1>3, <2>1, <2>2 DEF Part, Stream, TypeOK
  <1>7. CASE modules[count] # None
    <2>1. HandlerOf = modules[count]
      BY <1>7 DEF HandlerOf
    <2> QED BY <1>2, <1>4, <1>5, <1>7, <2>1 DEF ModulesInv
  <1> QED BY <1>6, <1>7

\* Such a handler is not one of the image, and was not begun.
LEMMA HandlerNotBegun ==
  ASSUME PartHandlersInv, HandleHandler
  PROVE  HandlerOf \notin CloudDir /\ HandlerOf \notin initialized
  <1> USE DEF PartHandlersInv
  <1>0. PICK r \in Streams : \E i \in 1..Len(data[r]) : data[r][i].code = HandlerOf
    BY HandlerIsNew
  <1>1. PICK i \in 1..Len(data[r]) : data[r][i].code = HandlerOf
    BY <1>0
  <1>2. HandlerOf \notin CloudDir
    BY <1>1, HandlerIsNew DEF PosInv, OwnCode
  <1>3. HandlerOf \notin Default
    BY HandlerIsNew, HandlersAssumption
  <1>4. ASSUME HandlerOf \in initialized PROVE FALSE
    <2>1. pc = "walk" /\ count \in Nat
      BY HandlerIsNew DEF HandleHandler, Walking, Counts
    <2>2. PICK n \in 0..(count - 1) : modules[n] = HandlerOf
      BY <1>2, <1>3, <1>4, <2>1 DEF BegunInv
    <2> QED BY <2>1, <2>2, HandlerIsNew, HandlersAssumption DEF Counts
  <1> QED BY <1>2, <1>4

\* What _do_handlers registers before the walk.
LEMMA DefaultsRegistered ==
  ASSUME TypeOK, RegisterDefaults
  PROVE  /\ registered' \in [Types -> Handlers \cup {None}]
         /\ \A t \in Types : registered'[t] \in Default \cup CloudDir \cup {None}
         /\ \A t \in CC.types : ~Claimed(t) => registered'[t] = CC
  <1> DEFINE Cloud(t) == {h \in CloudDir : h.lists /\ t \in h.types}
             Fallback(t) == {h \in Default : t \in h.types}
             One(hs) == CHOOSE h \in hs : TRUE
  <1>1. registered' = [t \in Types |-> IF Cloud(t) # {} THEN One(Cloud(t))
                                       ELSE IF Fallback(t) # {} THEN One(Fallback(t)) ELSE None]
    BY DEF RegisterDefaults
  <1>2. \A hs : hs # {} => One(hs) \in hs
    OBVIOUS
  <1>3. \A t \in Types : Cloud(t) \subseteq CloudDir /\ Fallback(t) \subseteq Default
    OBVIOUS
  <1>4. ASSUME NEW t \in CC.types, ~Claimed(t) PROVE Cloud(t) = {} /\ Fallback(t) = {CC}
    <2>1. Cloud(t) = {}
      BY <1>4, HandlersAssumption DEF Claimed
    <2>2. CC \in Fallback(t) /\ t \notin Script.types
      BY <1>4, CloudConfigHandler DEF CC, Script
    <2> QED BY <2>1, <2>2 DEF Default
  <1> HIDE DEF Cloud, Fallback, One
  <1>5. registered' \in [Types -> Default \cup CloudDir \cup {None}]
    BY <1>1, <1>2, <1>3
  <1>7. Default \cup CloudDir \subseteq Handlers
    BY HandlersAssumption DEF Handlers
  <1>6. ASSUME NEW t \in CC.types, ~Claimed(t) PROVE registered'[t] = CC
    <2>1. t \in Types /\ Cloud(t) = {} /\ Fallback(t) = {CC}
      BY <1>4, <1>6, CloudConfigHandler
    <2>2. One(Fallback(t)) = CC
      BY <1>2, <2>1
    <2> QED BY <1>1, <2>1, <2>2
  <1> QED BY <1>5, <1>6, <1>7

\* The step of a part-handler part, by its handler.
LEMMA HandleHandlerStep ==
  ASSUME PartHandlersInv, HandleHandler
  PROVE  /\ pc = "walk" /\ pos < Len(Stream) /\ pos' = pos + 1
         /\ modules' = [modules EXCEPT ![count] = HandlerOf] /\ Called({HandlerOf}, "begin")
         /\ HandlerOf.lists =>
              /\ registered' = [t \in Types |-> IF t \in HandlerOf.types THEN HandlerOf ELSE registered[t]]
              /\ initialized' = initialized \cup {HandlerOf} /\ count' = count + 1
         /\ ~HandlerOf.lists => UNCHANGED <<registered, initialized, count>>
         /\ UNCHANGED <<data, boot, frequency, stream, pc, buf, config>>
  BY HandlerIsNew, HandlersAssumption DEF HandleHandler, Walking, HandlerOf, Registered, NextNumber, Handlers

LEMMA TypesKept == ASSUME PartHandlersInv, [Next]_vars PROVE TypeOK'
  <1> USE DEF PartHandlersInv
  <1>1. ASSUME RegisterDefaults PROVE TypeOK'
    <2>1. registered' \in [Types -> Handlers \cup {None}] /\ 0 \in Counts
      BY <1>1, DefaultsRegistered, HandlersAssumption DEF Counts
    <2>2. calls' \in [Handlers -> Seq({"begin", "part", "end"})]
      BY <1>1 DEF RegisterDefaults
    <2>3. /\ pc' = "init" /\ pos' = 0 /\ count' = 0 /\ initialized' = {} /\ buf' = None
          /\ UNCHANGED <<data, boot, frequency, modules, stream, config>>
      BY <1>1 DEF RegisterDefaults
    <2> QED BY <2>1, <2>2, <2>3 DEF TypeOK
  <1>2. ASSUME InitHandlers PROVE TypeOK'
    <2>1. calls' \in [Handlers -> Seq({"begin", "part", "end"})]
      BY <1>2, CallsAfter DEF InitHandlers
    <2>2. Items \subseteq Handlers
      BY DEF Items, TypeOK
    <2> QED BY <1>2, <2>1, <2>2 DEF InitHandlers, TypeOK
  <1>3. ASSUME SkipPart PROVE TypeOK'
    BY <1>3 DEF SkipPart, TypeOK
  <1>4. ASSUME HandlePart PROVE TypeOK'
    <2>1. calls' \in [Handlers -> Seq({"begin", "part", "end"})]
      BY <1>4, CallsAfter DEF HandlePart
    <2>2. buf' \in Seq(Nat) \cup {None}
      BY <1>4 DEF HandlePart, TypeOK, Merged, Buffer
    <2> QED BY <1>4, <2>1, <2>2 DEF HandlePart, TypeOK
  <1>5. ASSUME HandleHandler PROVE TypeOK'
    <2>1. calls' \in [Handlers -> Seq({"begin", "part", "end"})]
      BY <1>5, CallsAfter, HandleHandlerStep
    <2>2. HandlerOf \in Custom /\ HandlerOf \in Handlers /\ HandlerOf.lists \in BOOLEAN /\ count + 1 \in Counts
      BY <1>5, HandlerIsNew, HandlersAssumption DEF Handlers
    <2>3. registered' \in [Types -> Handlers \cup {None}] /\ initialized' \subseteq Handlers /\ count' \in Counts
      BY <1>5, <2>2, HandleHandlerStep DEF TypeOK
    <2>4. modules' \in [Counts -> Custom \cup {None}] /\ pos' \in Nat
      BY <1>5, <2>2, HandleHandlerStep DEF TypeOK
    <2> QED BY <1>5, <2>1, <2>3, <2>4, HandleHandlerStep DEF TypeOK
  <1>6. ASSUME EndWalk PROVE TypeOK'
    BY <1>6 DEF EndWalk, TypeOK
  <1>7. ASSUME FinalizeHandlers PROVE TypeOK'
    <2>1. calls' \in [Handlers -> Seq({"begin", "part", "end"})]
      BY <1>7, CallsAfter DEF FinalizeHandlers
    <2>2. config' \in [Streams -> Seq(Nat) \cup {None}]
      BY <1>7 DEF FinalizeHandlers, TypeOK, Buffer
    <2> QED BY <1>7, <2>1, <2>2 DEF FinalizeHandlers, TypeOK
  <1>8. ASSUME ConsumeVendordata PROVE TypeOK'
    BY <1>8 DEF ConsumeVendordata, TypeOK, Streams
  <1>9. ASSUME Reboot PROVE TypeOK'
    <2>1. boot' \in 1..MaxBoots
      BY <1>9, HandlersAssumption DEF Reboot, TypeOK
    <2> QED BY <1>9, <2>1 DEF Reboot, TypeOK, Streams
  <1>10. CASE UNCHANGED vars
    BY <1>10 DEF vars, TypeOK
  <1> QED BY <1>1, <1>2, <1>3, <1>4, <1>5, <1>6, <1>7, <1>8, <1>9, <1>10 DEF Next

LEMMA PosKept == ASSUME PartHandlersInv, [Next]_vars PROVE PosInv'
  <1> USE DEF PartHandlersInv
  <1>1. UNCHANGED data
    BY DEF Next, vars, RegisterDefaults, InitHandlers, SkipPart, HandlePart, HandleHandler,
           EndWalk, FinalizeHandlers, ConsumeVendordata, Reboot
  <1>2. OwnCode(data)'
    BY <1>1 DEF PosInv, OwnCode
  <1>3. Len(Stream) \in Nat /\ pos \in Nat /\ count \in Nat
    BY HandlersAssumption DEF TypeOK, Stream, Counts
  <1>4. (pc # "begin" => pos <= Len(Stream) /\ count <= pos)' /\ (pc = "init" => pos = 0)'
    <2>1. CASE RegisterDefaults
      BY <1>3, <2>1 DEF RegisterDefaults, Stream
    <2>2. CASE SkipPart \/ HandlePart
      BY <1>3, <2>2 DEF SkipPart, HandlePart, Walking, PosInv, Stream
    <2>3. CASE HandleHandler
      <3>1. count' \in {count, count + 1} /\ pos' = pos + 1 /\ pc' = "walk" /\ pos < Len(Stream)
            /\ UNCHANGED <<data, stream>>
        BY <2>3, HandleHandlerStep, HandlerIsNew, HandlersAssumption DEF Handlers
      <3> QED BY <1>3, <2>3, <3>1 DEF HandleHandler, Walking, PosInv, Stream
    <2>4. CASE InitHandlers \/ EndWalk \/ FinalizeHandlers \/ UNCHANGED vars
      BY <2>4 DEF InitHandlers, EndWalk, FinalizeHandlers, vars, PosInv, Stream
    <2>5. CASE ConsumeVendordata \/ Reboot
      BY <2>5 DEF ConsumeVendordata, Reboot
    <2> QED BY <2>1, <2>2, <2>3, <2>4, <2>5 DEF Next
  <1> QED BY <1>2, <1>4 DEF PosInv

LEMMA ModulesKept == ASSUME PartHandlersInv, [Next]_vars PROVE ModulesInv'
  <1> USE DEF PartHandlersInv
  <1>1. CASE HandleHandler
    <2>1. \A r \in Streams : Walked(r)' = Walked(r) \cup {j \in {pos + 1} : r = stream}
      BY <1>1, HandleHandlerStep DEF Walked, TypeOK
    <2>2. \A n \in Counts : modules'[n] = IF n = count THEN HandlerOf ELSE modules[n]
      BY <1>1, HandleHandlerStep DEF TypeOK
    <2>3. \A n \in Counts : modules'[n] # None =>
            \E r \in Streams : \E i \in Walked(r)' : data'[r][i].code = modules'[n]
      BY <1>1, <2>1, <2>2, HandleHandlerStep, HandlerIsNew DEF ModulesInv
    <2>4. \A m, n \in Counts : modules'[m] = modules'[n] /\ modules'[n] # None => m = n
      BY <1>1, <2>2, HandlerIsNew DEF ModulesInv
    <2> QED BY <2>3, <2>4 DEF ModulesInv
  <1>2. CASE Reboot
    BY <1>2 DEF Reboot, ModulesInv
  <1>3. CASE ~HandleHandler /\ ~Reboot
    <2>1. UNCHANGED <<data, modules>>
      BY <1>3 DEF Next, vars, RegisterDefaults, InitHandlers, SkipPart, HandlePart, EndWalk,
                  FinalizeHandlers, ConsumeVendordata
    <2>2. \A r \in Streams : Walked(r) \subseteq Walked(r)'
      <3>1. CASE RegisterDefaults
        BY <3>1 DEF RegisterDefaults, Walked
      <3>2. CASE InitHandlers
        BY <3>2 DEF InitHandlers, Walked, PosInv
      <3>3. CASE SkipPart \/ HandlePart
        BY <3>3 DEF SkipPart, HandlePart, Walking, Walked, TypeOK
      <3>4. CASE EndWalk \/ FinalizeHandlers \/ UNCHANGED vars
        BY <3>4 DEF EndWalk, FinalizeHandlers, vars, Walked
      <3>5. CASE ConsumeVendordata
        BY <3>5 DEF ConsumeVendordata, Walked, Streams, Stream
      <3> QED BY <1>3, <3>1, <3>2, <3>3, <3>4, <3>5 DEF Next
    <2> QED BY <2>1, <2>2 DEF ModulesInv
  <1> QED BY <1>1, <1>2, <1>3

LEMMA BegunKept == ASSUME PartHandlersInv, [Next]_vars PROVE BegunInv'
  <1> USE DEF PartHandlersInv
  <1>1. CASE RegisterDefaults
    BY <1>1, DefaultsRegistered DEF RegisterDefaults, BegunInv, Items
  <1>2. CASE InitHandlers
    BY <1>2 DEF InitHandlers, BegunInv, Items
  <1>3. CASE SkipPart \/ HandlePart \/ EndWalk \/ UNCHANGED vars
    BY <1>3 DEF SkipPart, HandlePart, EndWalk, vars, Walking, BegunInv, Items
  <1>4. CASE HandleHandler
    <2> USE HandleHandlerStep, HandlerIsNew
    <2>1. pc' = "walk" /\ pc = "walk" /\ count \in Nat
      BY <1>4 DEF Counts
    <2>2. Items' \subseteq initialized'
      BY <1>4, <2>1, HandlersAssumption DEF BegunInv, Items, TypeOK, Handlers
    <2>3. ASSUME NEW h \in initialized', h \notin Default \cup CloudDir
          PROVE  \E n \in 0..(count' - 1) : modules'[n] = h
      <3>1. CASE h = HandlerOf /\ h \notin initialized
        BY <1>4, <2>1, <3>1, HandlersAssumption DEF TypeOK, Handlers
      <3>2. CASE h \in initialized
        <4>1. PICK n \in 0..(count - 1) : modules[n] = h
          BY <2>1, <2>3, <3>2 DEF BegunInv
        <4>2. n \in Counts /\ n # count
          BY <2>1, <4>1, HandlersAssumption DEF TypeOK, Counts
        <4>3. modules'[n] = h
          BY <1>4, <4>1, <4>2 DEF TypeOK
        <4>4. count' \in {count, count + 1}
          BY <1>4, HandlersAssumption DEF Handlers
        <4> QED BY <2>1, <4>1, <4>3, <4>4
      <3> QED BY <1>4, <2>3, <3>1, <3>2, HandlersAssumption DEF Handlers
    <2> QED BY <2>1, <2>2, <2>3 DEF BegunInv
  <1>5. CASE FinalizeHandlers \/ ConsumeVendordata \/ Reboot
    BY <1>5 DEF FinalizeHandlers, ConsumeVendordata, Reboot, BegunInv
  <1> QED BY <1>1, <1>2, <1>3, <1>4, <1>5 DEF Next

\* Whether a handler runs depends on the boot only.
LEMMA CallsKept == ASSUME PartHandlersInv, [Next]_vars PROVE CallsInv'
  <1> USE DEF PartHandlersInv
  <1>1. CASE RegisterDefaults
    BY <1>1 DEF RegisterDefaults, CallsInv
  <1>2. CASE InitHandlers
    <2>1. /\ pc = "init" /\ pc' = "walk" /\ initialized' = Items /\ frequency' = frequency
          /\ Called(Items, "begin")
      BY <1>2 DEF InitHandlers
    <2>2. ASSUME NEW h \in Handlers, h.lists
          PROVE  IF h \in Items /\ Runs(h) THEN Begun(calls'[h]) ELSE calls'[h] = <<>>
      <3>1. calls[h] = <<>> /\ calls[h] \in Seq({"begin", "part", "end"})
        BY <2>1, <2>2 DEF CallsInv, TypeOK
      <3>2. calls'[h] = IF h \in Items /\ Runs(h) THEN Append(calls[h], "begin") ELSE calls[h]
        BY <2>1, CallsAfter
      <3> QED BY <3>1, <3>2, BegunAppend
    <2>3. \A h : Runs(h)' <=> Runs(h)
      BY <2>1 DEF Runs
    <2> QED BY <2>1, <2>2, <2>3 DEF CallsInv
  <1>3. CASE HandlePart
    <2> DEFINE g == registered[Part.type]
    <2>1. /\ pc = "walk" /\ pc' = "walk" /\ frequency' = frequency /\ initialized' = initialized
          /\ Called({g}, "part") /\ Part.type \in Types /\ g # None
      BY <1>3 DEF HandlePart, Walking
    <2>2. g \in initialized
      BY <2>1 DEF BegunInv, Items
    <2> HIDE DEF g
    <2>3. ASSUME NEW h \in Handlers, h.lists
          PROVE  IF h \in initialized /\ Runs(h) THEN Begun(calls'[h]) ELSE calls'[h] = <<>>
      <3>1. IF h \in initialized /\ Runs(h) THEN Begun(calls[h]) ELSE calls[h] = <<>>
        BY <2>1, <2>3 DEF CallsInv
      <3>2. calls'[h] = IF h = g /\ Runs(h) THEN Append(calls[h], "part") ELSE calls[h]
        BY <2>1, CallsAfter
      <3>3. calls[h] \in Seq({"begin", "part", "end"})
        BY DEF TypeOK
      <3> QED BY <2>2, <3>1, <3>2, <3>3, BegunAppend
    <2>4. \A h : Runs(h)' <=> Runs(h)
      BY <2>1 DEF Runs
    <2> QED BY <2>1, <2>3, <2>4 DEF CallsInv
  <1>4. CASE HandleHandler
    <2>1. /\ pc = "walk" /\ pc' = "walk" /\ frequency' = frequency /\ Called({HandlerOf}, "begin")
          /\ HandlerOf.lists => initialized' = initialized \cup {HandlerOf}
          /\ ~HandlerOf.lists => initialized' = initialized
          /\ HandlerOf \notin initialized
      BY <1>4, HandleHandlerStep, HandlerNotBegun
    <2>2. ASSUME NEW h \in Handlers, h.lists
          PROVE  IF h \in initialized' /\ Runs(h) THEN Begun(calls'[h]) ELSE calls'[h] = <<>>
      <3>1. IF h \in initialized /\ Runs(h) THEN Begun(calls[h]) ELSE calls[h] = <<>>
        BY <2>1, <2>2 DEF CallsInv
      <3>2. calls'[h] = IF h = HandlerOf /\ Runs(h) THEN Append(calls[h], "begin") ELSE calls[h]
        BY <2>1, CallsAfter
      <3>3. calls[h] \in Seq({"begin", "part", "end"})
        BY DEF TypeOK
      <3>4. CASE h = HandlerOf
        BY <2>1, <2>2, <3>1, <3>2, <3>3, <3>4, BegunAppend
      <3>5. CASE h # HandlerOf
        <4>1. h \in initialized' <=> h \in initialized
          BY <2>1, <3>5, HandlersAssumption, HandlerIsNew, <1>4 DEF Handlers
        <4> QED BY <3>1, <3>2, <3>5, <4>1
      <3> QED BY <3>4, <3>5
    <2>3. \A h : Runs(h)' <=> Runs(h)
      BY <2>1 DEF Runs
    <2> QED BY <2>1, <2>2, <2>3 DEF CallsInv
  <1>5. CASE SkipPart \/ EndWalk \/ UNCHANGED vars
    BY <1>5 DEF SkipPart, EndWalk, vars, Walking, CallsInv, Runs
  <1>6. CASE FinalizeHandlers \/ ConsumeVendordata \/ Reboot
    BY <1>6 DEF FinalizeHandlers, ConsumeVendordata, Reboot, CallsInv
  <1> QED BY <1>1, <1>2, <1>3, <1>4, <1>5, <1>6 DEF Next

LEMMA OrderKept == ASSUME PartHandlersInv, CallsInv', TypeOK', [Next]_vars PROVE CallsInOrder'
  <1> USE DEF PartHandlersInv
  <1>1. CASE FinalizeHandlers
    <2>1. pc = "end" /\ Called(Finalized, "end") /\ Finalized \subseteq initialized
      BY <1>1 DEF FinalizeHandlers, Finalized
    <2> SUFFICES ASSUME NEW h \in Handlers, h.lists, calls'[h] # <<>>
                 PROVE  /\ calls'[h][1] = "begin"
                        /\ \A i \in 2..Len(calls'[h]) :
                             calls'[h][i] = "part" \/ (calls'[h][i] = "end" /\ i = Len(calls'[h]))
      BY DEF CallsInOrder
    <2> DEFINE s == calls[h]
               t == calls'[h]
    <2>2. s \in Seq({"begin", "part", "end"}) /\ (s = <<>> \/ Begun(s))
      BY <2>1 DEF TypeOK, CallsInv
    <2>3. t = IF h \in Finalized /\ Runs(h) THEN Append(s, "end") ELSE s
      BY <2>1, CallsAfter
    <2>4. Begun(s)
      BY <2>1, <2>2, <2>3 DEF CallsInv
    <2> HIDE DEF s, t
    <2>5. CASE t = s
      BY <2>4, <2>5 DEF Begun, t
    <2>6. CASE t = Append(s, "end")
      <3>1. Len(s) \in Nat /\ Len(s) >= 1 /\ Len(t) = Len(s) + 1 /\ t[Len(s) + 1] = "end"
        BY <2>2, <2>4, <2>6 DEF Begun
      <3>2. \A i \in 1..Len(s) : t[i] = s[i]
        BY <2>2, <2>6
      <3> QED BY <2>4, <3>1, <3>2 DEF Begun, t
    <2> QED BY <2>3, <2>5, <2>6
  <1>2. CASE RegisterDefaults
    BY <1>2 DEF RegisterDefaults, CallsInOrder
  <1>3. CASE InitHandlers \/ SkipPart \/ HandlePart \/ HandleHandler \/ EndWalk
    <2>1. pc' \in {"walk", "end"}
      BY <1>3 DEF InitHandlers, SkipPart, HandlePart, HandleHandler, EndWalk, Walking
    <2> QED BY <2>1 DEF CallsInv, CallsInOrder, Begun
  <1>4. CASE ConsumeVendordata \/ Reboot
    BY <1>4 DEF ConsumeVendordata, Reboot, CallsInOrder
  <1>5. CASE UNCHANGED vars
    BY <1>5 DEF vars, CallsInOrder
  <1> QED BY <1>1, <1>2, <1>3, <1>4, <1>5 DEF Next

\* Who claims a type is in the data and the cloud directory, which stay.
LEMMA ClaimsStay ==
  ASSUME [Next]_vars
  PROVE  UNCHANGED data /\ \A t : Claimed(t)' <=> Claimed(t)
  <1>1. UNCHANGED data
    BY DEF Next, vars, RegisterDefaults, InitHandlers, SkipPart, HandlePart, HandleHandler,
           EndWalk, FinalizeHandlers, ConsumeVendordata, Reboot
  <1> QED BY <1>1 DEF Claimed

LEMMA RegisteredKept == ASSUME PartHandlersInv, [Next]_vars PROVE RegisteredInv'
  <1> USE DEF PartHandlersInv
  <1>1. CASE RegisterDefaults
    BY <1>1, DefaultsRegistered, ClaimsStay DEF RegisteredInv
  <1>2. CASE HandleHandler
    <2>1. HandlerOf \in Custom
      BY <1>2, HandlerIsNew
    <2>2. PICK r \in Streams : \E i \in 1..Len(data[r]) : data[r][i].code = HandlerOf
      BY <1>2, HandlerIsNew
    <2>3. \A t \in HandlerOf.types : Claimed(t)
      BY <2>1, <2>2 DEF Claimed
    <2>4. \A t \in Types : ~Claimed(t) => registered'[t] = registered[t]
      BY <1>2, <2>1, <2>3, HandleHandlerStep, HandlersAssumption DEF Handlers
    <2>5. pc # "begin"
      BY <1>2, HandleHandlerStep
    <2> QED BY <2>4, <2>5, ClaimsStay, CloudConfigHandler DEF RegisteredInv
  <1>3. CASE InitHandlers \/ SkipPart \/ HandlePart \/ EndWalk \/ FinalizeHandlers \/ UNCHANGED vars
    BY <1>3, ClaimsStay
    DEF InitHandlers, SkipPart, HandlePart, EndWalk, FinalizeHandlers, vars, Walking, RegisteredInv
  <1>4. CASE ConsumeVendordata \/ Reboot
    BY <1>4 DEF ConsumeVendordata, Reboot, RegisteredInv
  <1> QED BY <1>1, <1>2, <1>3, <1>4 DEF Next

\* A step of the walk keeps the merged parts exact when it merges its part, a good
\* one, or does not have to.
LEMMA WalkStep ==
  ASSUME TypeOK, MergedInv, Walking, pos' = pos + 1, pc' = "walk",
         UNCHANGED <<data, stream>>, \A t : Claimed(t)' <=> Claimed(t),
         \/ Buffer' = Buffer /\ (Ours(Part) => Part.body # "good")
         \/ Buffer' = Append(Buffer, pos + 1) /\ Part.body = "good"
  PROVE  MergedInv'
  <1>1. /\ pos \in Nat /\ Buffer \in Seq(Nat) /\ Exact(Buffer)
        /\ \A j \in 1..Len(Buffer) : Buffer[j] \in 1..pos
    BY DEF TypeOK, MergedInv, Walking, Buffer
  <1>2. Stream' = Stream /\ (\A p : Ours(p)' <=> Ours(p)) /\ Part = Stream[pos + 1]
    BY DEF Stream, Ours, Part
  <1>3. CASE Buffer' = Buffer /\ (Ours(Part) => Part.body # "good")
    BY <1>1, <1>2, <1>3 DEF MergedInv, Exact
  <1>4. CASE Buffer' = Append(Buffer, pos + 1) /\ Part.body = "good"
    <2> DEFINE b == Buffer
               c == Buffer'
    <2>1. Len(b) \in Nat /\ Len(c) = Len(b) + 1 /\ c[Len(b) + 1] = pos + 1
      BY <1>1, <1>4
    <2>2. \A j \in 1..Len(b) : c[j] = b[j]
      BY <1>1, <1>4
    <2> HIDE DEF b, c
    <2>3. \A j \in 1..Len(b) : b[j] \in 1..pos
      BY <1>1 DEF b
    <2>4. \A j \in 1..Len(c) : c[j] \in 1..(pos + 1)
      BY <1>1, <2>1, <2>2, <2>3
    <2>5. \A j, k \in 1..Len(c) : j < k => c[j] < c[k]
      <3>1. \A j, k \in 1..Len(b) : j < k => b[j] < b[k]
        BY <1>1 DEF Exact, b
      <3> SUFFICES ASSUME NEW j \in 1..Len(c), NEW k \in 1..Len(c), j < k PROVE c[j] < c[k]
        OBVIOUS
      <3>2. j \in 1..Len(b) /\ c[j] = b[j] /\ c[j] \in 1..pos
        BY <2>1, <2>2, <2>3
      <3>3. CASE k \in 1..Len(b)
        BY <2>2, <3>1, <3>2, <3>3
      <3>4. CASE k = Len(b) + 1
        BY <1>1, <2>1, <3>2, <3>4
      <3> QED BY <2>1, <3>3, <3>4
    <2>6. ASSUME NEW i \in 1..(pos + 1), Ours(Stream[i])
          PROVE  Stream[i].body = "good" <=> \E j \in 1..Len(c) : c[j] = i
      <3>1. CASE i = pos + 1
        BY <1>2, <1>4, <2>1, <3>1
      <3>2. CASE i # pos + 1
        <4>1. i \in 1..pos
          BY <1>1, <3>2
        <4>2. Stream[i].body = "good" <=> \E j \in 1..Len(b) : b[j] = i
          BY <1>1, <2>6, <4>1 DEF Exact, b
        <4>3. (\E j \in 1..Len(c) : c[j] = i) <=> \E j \in 1..Len(b) : b[j] = i
          BY <2>1, <2>2, <3>2
        <4> QED BY <4>2, <4>3
      <3> QED BY <3>1, <3>2
    <2> QED BY <1>2, <2>4, <2>5, <2>6 DEF MergedInv, Exact, c
  <1> QED BY <1>3, <1>4

LEMMA MergedKept == ASSUME PartHandlersInv, [Next]_vars PROVE MergedInv'
  <1> USE DEF PartHandlersInv
  <1>1. CASE RegisterDefaults
    BY <1>1 DEF RegisterDefaults, MergedInv
  <1>2. CASE InitHandlers
    <2>1. pos' = 0 /\ Buffer' = <<>>
      BY <1>2 DEF InitHandlers, PosInv, MergedInv, Buffer
    <2> QED BY <1>2, <2>1 DEF InitHandlers, MergedInv, Exact
  <1>3. CASE SkipPart
    <2>1. ~Ours(Part)
      BY <1>3, CloudConfigHandler DEF SkipPart, Walking, Ours, IsExcluded, RegisteredInv
    <2>2. Walking /\ pos' = pos + 1 /\ pc' = "walk" /\ UNCHANGED <<data, stream>> /\ Buffer' = Buffer
      BY <1>3 DEF SkipPart, Walking, Buffer
    <2> QED BY <2>1, <2>2, WalkStep, ClaimsStay
  <1>4. CASE HandlePart
    <2>1. Walking /\ pos' = pos + 1 /\ pc' = "walk" /\ UNCHANGED <<data, stream>>
      BY <1>4 DEF HandlePart, Walking
    <2>2. CASE registered[Part.type] = CC
      <3>1. buf' = Merged
        BY <1>4, <2>2 DEF HandlePart
      <3>2. Merged \in Seq(Nat)
        BY DEF TypeOK, Merged, Buffer
      <3>3. Buffer' = Merged
        BY <3>1, <3>2, HandlersAssumption DEF Buffer
      <3> QED BY <2>1, <3>3, WalkStep, ClaimsStay DEF Merged
    <2>3. CASE registered[Part.type] # CC
      <3>1. Buffer' = Buffer
        BY <1>4, <2>3 DEF HandlePart, Buffer
      <3>2. ~Ours(Part)
        BY <2>1, <2>3 DEF Ours, RegisteredInv, Walking
      <3> QED BY <2>1, <3>1, <3>2, WalkStep, ClaimsStay
    <2> QED BY <2>2, <2>3
  <1>5. CASE HandleHandler
    <2>1. ~Ours(Part)
      BY <1>5, CloudConfigHandler DEF HandleHandler, Ours
    <2>2. Walking /\ pos' = pos + 1 /\ pc' = "walk" /\ UNCHANGED <<data, stream>> /\ Buffer' = Buffer
      BY <1>5 DEF HandleHandler, Walking, Buffer
    <2> QED BY <2>1, <2>2, WalkStep, ClaimsStay
  <1>6. CASE EndWalk \/ UNCHANGED vars
    BY <1>6, ClaimsStay DEF EndWalk, vars, MergedInv, Exact, Ours, Buffer, Stream
  <1>7. CASE FinalizeHandlers \/ ConsumeVendordata \/ Reboot
    BY <1>7 DEF FinalizeHandlers, ConsumeVendordata, Reboot, MergedInv
  <1> QED BY <1>1, <1>2, <1>3, <1>4, <1>5, <1>6, <1>7 DEF Next

LEMMA ExactKept == ASSUME PartHandlersInv, [Next]_vars PROVE CloudConfigExact'
  <1> USE DEF PartHandlersInv
  <1>1. CASE FinalizeHandlers
    <2> SUFFICES ASSUME NEW t \in CC.types, ~Claimed(t)
                 PROVE  config'[stream] # None /\ Exact(config[stream])'
      BY <1>1, ClaimsStay DEF FinalizeHandlers, CloudConfigExact
    <2>1. pc = "end" /\ UNCHANGED <<data, stream, pos>>
      BY <1>1 DEF FinalizeHandlers
    <2>2. t \in Types /\ registered[t] = CC
      BY <2>1, CloudConfigHandler DEF RegisteredInv
    <2>3. CC \in Items
      BY <2>2, CloudConfigHandler DEF Items
    <2>4. CC \in Finalized
      BY <2>1, <2>3 DEF BegunInv, Finalized
    <2>5. config'[stream] = Buffer /\ Buffer \in Seq(Nat) /\ Exact(Buffer)
      BY <1>1, <2>1, <2>4 DEF FinalizeHandlers, TypeOK, Buffer, MergedInv
    <2> QED BY <2>1, <2>5, ClaimsStay, HandlersAssumption DEF Exact, Ours, Stream
  <1>2. CASE UNCHANGED vars
    BY <1>2, ClaimsStay DEF vars, CloudConfigExact, Exact, Ours, Stream
  <1>3. CASE Next /\ ~FinalizeHandlers
    <2>1. pc' # "over"
      BY <1>3 DEF Next, RegisterDefaults, InitHandlers, SkipPart, HandlePart, HandleHandler,
                  EndWalk, ConsumeVendordata, Reboot, Walking
    <2> QED BY <2>1 DEF CloudConfigExact
  <1> QED BY <1>1, <1>2, <1>3

LEMMA InitHolds == ASSUME Init PROVE PartHandlersInv
  <1>1. TypeOK
    BY HandlersAssumption DEF Init, TypeOK, Counts, Streams
  <1>2. PosInv /\ ModulesInv /\ BegunInv /\ CallsInv /\ RegisteredInv /\ MergedInv
    BY DEF Init, PosInv, ModulesInv, BegunInv, CallsInv, RegisteredInv, MergedInv
  <1> QED BY <1>1, <1>2 DEF Init, PartHandlersInv, CallsInOrder, CloudConfigExact

\* The walks keep their invariant.
THEOREM PartHandlersInvariant == Spec => []PartHandlersInv
  <1>1. Init => PartHandlersInv
    BY InitHolds
  <1>2. PartHandlersInv /\ [Next]_vars => PartHandlersInv'
    BY TypesKept, PosKept, ModulesKept, BegunKept, CallsKept, RegisteredKept, MergedKept,
       OrderKept, ExactKept DEF PartHandlersInv
  <1> QED BY <1>1, <1>2, PTL DEF Spec

\* Any handler that works is begun once, before its parts, and ended at most once,
\* after them: whatever part-handlers a stream carries, in whatever order they take
\* types over, and over reboots in the middle of a walk.
THEOREM CallsInOrderAlways == Spec => []CallsInOrder
  <1>1. PartHandlersInv => CallsInOrder
    BY DEF PartHandlersInv
  <1> QED BY <1>1, PartHandlersInvariant, PTL

\* The cloud-config of a stream is what its parts give, for any stream.
THEOREM CloudConfigExactAlways == Spec => []CloudConfigExact
  <1>1. PartHandlersInv => CloudConfigExact
    BY DEF PartHandlersInv
  <1> QED BY <1>1, PartHandlersInvariant, PTL
=============================================================================
