----------------------------- MODULE PartHandlers -----------------------------
(***************************************************************************)
(* How one boot after another consumes user-data and then vendor-data:     *)
(* stages.Init.consume_data and _do_handlers, handlers/__init__.py, and    *)
(* helpers.ContentHandlers.  The parts of a stream are walked in order; a   *)
(* part goes to the handler registered for its type; a part-handler part    *)
(* is python code that becomes a handler of the parts after it.  Of the     *)
(* handlers only CloudConfigPartHandler is modelled with what it does: it   *)
(* merges what it is given and writes the whole at its end.                 *)
(*                                                                         *)
(* Not modelled: how a message is taken apart (user_data.py), how two      *)
(* cloud-configs merge, and when vendor-data is enabled.                   *)
(***************************************************************************)
EXTENDS Naturals, Sequences, FiniteSets

CONSTANTS Custom,    \* what part-handler code there is
          CloudDir,  \* the part of it in /var/lib/cloud/handlers
          Data,      \* what a stream may be: sequences of parts
          Excluded,  \* the types disabled for vendor-data
          MaxParts,  \* bound: parts of a stream
          MaxBoots,  \* bound: boots
          None

(* A handler's types, its frequency ("instance" where it names none), and   *)
(* whether its list_types works.                                            *)
CC == [name |-> "cloud-config", types |-> {"cc", "jsonp"}, freq |-> "always", lists |-> TRUE]
Script == [name |-> "shell-script", types |-> {"script"}, freq |-> "always", lists |-> TRUE]
Default == {CC, Script}
Handlers == Default \cup Custom
Types == UNION {h.types : h \in Handlers}

(* A part has a type; its body can be merged ("good"), read but not merged  *)
(* ("bad") or not even decoded ("garbled"); a "handler" part carries code.  *)
Parts == {p \in [type : Types \cup {"other", "handler"}, body : {"good", "bad", "garbled"},
                 code : Custom \cup {None}] : p.type = "handler" <=> p.code # None}

Streams == {"user", "vendor"}

ASSUME HandlersAssumption ==
    /\ CloudDir \subseteq Custom /\ Custom \cap Default = {}
    \* their order is that of a directory
    /\ \A g, h \in CloudDir : g # h => g.types \cap h.types = {}
    /\ \A h \in Handlers : h.freq \in {"instance", "always"} /\ h.lists \in BOOLEAN
    /\ MaxParts \in Nat /\ Data \subseteq Seq(Parts) /\ \A d \in Data : Len(d) <= MaxParts
    /\ MaxBoots \in Nat \ {0}
    /\ None \notin Handlers \cup Seq(Nat)

VARIABLES
    data,         \* the parts of either stream, the same in every boot
    boot,
    frequency,    \* consume_data's argument: "instance" once, then "always"
    modules,      \* sys.modules: what part-handler-<n> is in this process
    stream, pc,
    pos,          \* parts walked
    registered,   \* ContentHandlers.registered
    initialized,  \* ContentHandlers.initialized
    count,        \* handlercount
    buf,          \* CloudConfigPartHandler: the parts merged, None for no cloud_buf
    config,       \* the cloud-config file of either stream
    \* history, of the stream
    calls         \* of each handler

vars == <<data, boot, frequency, modules, stream, pc, pos, registered, initialized, count,
          buf, config, calls>>

\* The numbers of part handlers.
Counts == 0..MaxParts

TypeOK ==
    /\ data \in [Streams -> Data] /\ boot \in 1..MaxBoots
    /\ frequency \in {"instance", "always"}
    /\ modules \in [Counts -> Custom \cup {None}]
    /\ stream \in Streams /\ pc \in {"begin", "init", "walk", "end", "over"} /\ pos \in Nat
    /\ registered \in [Types -> Handlers \cup {None}] /\ initialized \subseteq Handlers
    /\ count \in Counts
    /\ buf \in Seq(Nat) \cup {None} /\ config \in [Streams -> Seq(Nat) \cup {None}]
    /\ calls \in [Handlers -> Seq({"begin", "part", "end"})]

----------------------------------------------------------------------------
\* Every handler part is imported as a module of its own: it has code of its own.
OwnCode(d) ==
    \A r, s \in Streams : \A i \in 1..Len(d[r]), j \in 1..Len(d[s]) :
        LET h == d[r][i].code
        IN h # None => h \notin CloudDir /\ (h = d[s][j].code => r = s /\ i = j)

Init ==
    /\ data \in [Streams -> Data] /\ OwnCode(data) /\ boot = 1 /\ frequency = "instance"
    /\ modules = [n \in Counts |-> None]
    /\ stream = "user" /\ pc = "begin" /\ pos = 0
    /\ registered = [t \in Types |-> None] /\ initialized = {} /\ count = 0
    /\ buf = None /\ config = [s \in Streams |-> None]
    /\ calls = [h \in Handlers |-> <<>>]

\* ContentHandlers.register: a handler takes its types over.
Registered(h) == [t \in Types |-> IF t \in h.types THEN h ELSE registered[t]]

\* ContentHandlers.items: the handlers reached by some type.
Items == {registered[t] : t \in Types} \ {None}

\* run_part: whether a handler is called in a consumption of this frequency.
Runs(h) == h.freq = "always" \/ frequency = h.freq

\* The calls of the handlers hs, each with the signal c.
Called(hs, c) ==
    calls' = [h \in Handlers |-> IF h \in hs /\ Runs(h) THEN Append(calls[h], c) ELSE calls[h]]

(* _do_handlers registers the code of the cloud directory, then the default *)
(* handlers for the types that are left.                                    *)
RegisterDefaults ==
    /\ pc = "begin" /\ pc' = "init"
    /\ LET Cloud(t) == {h \in CloudDir : h.lists /\ t \in h.types}
           Fallback(t) == {h \in Default : t \in h.types}
           One(hs) == CHOOSE h \in hs : TRUE
       IN registered' = [t \in Types |-> IF Cloud(t) # {} THEN One(Cloud(t))
                                         ELSE IF Fallback(t) # {} THEN One(Fallback(t)) ELSE None]
    /\ pos' = 0 /\ count' = 0 /\ initialized' = {} /\ buf' = None
    /\ calls' = [h \in Handlers |-> <<>>]
    /\ UNCHANGED <<data, boot, frequency, modules, stream, config>>

\* Mutant: a handler of several types begins for each.
InitHandlers_PerType ==
    /\ pc = "init" /\ pc' = "walk"
    /\ calls' = [h \in Handlers |->
                   IF h \in Items /\ Runs(h)
                   THEN calls[h] \o [n \in 1..Cardinality({t \in Types : registered[t] = h}) |-> "begin"]
                   ELSE calls[h]]
    /\ initialized' = Items
    /\ UNCHANGED <<data, boot, frequency, modules, stream, pos, registered, count, buf, config>>

InitHandlers ==
    /\ pc = "init" /\ pc' = "walk"
    /\ Called(Items, "begin")
    /\ initialized' = Items
    /\ UNCHANGED <<data, boot, frequency, modules, stream, pos, registered, count, buf, config>>

----------------------------------------------------------------------------
Stream == data[stream]
Part == Stream[pos + 1]
Walking == pc = "walk" /\ pos < Len(Stream)
IsExcluded == stream = "vendor" /\ Part.type \in Excluded

\* walk and walker_callback: the parts nobody handles.
SkipPart ==
    /\ Walking /\ Part.body # "garbled"
    /\ \/ IsExcluded
       \/ Part.type # "handler" /\ (Part.type \in Types => registered[Part.type] = None)
    /\ pos' = pos + 1
    /\ UNCHANGED <<data, boot, frequency, modules, stream, pc, registered, initialized, count, buf,
                   config, calls>>

\* CloudConfigPartHandler.cloud_buf starts empty.
Buffer == IF buf = None THEN <<>> ELSE buf

\* Mutant: a bad part throws away what was merged.
Merged_Resets == IF Part.body = "good" THEN Append(Buffer, pos + 1) ELSE <<>>

\* CloudConfigPartHandler.handle_part: the buffer stays as it is when a part
\* cannot be merged.
Merged == IF Part.body = "good" THEN Append(Buffer, pos + 1) ELSE Buffer

(* A part goes to the handler of its type.                                  *)
HandlePart ==
    /\ Walking /\ Part.body # "garbled" /\ ~IsExcluded
    /\ Part.type \in Types /\ registered[Part.type] # None
    /\ LET h == registered[Part.type]
       IN /\ Called({h}, "part")
          /\ buf' = IF h = CC THEN Merged ELSE buf
    /\ pos' = pos + 1
    /\ UNCHANGED <<data, boot, frequency, modules, stream, pc, registered, initialized, count,
                   config>>

\* The number of the next handler.
NextNumber(n) == n + 1

(* walker_handle_handler: the code is written to part-handler-<count>.py and *)
(* imported under that name - a name this process may know already.  It is  *)
(* begun, and registered when its list_types works.                         *)
HandleHandler ==
    /\ Walking /\ Part.body # "garbled" /\ Part.type = "handler" /\ ~IsExcluded
    /\ LET h == IF modules[count] = None THEN Part.code ELSE modules[count]
       IN /\ modules' = [modules EXCEPT ![count] = h]
          /\ Called({h}, "begin")
          /\ IF h.lists
             THEN /\ registered' = Registered(h)
                  /\ initialized' = initialized \cup {h}
                  /\ count' = NextNumber(count)
             ELSE UNCHANGED <<registered, initialized, count>>
    /\ pos' = pos + 1
    /\ UNCHANGED <<data, boot, frequency, stream, pc, buf, config>>

\* A part that cannot be decoded ends the walk; so does the last part.
EndWalk ==
    /\ pc = "walk"
    /\ Walking => Part.body = "garbled"
    /\ pc' = "end"
    /\ UNCHANGED <<data, boot, frequency, modules, stream, pos, registered, initialized, count, buf,
                   config, calls>>

\* finalize_handlers, run in any case: the handlers that were begun.
Finalized == Items \cap initialized

(* The handlers end; CloudConfigPartHandler writes its file.  The failed    *)
(* walk of the user-data raises, and vendor-data is not consumed.           *)
FinalizeHandlers ==
    /\ pc = "end"
    /\ Called(Finalized, "end")
    /\ config' = IF CC \in Finalized
                 THEN [config EXCEPT ![stream] = Buffer] ELSE config
    /\ pc' = "over"
    /\ UNCHANGED <<data, boot, frequency, modules, stream, pos, registered, initialized, count,
                   buf>>

ConsumeVendordata ==
    /\ pc = "over" /\ stream = "user" /\ pos = Len(Stream)
    /\ data["vendor"] # <<>>
    /\ stream' = "vendor" /\ pc' = "begin"
    /\ UNCHANGED <<data, boot, frequency, modules, pos, registered, initialized, count, buf, config,
                   calls>>

(* The machine boots again, at any time: a new process.  The semaphore of   *)
(* consume_data is there since before the first consumption.                *)
Reboot ==
    /\ boot < MaxBoots
    /\ boot' = boot + 1 /\ frequency' = "always"
    /\ modules' = [n \in Counts |-> None]
    /\ stream' = "user" /\ pc' = "begin"
    /\ UNCHANGED <<data, pos, registered, initialized, count, buf, config, calls>>

Next ==
    \/ RegisterDefaults \/ InitHandlers
    \/ SkipPart \/ HandlePart \/ HandleHandler \/ EndWalk
    \/ FinalizeHandlers \/ ConsumeVendordata
    \/ Reboot

Spec == Init /\ [][Next]_vars

----------------------------------------------------------------------------
\* A handler that works is begun once, before its parts, and ended at most once,
\* after them, whichever way it came to be registered and in whatever order.
CallsInOrder ==
    pc # "begin" => \A h \in Handlers : h.lists /\ calls[h] # <<>> =>
        /\ calls[h][1] = "begin"
        /\ \A i \in 2..Len(calls[h]) :
             calls[h][i] = "part" \/ (calls[h][i] = "end" /\ i = Len(calls[h]))

Claimed(t) ==
    \E h \in Custom : t \in h.types /\
        \/ h \in CloudDir
        \/ \E s \in Streams : \E i \in 1..Len(data[s]) : data[s][i].code = h

\* The parts of cloud-config that are nobody else's.
Ours(p) ==
    p.type \in CC.types /\ ~Claimed(p.type) /\ ~(stream = "vendor" /\ p.type \in Excluded)

\* What the merged parts of a walk are, in their order.
Exact(merged) ==
    /\ \A i \in 1..pos : Ours(Stream[i]) =>
         (Stream[i].body = "good" <=> \E j \in 1..Len(merged) : merged[j] = i)
    /\ \A j, k \in 1..Len(merged) : j < k => merged[j] < merged[k]

\* Where no other handler claims a type of cloud-config, the file of a stream that
\* was walked has every part of that type that can be merged, and no bad part and
\* no garbled end of the stream makes it lose one.
CloudConfigExact ==
    pc = "over" /\ (\E t \in CC.types : ~Claimed(t)) =>
        config[stream] # None /\ Exact(config[stream])

(* What makes CallsInOrder and CloudConfigExact inductive.                  *)

\* The parts of a stream this boot has walked.
Walked(r) ==
    IF r = stream THEN IF pc \in {"begin", "init"} THEN {} ELSE 1..pos
    ELSE IF stream = "vendor" THEN 1..Len(data[r]) ELSE {}

PosInv ==
    /\ OwnCode(data)
    /\ pc # "begin" => pos <= Len(Stream) /\ count <= pos
    /\ pc = "init" => pos = 0

\* This process knows modules only by the parts it has walked, each by one name.
ModulesInv ==
    /\ \A n \in Counts : modules[n] # None =>
         \E r \in Streams : \E i \in Walked(r) : data[r][i].code = modules[n]
    /\ \A m, n \in Counts : modules[m] = modules[n] /\ modules[n] # None => m = n

\* Who was begun came with the image or by a number of this stream; what is
\* registered was begun.
BegunInv ==
    /\ pc = "init" => initialized = {} /\ Items \subseteq Default \cup CloudDir
    /\ pc \in {"walk", "end"} =>
         /\ Items \subseteq initialized
         /\ \A h \in initialized : h \in Default \cup CloudDir \/ \E n \in 0..(count - 1) : modules[n] = h

Begun(s) == s # <<>> /\ s[1] = "begin" /\ \A i \in 2..Len(s) : s[i] = "part"

CallsInv ==
    \A h \in Handlers : h.lists =>
        /\ pc = "init" => calls[h] = <<>>
        /\ pc \in {"walk", "end"} =>
             IF h \in initialized /\ Runs(h) THEN Begun(calls[h]) ELSE calls[h] = <<>>

\* An unclaimed type stays with the cloud-config handler, which has merged its parts.
RegisteredInv == pc # "begin" => \A t \in CC.types : ~Claimed(t) => registered[t] = CC

MergedInv ==
    /\ pc = "init" => buf = None
    /\ pc \in {"walk", "end"} => Exact(Buffer) /\ \A j \in 1..Len(Buffer) : Buffer[j] \in 1..pos

PartHandlersInv ==
    /\ TypeOK /\ PosInv /\ ModulesInv /\ BegunInv /\ CallsInv /\ RegisteredInv /\ MergedInv
    /\ CallsInOrder /\ CloudConfigExact

=============================================================================
