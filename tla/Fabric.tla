-------------------------------- MODULE Fabric --------------------------------
(***************************************************************************)
(* DataSourceAzure and its fabric: the environment is read from the cdrom,   *)
(* which the platform ejects at a reboot, and kept without its password; the *)
(* network is bounced under the name the metadata gives; the agent - built   *)
(* in (helpers/azure.py) or a command - gets the keys, and the fabric is told *)
(* that the machine is ready.  Any command and any request may fail, and a   *)
(* stage may die at any point.                                              *)
(***************************************************************************)
EXTENDS Integers

CONSTANTS Environments, \* ovf-env.xml as [username, password, disable, keys]
          Attempts,     \* stands for the 10 of the goal state
          Naps,         \* stands for 900 seconds of half a second
          Boots

ASSUME FabricAssumption ==
    /\ Environments \subseteq [username : STRING, password : STRING, disable : STRING, keys : STRING]
    /\ Attempts \in Nat /\ Naps \in Nat /\ Boots \in Nat \ {0}

VARIABLES stage,     \* where the datasource is
          given,     \* the environment on the cdrom
          cdrom,     \* it is there
          kept,      \* ovf-env.xml in the agent's directory: none or one
          settings,  \* what was read from it
          builtin,   \* agent_command is __builtin__
          bounces,   \* set_hostname and the policy: "no", "yes" or "force"
          host,      \* the kernel's host name: "image" or the metadata's, "given"
          previous,  \* the name to be restored
          private,   \* the agent's directory with its private key exists
          waits,     \* attempts or naps so far
          incarnation, certificates, \* the fabric's goal state
          goal,      \* the goal state as it was fetched, 0 if it was not
          keys,      \* the public keys fetched for it
          ready,     \* what the fabric was told is ready, 0 if nothing was
          files,     \* the agent command wrote its files
          negotiated,\* _negotiated, which obj.pkl keeps
          tripped,   \* history: what failed: to restore the "name", to make the "key", or "nothing"
          boot

environment == <<given, cdrom, kept, settings>>
naming == <<host, previous>>
agent == <<private, waits, goal, keys>>
fabric == <<incarnation, certificates, ready>>
choice == <<builtin, bounces>>
azure == <<stage, environment, naming, agent, fabric, choice, files, negotiated, tripped, boot>>

NoSettings == [passwd |-> "", locked |-> TRUE]

----------------------------------------------------------------------------
\* The environment has an element for the password, and something in it.
Says(e) == e.password \notin {"absent", ""}

(* read_azure_ovf: a redacted password is no password, but says that there   *)
(* was one.                                                                 *)
ReadAzureOvf(e) ==
    LET passwd == IF Says(e) /\ e.password # "REDACTED" THEN e.password ELSE ""
    IN  [name |-> e.username, passwd |-> passwd, locked |-> passwd = "",
         pwauth |-> IF e.disable # "" THEN e.disable = "false" ELSE Says(e), keys |-> e.keys]

\* write_files: an element that is empty is redacted, too.
Redact(e) == [e EXCEPT !.password = IF @ = "absent" THEN @ ELSE "REDACTED"]

AzureInit ==
    /\ stage = "find" /\ given \in Environments /\ cdrom = TRUE /\ kept = {}
    /\ settings = NoSettings /\ builtin \in BOOLEAN /\ bounces \in {"no", "yes", "force"}
    /\ host \in {"image", "given"} /\ previous = ""
    /\ private = FALSE /\ waits = 0 /\ incarnation = 1 /\ certificates \in BOOLEAN
    /\ goal = 0 /\ keys = {} /\ ready = 0 /\ files = FALSE
    /\ negotiated = FALSE /\ tripped = "nothing" /\ boot = 1

(* get_data: the cdrom, or what was kept.                                    *)
Find ==
    /\ stage = "find"
    /\ \/ \E e \in IF cdrom THEN {given} ELSE kept :
            settings' = ReadAzureOvf(e) /\ kept' = {Redact(e)} /\ stage' = "setup"
       \/ ~cdrom /\ kept = {} /\ stage' = "end" /\ UNCHANGED <<settings, kept>>
    /\ UNCHANGED <<given, cdrom, naming, agent, fabric, choice, files, negotiated, tripped, boot>>

----------------------------------------------------------------------------
\* Where the network is bounced: outside the "try" for the agent that is built in.
Raises == stage' = "end" /\ negotiated' = ~builtin

Talks == IF builtin THEN "key" ELSE "agent"

\* temporary_hostname, which does not touch a name that is right already.
Untouched == bounces = "no" \/ (host = "given" /\ bounces # "force")

(* setup: once, and what follows the bounce.                                *)
Setup ==
    /\ stage = "setup"
    /\ \/ negotiated /\ stage' = "end" /\ UNCHANGED <<naming, negotiated>>
       \/ ~negotiated /\ Untouched /\ stage' = Talks /\ UNCHANGED <<naming, negotiated>>
       \/ /\ ~negotiated /\ ~Untouched
          /\ host' = "given" /\ previous' = host /\ stage' = "bouncing" /\ negotiated' = negotiated
       \/ ~negotiated /\ Raises /\ UNCHANGED naming
    /\ UNCHANGED <<environment, agent, fabric, choice, files, tripped, boot>>

\* Mutant: the name is restored only if the bounce went well.
Bounce_NoFinally ==
    /\ stage = "bouncing"
    /\ \/ host' = previous /\ stage' = Talks /\ UNCHANGED <<tripped, negotiated>>
       \/ host' = host /\ stage' = Talks /\ UNCHANGED <<tripped, negotiated>>
       \/ host' = host /\ Raises /\ tripped' = "name"
    /\ UNCHANGED <<environment, previous, agent, fabric, choice, files, boot>>

(* perform_hostname_bounce, which may fail, and the name is restored, which   *)
(* may fail too.                                                            *)
Bounce ==
    /\ stage = "bouncing"
    /\ \/ host' = previous /\ stage' = Talks /\ UNCHANGED <<tripped, negotiated>>
       \/ host' = host /\ Raises /\ tripped' = "name"
    /\ UNCHANGED <<environment, previous, agent, fabric, choice, files, boot>>

----------------------------------------------------------------------------
\* The negotiation failed: a warning, and False.
Fails == stage' = "end" /\ negotiated' = TRUE

(* OpenSSLManager: a directory, a key and a certificate in it; a manager     *)
(* whose certificate fails is not assigned, and is not cleaned up.           *)
MakeKey ==
    /\ stage = "key" /\ private' = TRUE /\ waits' = 0 /\ goal' = 0 /\ keys' = {}
    /\ \/ stage' = "goal" /\ UNCHANGED <<negotiated, tripped>>
       \/ Fails /\ tripped' = "key"
    /\ UNCHANGED <<environment, naming, fabric, choice, files, boot>>

\* register_with_azure_and_fetch_data is left by an exception, or done.
CleanUp == private' = FALSE /\ Fails

(* The goal state, of an endpoint that has to be found in a lease: an attempt *)
(* fails, a while later there is another.                                   *)
FetchGoal ==
    /\ stage = "goal"
    /\ \/ goal' = incarnation /\ stage' = "certs" /\ UNCHANGED <<private, waits, negotiated>>
       \/ waits < Attempts /\ waits' = waits + 1 /\ UNCHANGED <<stage, goal, private, negotiated>>
       \/ waits = Attempts /\ CleanUp /\ UNCHANGED <<goal, waits>>
    /\ UNCHANGED <<environment, naming, keys, fabric, choice, files, tripped, boot>>

\* Mutant: it is told before the keys are there.
FetchKeys_Later ==
    /\ stage = "certs"
    /\ stage' = "report" /\ UNCHANGED <<private, negotiated>> /\ keys' \in {keys, {goal}}
    /\ UNCHANGED <<environment, naming, waits, goal, fabric, choice, files, tripped, boot>>

(* The certificates, if the goal state has any, decrypted by the key.        *)
FetchKeys ==
    /\ stage = "certs"
    /\ \/ keys' = (IF certificates THEN {goal} ELSE {}) /\ stage' = "report" /\ UNCHANGED <<private, negotiated>>
       \/ certificates /\ CleanUp /\ keys' = keys
    /\ UNCHANGED <<environment, naming, waits, goal, fabric, choice, files, tripped, boot>>

(* _report_ready: of a post that raises the fabric may have heard or not.     *)
ReportReady ==
    /\ stage = "report" /\ CleanUp
    /\ ready' \in {ready, goal}
    /\ UNCHANGED <<environment, naming, waits, goal, keys, incarnation, certificates, choice, files, tripped, boot>>

----------------------------------------------------------------------------
(* get_metadata_from_agent: a command, and its files.                        *)
InvokeAgent ==
    /\ stage = "agent" /\ stage' = "files" /\ waits' = 0 /\ keys' = {}
    /\ files' \in {files, TRUE}
    /\ UNCHANGED <<environment, naming, private, goal, fabric, choice, negotiated, tripped, boot>>

\* A key that has its value needs no file.
WaitForFiles ==
    /\ stage = "files"
    /\ \/ /\ settings.keys = "fingerprint" /\ ~files /\ waits < Naps
          /\ waits' = waits + 1 /\ UNCHANGED <<stage, keys, negotiated>>
       \/ /\ settings.keys # "fingerprint" \/ files \/ waits = Naps
          /\ keys' = (IF settings.keys = "value" \/ files THEN {settings.keys} ELSE {})
          /\ Fails /\ UNCHANGED waits
    /\ files' \in {files, TRUE}
    /\ UNCHANGED <<environment, naming, private, goal, fabric, choice, tripped, boot>>

\* The fabric has a new goal.
NewGoal ==
    /\ stage \notin {"end", "find"} /\ incarnation < 2 /\ incarnation' = incarnation + 1
    /\ UNCHANGED <<stage, environment, naming, agent, certificates, ready, choice, files, negotiated, tripped, boot>>

(* The end of the boot, or of its stage: what is below /run goes, the name is *)
(* the image's, the cdrom is ejected; obj.pkl was written by a stage that     *)
(* ended, and may be trusted or not.                                        *)
NextBoot ==
    /\ boot < Boots /\ boot' = boot + 1 /\ stage' = "find"
    /\ cdrom' = FALSE /\ host' \in {"image", "given"} /\ previous' = "" /\ private' = FALSE
    /\ negotiated' \in (IF stage = "end" THEN {FALSE, negotiated} ELSE {FALSE})
    /\ tripped' = "nothing" /\ UNCHANGED <<given, kept, settings, waits, goal, keys, fabric, choice, files>>

AzureStep ==
    \/ Find \/ Setup \/ Bounce \/ MakeKey \/ FetchGoal \/ FetchKeys \/ ReportReady
    \/ InvokeAgent \/ WaitForFiles

----------------------------------------------------------------------------
\* A password is not kept on the disk; without the cdrom everything else is as it was,
\* whatever became of the boot that had it - but for an empty password, which is taken
\* for one that was redacted, and lets passwords in over ssh.
RestIsKept ==
    /\ \A e \in kept : e.password \in {"absent", "REDACTED"}
    /\ stage # "find" /\ settings # NoSettings =>
          LET first == ReadAzureOvf(given)
          IN  /\ settings.name = first.name /\ settings.keys = first.keys
              /\ settings.passwd = IF cdrom THEN first.passwd ELSE ""
              /\ settings.locked <=> first.locked \/ ~cdrom
              /\ settings.pwauth <=>
                    first.pwauth \/ (~cdrom /\ given.password = "" /\ given.disable = "")

\* The fabric is not told that a machine is ready for a goal before the keys of that
\* goal are there - also when the goal moves on, and an answer is lost.
ReadyHasKeys == stage = "report" /\ certificates => goal \in keys

\* The manager was not made: the shim has none to clean up.
KeyNotMade == tripped = "key"

\* The name under which the network was bounced is gone when the stage goes on, unless the
\* command that restores it failed; and the directory of the private key goes with the
\* agent, unless its manager was not made: then what there is of it stays.
NameIsRestored ==
    /\ stage \notin {"find", "setup", "bouncing"} /\ previous # "" => host = previous \/ tripped = "name"
    /\ stage \in {"end", "files"} => ~private \/ KeyNotMade

\* What makes the three inductive: what is kept is the environment on the cdrom but for
\* its password, and what is left to restore or to remove says where the stage is.
KeptInv ==
    /\ (\A e \in kept : e = Redact(given)) /\ (kept = {} => settings = NoSettings)
    /\ (stage = "end" /\ boot = Boots /\ kept = {}) \/ given \in Environments
NameInv ==
    /\ stage \in {"find", "setup"} => previous = ""
    /\ stage \in {"find", "setup", "bouncing", "key", "agent"} => ~private
    /\ stage # "end" => tripped = "nothing"
FabricInv == boot \in Nat /\ KeptInv /\ RestIsKept /\ ReadyHasKeys /\ NameInv /\ NameIsRestored
=============================================================================
