------------------------------ MODULE Configure ------------------------------
(***************************************************************************)
(* One config module on one machine, over the instances its image is.       *)
(* Modules._run_modules calls the handler; what it does is a sequence of    *)
(* effects (AptConfig, Packaging, Agents), carried out one by one, of which  *)
(* each command may fail, and the process may be killed between any two.    *)
(* A module runs once for an instance; cloud-init single runs it again.     *)
(***************************************************************************)
EXTENDS AptConfig, Packaging, Agents

CONSTANTS Images,   \* module -> the files its machine may have before
          Configs,  \* module -> what its configuration may be
          Facts,    \* module -> what does not change on its machines
          MaxRuns   \* bound: runs of the module

VARIABLES module,   \* the module, or "none"
          asked,    \* the configuration of the instance
          files,    \* the files there are
          left,     \* the effects to come
          at,       \* "new": an instance that was not configured; "run"; "done"; "failed"; "killed"
          clean,   \* nothing failed in this run, and errors that are raised at its end
          found,    \* the files as this run found them
          runs,     \* runs so far
          again     \* this run is of a configuration that was done before

confVars == <<module, asked, files, left, at, clean, found, runs, again>>

(* By the module and its configuration.                                      *)
Effects(m, c, f) ==
    CASE m = "apt" -> AptEffects(c, Facts[m], f)
      [] m = "yum" -> YumEffects(c, f)
      [] m = "zypper" -> ZypperEffects(c, f)
      [] m = "ca_certs" -> CaEffects(c, f)
      [] m = "upgrade" -> UpgradeEffects(c)
      [] m = "snappy" -> SnappyEffects(c, Facts[m], f)
      [] m = "lxd" -> LxdEffects(c, Facts[m])
      [] m = "chef" -> ChefEffects(c, Facts[m], f)
      [] m = "puppet" -> PuppetEffects(c)
      [] m = "mcollective" -> McoEffects
      [] m = "landscape" -> LandscapeEffects(c)
      [] m = "ntp" -> NtpEffects(c, Facts[m], f)
      [] m = "rsyslog" -> SyslogEffects(c)
      [] m = "write_files" -> WriteFilesEffects(c, Facts[m])
      [] m = "resolv_conf" -> ResolvEffects(c, Facts[m])
      [] m = "seed_random" -> SeedEffects(c, Facts[m])

Rest(m, c, f) ==
    CASE m = "upgrade" -> UpgradeRest(c, f)
      [] m = "lxd" -> LxdRest(c, Facts[m], f)
      [] m = "puppet" -> PuppetRest(c, Facts[m], f)
      [] m = "mcollective" -> McoRest(c, f)
      [] m = "landscape" -> LandscapeRest(c, f)

InEffect(m, c, f0, f) ==
    CASE m = "apt" -> AptInEffect(c, Facts[m], f)
      [] m = "yum" -> YumInEffect(c, f0, f)
      [] m = "zypper" -> ZypperInEffect(c, f0, f)
      [] m = "ca_certs" -> CaInEffect(c, f0, f)
      [] m = "upgrade" -> UpgradeInEffect(c, f)
      [] m = "snappy" -> SnappyInEffect(c, Facts[m], f0, f)
      [] m = "lxd" -> LxdInEffect(c, Facts[m], f)
      [] m = "chef" -> ChefInEffect(c, Facts[m], f0, f)
      [] m = "puppet" -> PuppetInEffect(c, Facts[m], f0, f)
      [] m = "mcollective" -> McoInEffect(c, f0, f)
      [] m = "landscape" -> LandscapeInEffect(c, f0, f)
      [] m = "ntp" -> NtpInEffect(c, Facts[m], f)
      [] m = "rsyslog" -> SyslogInEffect(c, f)
      [] m = "write_files" -> WriteFilesInEffect(c, f)
      [] m = "resolv_conf" -> ResolvInEffect(c, Facts[m], f)
      [] m = "seed_random" -> SeedInEffect(c, Facts[m], f)

ConfInit ==
    /\ module \in DOMAIN Configs /\ files \in Images[module] /\ asked \in Configs[module]
    /\ left = <<>> /\ at = "new" /\ clean = TRUE /\ found = files /\ runs = 0 /\ again = FALSE

(* The section calls the module, for a new instance or because it is asked  *)
(* to run once more.                                                        *)
Handle ==
    /\ at # "run" /\ runs < MaxRuns
    /\ left' = Effects(module, asked, files) /\ at' = "run" /\ found' = files /\ runs' = runs + 1 /\ clean' = TRUE
    /\ again' = (at = "done" /\ clean)
    /\ UNCHANGED <<module, asked, files>>

(* The image becomes another instance, with a configuration of its own.     *)
AnotherInstance ==
    /\ at \in {"done", "failed", "killed"} /\ runs < MaxRuns
    /\ asked' \in Configs[module] /\ at' = "new"
    /\ UNCHANGED <<module, files, left, clean, found, runs, again>>

Running(op) == at = "run" /\ left # <<>> /\ (Head(left).op = op)
Continue == left' = Tail(left) /\ UNCHANGED <<module, asked, at, found, runs, again>>
End(how) == at' = how /\ left' = <<>> /\ UNCHANGED <<module, asked, found, runs, again>>

Succeeds ==
    /\ at = "run" /\ left # <<>> /\ Head(left).op \notin {"raise", "resume"}
    /\ files' = Applied(files, Head(left)) /\ Continue /\ UNCHANGED clean

Reads ==
    /\ Running("resume")
    /\ left' = Rest(module, asked, files) \o Tail(left) /\ UNCHANGED <<module, asked, files, at, clean, found, runs, again>>

Raises == Running("raise") /\ End("failed") /\ clean' = FALSE /\ UNCHANGED files

(* A command fails: the module dies of it, stops, or goes on and says so now *)
(* or when it is done.                                                      *)
CommandFails ==
    /\ at = "run" /\ left # <<>> /\ clean' = FALSE /\ UNCHANGED files
    /\ \/ Head(left).fails = "raise" /\ End("failed")
       \/ Head(left).fails = "stop" /\ End("done")
       \/ Head(left).fails \in {"log", "collect"} /\ Continue

HandlerReturns == at = "run" /\ left = <<>> /\ End("done") /\ UNCHANGED <<files, clean>>

HandlerKilled == at = "run" /\ End("killed") /\ clean' = FALSE /\ UNCHANGED files

(* Bound: after the last run the machine stays as it is.                    *)
Stays == runs = MaxRuns /\ at # "run" /\ UNCHANGED confVars

ConfNext == Handle \/ AnotherInstance \/ Succeeds \/ Reads \/ Raises \/ CommandFails \/ HandlerReturns \/ HandlerKilled \/ Stays
ConfSpec == ConfInit /\ [][ConfNext]_confVars

----------------------------------------------------------------------------
Complete == at = "done" /\ clean

\* What a configuration asks is in effect when its module has run without a
\* failure, whatever the image had, an earlier instance asked for, or a run
\* that failed or was killed left behind.  Where the code does otherwise than
\* its documentation says, what it does is named and excepted: the old keys of
\* two proxies of apt (Exchanged), certificates after the defaults were removed
\* (EndsEarly), chef that is not run (ChefIsLeft), the certificate below a
\* section of puppet (TakenForSetting), ssh that is "auto" on snappy.  As the
\* handlers mean it, a repository of yum or zypper that has a file keeps it,
\* zypper without repositories does nothing, of entries of apt's first format
\* for one file the last is kept, and what is remembered by debconf stays.
TakesEffect == Complete => InEffect(module, asked, found, files)

\* Modules that add lines to a file each time, and copies of what was there.
Appends == {"apt", "zypper", "seed_random"}
Backups == {PuppetOld, <<"ntp.conf", "dist">>, <<"server.cfg", "old">>}

\* Chef that ran by default after its gem was installed does not in the next
\* run, so that the key is written again and not deleted.
ComesBack == IF module = "chef" /\ OnlyByDefault(asked) THEN {ChefPem} ELSE {}

\* A module that is run again, as cloud-init single does, by the configuration
\* it was done with, leaves the machine as it is.  Excepted are modules that add
\* lines to a file each time (Appends), the copies of the original files, which
\* puppet, ntp and mcollective replace by copies of their own (Backups), and the
\* key of a chef that ran by default (ComesBack).
AgainIsTheSame ==
    Complete /\ again /\ module \notin Appends => \A p \in (DOMAIN files \cup DOMAIN found) \ (Backups \cup ComesBack) :
        p \in DOMAIN files \cap DOMAIN found /\ files[p] = found[p]
=============================================================================
