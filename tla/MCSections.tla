----------------------------- MODULE MCSections -----------------------------
(***************************************************************************)
(* Sections for TLC: a module for every frequency, one listed under two    *)
(* names that are one semaphore, one that is missing, one for another      *)
(* distro, and the migrator and power-state-change at their places.        *)
(***************************************************************************)
EXTENDS Sections

E(n, f) == [name |-> n, freq |-> f]

ThreeStages == <<"init", "config", "final">>
Lists ==
    [init   |-> <<E("migrator", "unset"), E("disk-setup", "unset")>>,
     config |-> <<E("disk_setup", "bogus"), E("missing", "unset"), E("snappy", "unset"),
                  E("apt", "once")>>,
     final  |-> <<E("power-state-change", "unset"), E("apt", "always")>>]
OneSingle == {E("snappy", "once")}
SemNames ==
    ("migrator" :> "config_migrator") @@ ("disk-setup" :> "config_disk_setup") @@
    ("disk_setup" :> "config_disk_setup") @@ ("missing" :> "config_missing") @@
    ("snappy" :> "config_snappy") @@ ("apt" :> "config_apt") @@
    ("power-state-change" :> "config_power_state_change")
KnownNames == DOMAIN SemNames \ {"missing"}
ModuleFreqs == [n \in KnownNames |-> IF n = "migrator" THEN "always"
                                     ELSE IF n = "snappy" THEN "never heard of" ELSE "instance"]
VerifiedNames == KnownNames \ {"snappy"}
AllJobs == {SemNames[n] : n \in KnownNames}
=============================================================================
