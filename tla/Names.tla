-------------------------------- MODULE Names --------------------------------
(***************************************************************************)
(* The host name: set once for an instance (cc_set_hostname), looked after  *)
(* in every boot (cc_update_hostname) by means of a file with the name that *)
(* was written last, which all instances of an image share; and its entry   *)
(* in /etc/hosts (cc_update_etc_hosts).  A user may change either.  Debian's *)
(* files; the name is the short one.                                       *)
(***************************************************************************)
EXTENDS Consumption, Sequences, SequencesExt

CONSTANTS ShortOf,    \* the name before the first dot, of each name
          Dotted,     \* names with a dot
          CloudName,  \* instance -> [short, fqdn] of its metadata
          UserNames,  \* names users may choose
          NoName

\* No cloud and no configuration gives a name that users choose.
ASSUME NamesAssumption ==
    /\ NoName \notin UserNames /\ \A i \in Instances : CloudName[i].short \notin UserNames
    /\ \A c \in Configs \cup {System} :
         /\ "fqdn" \in DOMAIN c => ShortOf[c.fqdn] \notin UserNames
         /\ "hostname" \in DOMAIN c => {c.hostname, ShortOf[c.hostname]} \cap UserNames = {}

VARIABLES sysName,    \* /etc/hostname
          prevName,   \* data/previous-hostname
          kernelName, \* what hostname(1) says
          hosts,      \* the entries of 127.0.1.1 in /etc/hosts: <<canonical, alias>>
          chosen      \* history: the user's choice for this instance, or NoName

names == <<sysName, prevName, kernelName, hosts, chosen>>

NamesInit ==
    /\ sysName = NoName /\ prevName = NoName /\ kernelName = NoName
    /\ hosts = <<>> /\ chosen = NoName

Says(key) == key \in DOMAIN cfg
True(key) == Says(key) /\ cfg[key] = "true"

----------------------------------------------------------------------------
\* util.get_hostname_fqdn
Fqdn ==
    IF Says("fqdn") THEN cfg.fqdn
    ELSE IF Says("hostname") /\ cfg.hostname \in Dotted THEN cfg.hostname
    ELSE CloudName[inst].fqdn

Hostname ==
    IF Says("fqdn") THEN (IF Says("hostname") THEN cfg.hostname ELSE ShortOf[cfg.fqdn])
    ELSE IF Says("hostname") THEN ShortOf[cfg.hostname]
    ELSE CloudName[inst].short

(* cc_set_hostname, and Distro.set_hostname: the file, then the kernel.     *)
SetHostname ==
    IF True("preserve_hostname") THEN UNCHANGED names
    ELSE /\ sysName' = Hostname
         /\ kernelName' \in {Hostname, kernelName}
         /\ chosen' = NoName
         /\ UNCHANGED <<prevName, hosts>>

\* The name of the system is neither absent nor the one that was written last.
UserMaintained == sysName # NoName /\ prevName # NoName /\ sysName # prevName

\* Mutant: the name is put right, whoever gave the machine another.
FilesToWrite_WhoeverWrote ==
    (IF prevName # Hostname THEN {"previous"} ELSE {})
    \cup (IF sysName # Hostname THEN {"system"} ELSE {})

\* update_files, unless the early return keeps them all.
FilesToWrite ==
    IF UserMaintained THEN {}
    ELSE (IF prevName # Hostname THEN {"previous"} ELSE {})
         \cup (IF sysName = NoName \/ (sysName = prevName /\ sysName # Hostname)
               THEN {"system"} ELSE {})

(* cc_update_hostname and Distro.update_hostname: a set of files, of which a *)
(* write may fail (a warning), or the process be killed before it.          *)
UpdateHostname ==
    IF True("preserve_hostname") THEN UNCHANGED names
    ELSE \E written \in SUBSET FilesToWrite :
           /\ prevName' = IF "previous" \in written THEN Hostname ELSE prevName
           /\ sysName' = IF "system" \in written THEN Hostname ELSE sysName
           /\ kernelName' \in IF "system" \in FilesToWrite THEN {Hostname, kernelName}
                             ELSE {kernelName}
           /\ UNCHANGED <<hosts, chosen>>

\* Distro.update_etc_hosts: is there an entry with this canonical name and alias?
HostsEntry(e) == e \in Range(hosts)

(* cc_update_etc_hosts, of localhost or from the template of the distro,     *)
(* which has the one entry.                                                 *)
UpdateEtcHosts ==
    LET entry == <<Fqdn, Hostname>>
    IN  /\ hosts' =
             IF ~Says("manage_etc_hosts") THEN hosts
             ELSE IF cfg.manage_etc_hosts = "template" THEN <<entry>>
             ELSE IF HostsEntry(entry) THEN hosts ELSE Append(hosts, entry)
        /\ UNCHANGED <<sysName, prevName, kernelName, chosen>>

(* The user writes /etc/hostname.                                           *)
UserRenames(n) ==
    /\ sysName' = n /\ chosen' = n
    /\ UNCHANGED <<prevName, kernelName, hosts>>

----------------------------------------------------------------------------
\* A name that the user gave the machine is not taken back by update_hostname in any
\* later boot of the instance, whether or not the file it tells it by was written.
UserNameKept == [][chosen # NoName /\ chosen' = chosen => sysName' = sysName]_<<cvars, names>>
=============================================================================
