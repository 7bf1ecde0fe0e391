------------------------------- MODULE Accounts -------------------------------
(***************************************************************************)
(* Who may log in: cc_users_groups creates users with their keys and locks  *)
(* their passwords, cc_ssh gives the machine its host keys and puts the      *)
(* keys of the cloud and the configuration into the files of the default    *)
(* user and, restricted, of root, cc_set_passwords sets passwords and what   *)
(* sshd makes of them.  Disks are imaged: a first boot of an instance finds  *)
(* what an earlier one left.  Commands fail, and processes are killed.      *)
(***************************************************************************)
EXTENDS Mounts

CONSTANTS Users,      \* accounts there may be, without root
          KeyTypes,   \* GENERATE_KEY_NAMES, those ssh-keygen knows
          AuthKeys,   \* authorized keys
          CloudKeys,  \* instance -> the keys of its metadata
          MaxFailures, \* files that resist and keys that fail, at most, in one run
          Image       \* the origin of what the image came with

ASSUME AccountsAssumption ==
    /\ \A i \in Instances : CloudKeys[i] \subseteq AuthKeys
    /\ \A c \in Configs \cup {System} :
         /\ "users" \in DOMAIN c => DOMAIN c.users \subseteq Users
         /\ "ssh_authorized_keys" \in DOMAIN c => c.ssh_authorized_keys \subseteq AuthKeys

VARIABLES exist,      \* users there are
          locked,     \* users whose password is locked
          expired,    \* users who must change it at login
          authorized, \* user or "root" -> key -> "open", "restricted" or "absent"
          hostKeys,   \* type -> where the private key is from: an instance, Image, or NoDevice
          hostPubs,   \* type -> the same of the public key
          pwauth,     \* PasswordAuthentication of sshd_config
          rid         \* history: <<instance whose cc_ssh was the last to remove the
                      \* keys of the image, the files that resisted>>

accounts == <<exist, locked, expired, authorized, hostKeys, hostPubs, pwauth, rid>>

AccountsInit ==
    /\ exist = {} /\ locked = {} /\ expired = {}
    /\ authorized = [u \in Users \cup {"root"} |-> [k \in AuthKeys |-> "absent"]]
    /\ hostKeys = [t \in KeyTypes |-> Image] /\ hostPubs = hostKeys
    /\ pwauth = "yes" /\ rid = <<NoDevice, {}>>

Setting(key, default) == IF Says(key) THEN cfg[key] ELSE default

\* ug_util.normalize_users_groups and extract_default: name -> its configuration, and
\* the one that is the default user, if "default" is listed.
Listed == Setting("users", <<>>)
DefaultUser == {u \in DOMAIN Listed : Listed[u].default}

----------------------------------------------------------------------------
\* Mutant: keys that are in the file already stay as they are.
WithKeys_Appended(old, keys, how) ==
    [k \in AuthKeys |-> IF k \in keys /\ old[k] = "absent" THEN how ELSE old[k]]

\* ssh_util.setup_user_keys, update_authorized_keys: a key that is there already gets
\* the new options, the others are appended; what else is there stays.
WithKeys(old, keys, how) == [k \in AuthKeys |-> IF k \in keys THEN how ELSE old[k]]

\* Distro.create_user of each of some users.  One that exists is not added, and the
\* rest is done all the same.
Created(done) ==
    /\ exist' = exist \cup done
    /\ locked' = (locked \ done) \cup
                 {u \in done : Listed[u].lock \/ (u \in locked /\ ~Listed[u].passwd)}
    /\ authorized' = [u \in DOMAIN authorized |->
                         IF u \in done THEN WithKeys(authorized[u], Listed[u].keys, "open")
                         ELSE authorized[u]]

(* cc_users_groups.handle: one user after the other, in the order of a dict; *)
(* the first that cannot be created, or locked, is the last.                *)
UsersGroups ==
    /\ \E done \in SUBSET DOMAIN Listed : Created(done)
    /\ UNCHANGED <<expired, hostKeys, hostPubs, pwauth, rid>>

\* Mutant: the pattern is that of the private keys.
StaticFiles_Private == KeyTypes \X {"key"}

\* What the pattern ssh_host_*key* matches.
StaticFiles == KeyTypes \X {"key", "pub"}

Deleted == Setting("ssh_deletekeys", "true") = "true"

(* cc_ssh.handle, down to the keys: those given, or else new ones where there *)
(* is none; a file may resist to be deleted, ssh-keygen may fail.  A private *)
(* key without its public one has it made from it.                          *)
HostKeys(resisted, ungenerated) ==
    LET gone  == IF Deleted THEN StaticFiles \ resisted ELSE {}
        key   == [t \in KeyTypes |-> IF <<t, "key">> \in gone THEN NoDevice ELSE hostKeys[t]]
        pub   == [t \in KeyTypes |-> IF <<t, "pub">> \in gone THEN NoDevice ELSE hostPubs[t]]
        given == Setting("ssh_keys", {})
        made  == {t \in KeyTypes : key[t] = NoDevice} \ ungenerated
    IN  /\ hostKeys' = [t \in KeyTypes |->
                           IF t \in (IF Says("ssh_keys") THEN given ELSE made) THEN inst ELSE key[t]]
        /\ hostPubs' = [t \in KeyTypes |->
                           IF t \in (IF Says("ssh_keys") THEN given \ ungenerated ELSE made)
                           THEN inst ELSE pub[t]]
        /\ rid' = IF Deleted THEN <<inst, resisted>> ELSE <<NoDevice, {}>>

\* cloud.get_public_ssh_keys() and ssh_authorized_keys
InstanceKeys == CloudKeys[inst] \cup Setting("ssh_authorized_keys", {})

\* apply_credentials: the default user's file, then root's, with the options of
\* disable_root or none.  A default user who does not exist is a KeyError, and root's
\* file is not come to.
Credentials ==
    IF DefaultUser \subseteq exist
    THEN authorized' =
           [u \in DOMAIN authorized |->
               IF u = "root"
               THEN WithKeys(authorized[u], InstanceKeys,
                             IF Setting("disable_root", "true") = "true" THEN "restricted" ELSE "open")
               ELSE IF u \in DefaultUser THEN WithKeys(authorized[u], InstanceKeys, "open")
               ELSE authorized[u]]
    ELSE UNCHANGED authorized

Ssh ==
    /\ \E resisted \in SUBSET (KeyTypes \X {"key", "pub"}), ungenerated \in SUBSET KeyTypes :
          /\ Cardinality(resisted) + Cardinality(ungenerated) <= MaxFailures
          /\ HostKeys(resisted, ungenerated)
    /\ Credentials
    /\ UNCHANGED <<exist, locked, expired, pwauth>>

\* plist: the users of chpasswd's list, or the default user for "password".
PasswordsOf ==
    IF Says("chpasswd") THEN cfg.chpasswd
    ELSE IF Says("password") THEN DefaultUser ELSE {}

(* cc_set_passwords.handle: chpasswd sets all or fails, and those listed are *)
(* expired in either case; then sshd's configuration.                       *)
SetPasswords ==
    /\ \E set \in BOOLEAN, unexpired \in SUBSET PasswordsOf :
          /\ set => PasswordsOf \subseteq exist
          /\ locked' = IF set THEN locked \ PasswordsOf ELSE locked
          /\ expired' = IF Setting("expire", "true") = "true"
                        THEN expired \cup ((PasswordsOf \cap exist) \ unexpired) ELSE expired
    /\ pwauth' = IF Setting("ssh_pwauth", "unchanged") = "unchanged" THEN pwauth ELSE cfg.ssh_pwauth
    /\ UNCHANGED <<exist, authorized, hostKeys, hostPubs, rid>>

(* Someone puts a key of their own into root's file.                        *)
UserAuthorizes(k) ==
    /\ authorized' = [authorized EXCEPT !["root"][k] = "open"]
    /\ UNCHANGED <<exist, locked, expired, hostKeys, hostPubs, pwauth, rid>>
=============================================================================
