------------------------------ MODULE Metadata ------------------------------
(***************************************************************************)
(* DataSourceEc2Local.get_data: in a stage without network the datasource   *)
(* asks for a lease (net/dhcp.py), configures the interface for as long as  *)
(* it takes (EphemeralIPv4Network of net/__init__.py), waits for one of     *)
(* several urls to answer (wait_for_url of url_helper.py), reads the        *)
(* metadata with retries (readurl) and takes the interface down again.      *)
(* Any command may fail; time passes while a request is out and in sleeps. *)
(***************************************************************************)
EXTENDS Integers, Sequences

CONSTANTS Urls,      \* the sequence of urls to try
          MaxWaits,  \* values of max_wait
          Timeout,   \* the seconds a request may take: the configured timeout
          Readies,   \* times at which a service may come up
          Slownesses,\* times a service may take to answer
          Tries      \* attempts of readurl

ASSUME MetadataAssumption ==
    /\ MaxWaits \subseteq Int /\ Timeout \in Nat
    /\ Readies \subseteq Nat /\ Slownesses \subseteq Nat /\ Tries \in Nat \ {0}
    /\ Urls \in Seq(STRING) /\ Urls # <<>>

VARIABLES pc,       \* where get_data is
          nic,      \* the interface: link up, the leased address on it, default route
          before,   \* history: nic when get_data began
          cleanup,  \* EphemeralIPv4Network.cleanup_cmds
          failed,   \* history: what raised: "nothing", getting a "lease", the "entry"
                    \* into the network, or an "undo" on the way out of it
          result,   \* what get_data returns, if it does
          now,      \* seconds since wait_for_url was called
          maxwait, timeout, \* its arguments, the second as it is cut
          loop, at, \* its loop counter, the url to try next
          tries,    \* attempts of readurl
          service   \* per url: when it is up, how slow it is, what it does before

net == <<nic, before, cleanup>>
wait == <<now, maxwait, timeout, loop, at>>
vars == <<pc, net, failed, result, wait, tries, service>>

Asked == 1..Len(Urls)
Never == 99
Max2(a, b) == IF a > b THEN a ELSE b

Nics == [up : BOOLEAN, address : BOOLEAN, route : BOOLEAN]
NicTypes ==
    /\ pc \in {"dhcp", "address", "link", "route", "wait", "try", "read", "exit", "done", "hangs"}
    /\ nic \in Nics /\ before \in Nics
    /\ cleanup \in {<<>>, <<"route del">>, <<"addr del">>, <<"link down", "addr del">>,
                    <<"route del", "link down", "addr del">>}
    /\ failed \in {"nothing", "lease", "entry", "undo"} /\ result \in {"none", "found", "not found", "raised"}
TimeTypes ==
    /\ now \in Nat /\ maxwait \in MaxWaits /\ timeout \in 0..Timeout
    /\ loop \in Nat /\ at \in 1..(Len(Urls) + 1) /\ tries \in 0..Tries
ServiceTypes ==
    service \in [Asked -> [ready : Readies \cup {Never}, slow : Slownesses, drops : BOOLEAN]]
TypeOK == NicTypes /\ TimeTypes /\ ServiceTypes

Init ==
    /\ pc = "dhcp" /\ cleanup = <<>> /\ failed = "nothing" /\ result = "none"
    /\ nic \in Nics /\ before = nic
    /\ nic.route => nic.up /\ nic.address
    /\ now = 0 /\ loop = 0 /\ at = 1 /\ tries = 0
    /\ maxwait \in MaxWaits /\ timeout = Timeout
    /\ service \in [Asked -> [ready : Readies \cup {Never}, slow : Slownesses, drops : BOOLEAN]]

----------------------------------------------------------------------------
(* maybe_perform_dhcp_discovery: the link is raised for dhclient.  Without  *)
(* an interface, a client or a lease there is nothing to do.                *)
Dhcp ==
    /\ pc = "dhcp"
    /\ \/ nic' = nic /\ pc' = "done" /\ result' = "not found" /\ failed' = failed
       \/ \E up \in {nic.up, TRUE} :
            nic' = [nic EXCEPT !.up = up] /\ pc' = "done" /\ result' = "raised" /\ failed' = "lease"
       \/ nic' = [nic EXCEPT !.up = TRUE] /\ pc' = "address" /\ UNCHANGED <<result, failed>>
    /\ UNCHANGED <<before, cleanup, wait, tries, service>>

\* __enter__ raises: the "with" body is not run, nor is __exit__.
EnterFails ==
    /\ pc \in {"address", "link", "route"}
    /\ pc' = "done" /\ result' = "raised" /\ failed' = "entry"
    /\ UNCHANGED <<net, wait, tries, service>>

\* The lease names a router, or it does not.
Router == {"route", "wait"}

(* _bringup_device: an address that exists is not ours to clean up.         *)
AddAddress ==
    /\ pc = "address"
    /\ pc' \in IF nic.address THEN Router ELSE {"link"}
    /\ nic' = [nic EXCEPT !.address = TRUE]
    /\ UNCHANGED <<before, cleanup, failed, result, wait, tries, service>>

LinkUp ==
    /\ pc = "link"
    /\ pc' \in Router /\ nic' = [nic EXCEPT !.up = TRUE]
    /\ cleanup' = <<"link down", "addr del">>
    /\ UNCHANGED <<before, failed, result, wait, tries, service>>

(* _bringup_router, unless there is a default route.                        *)
AddRoute ==
    /\ pc = "route"
    /\ pc' = "wait"
    /\ nic' = [nic EXCEPT !.route = TRUE]
    /\ cleanup' = IF nic.route THEN cleanup ELSE <<"route del">> \o cleanup
    /\ UNCHANGED <<before, failed, result, wait, tries, service>>

\* The kernel drops the routes of a link that goes down.
Undo(cmd) ==
    CASE cmd = "route del" -> [nic EXCEPT !.route = FALSE]
      [] cmd = "link down" -> [nic EXCEPT !.up = FALSE, !.route = FALSE]
      [] cmd = "addr del" -> [nic EXCEPT !.address = FALSE]

(* __exit__ runs the commands one after the other, until one raises.        *)
Exit ==
    /\ pc = "exit"
    /\ \/ /\ cleanup = <<>>
          /\ pc' = "done" /\ UNCHANGED <<nic, cleanup, failed, result>>
       \/ /\ cleanup # <<>> /\ (Head(cleanup) = "route del" => nic.route)
          /\ nic' = Undo(Head(cleanup)) /\ cleanup' = Tail(cleanup)
          /\ UNCHANGED <<pc, failed, result>>
       \/ /\ cleanup # <<>> /\ pc' = "done" /\ result' = "raised" /\ UNCHANGED <<nic, cleanup>>
          /\ failed' = IF Head(cleanup) = "route del" /\ ~nic.route THEN failed ELSE "undo"
    /\ UNCHANGED <<before, wait, tries, service>>

----------------------------------------------------------------------------
Timeup == maxwait <= 0 \/ now > maxwait

GiveUp == pc' = "exit" /\ result' = "not found"

\* wait_for_metadata_service calls wait_for_url.
Waiting == pc = "wait" /\ maxwait > 0

(* wait_for_metadata_service does not wait at all.                          *)
NoWait ==
    /\ pc = "wait" /\ maxwait <= 0 /\ GiveUp
    /\ UNCHANGED <<net, failed, wait, tries, service>>

\* Mutant: the time is up before the first pass is over.
NextUrl_TimeupFirst ==
    /\ Waiting /\ at <= Len(Urls)
    /\ \/ Timeup /\ at' = Len(Urls) + 1 /\ UNCHANGED <<pc, timeout>>
       \/ ~Timeup /\ pc' = "try" /\ at' = at /\ timeout' = timeout
    /\ UNCHANGED <<net, failed, result, now, maxwait, loop, tries, service>>

(* The head of the inner loop.  The first pass tries every url; later ones  *)
(* stop when the time is up, and cut the timeout to what is left: for all   *)
(* urls to come, and perhaps to 0.                                          *)
NextUrl ==
    /\ Waiting /\ at <= Len(Urls)
    /\ \/ loop # 0 /\ Timeup /\ at' = Len(Urls) + 1 /\ UNCHANGED <<pc, timeout>>
       \/ /\ loop = 0 \/ ~Timeup
          /\ pc' = "try" /\ at' = at
          /\ timeout' = IF loop # 0 /\ timeout # 0 /\ now + timeout > maxwait
                        THEN maxwait - now ELSE timeout
    /\ UNCHANGED <<net, failed, result, now, maxwait, loop, tries, service>>

\* requests refuses a timeout of 0; a service that is not up refuses connections,
\* or lets them time out, as one does that is too slow.
Answers(u) == now >= service[u].ready /\ service[u].slow < timeout
TimeTaken(u) ==
    CASE timeout = 0 -> 0
      [] timeout > 0 /\ now < service[u].ready -> IF service[u].drops THEN timeout ELSE 0
      [] OTHER -> IF Answers(u) THEN service[u].slow ELSE timeout

\* Mutant: a url that fails at once is tried again.
TryUrl_Again ==
    /\ pc = "try"
    /\ now' = now + TimeTaken(at)
    /\ IF Answers(at) THEN pc' = "read" /\ at' = at
       ELSE pc' = "wait" /\ at' = IF TimeTaken(at) = 0 THEN at ELSE at + 1
    /\ UNCHANGED <<net, failed, result, maxwait, timeout, loop, tries, service>>

(* readurl without retries.                                                 *)
TryUrl ==
    /\ pc = "try"
    /\ now' = now + TimeTaken(at)
    /\ IF Answers(at) THEN pc' = "read" /\ at' = at ELSE pc' = "wait" /\ at' = at + 1
    /\ UNCHANGED <<net, failed, result, maxwait, timeout, loop, tries, service>>

(* The end of a pass.                                                       *)
Sleep ==
    /\ Waiting /\ at > Len(Urls)
    /\ \/ Timeup /\ GiveUp /\ UNCHANGED <<now, loop, at>>
       \/ ~Timeup /\ now' = now + (loop \div 5) + 1 /\ loop' = loop + 1 /\ at' = 1 /\ UNCHANGED <<pc, result>>
    /\ UNCHANGED <<net, failed, maxwait, timeout, tries, service>>

(* _crawl_metadata reads from the url that answered, by readurl with        *)
(* retries; a failure is not raised further, an exception_cb may cut it     *)
(* short.                                                                   *)
Read ==
    /\ pc = "read"
    /\ tries' = tries + 1
    /\ \/ pc' = "exit" /\ result' = "found"
       \/ tries + 1 < Tries /\ pc' = pc /\ result' = result
       \/ GiveUp
    /\ UNCHANGED <<net, failed, wait, service>>

(* get_metadata_api_version asks first, without a timeout: it may wait for  *)
(* an answer for ever, and the network is never left.                       *)
VersionHangs ==
    /\ pc = "read" /\ tries = 0 /\ pc' = "hangs"
    /\ UNCHANGED <<net, failed, result, wait, tries, service>>

Step ==
    \/ Dhcp \/ EnterFails \/ AddAddress \/ LinkUp \/ AddRoute \/ Exit
    \/ NoWait \/ NextUrl \/ TryUrl \/ Sleep \/ Read \/ VersionHangs

----------------------------------------------------------------------------
\* A network that could not be entered is not left: __exit__ is not run, and the address
\* of the lease stays if it was the link or the route that failed.
NotEntered == failed = "entry"

\* What an undoing command that failed, and those after it, would have undone.
StillToUndo(cmd) == failed = "undo" /\ \E k \in DOMAIN cleanup : cleanup[k] = cmd

\* "Upon context exit, clean up the interface leaving no configuration behind": when
\* get_data is over, by a result or an exception, the interface has the address it had -
\* unless the network was not entered, or the command that takes it away is among those
\* not run or failed - and the routes it had, but for the latter.  The result is replaced
\* by an exception only if a command failed.
NothingLeftBehind ==
    pc = "done" =>
        /\ result = "raised" => failed # "nothing"
        /\ nic.address = before.address \/ NotEntered \/ StillToUndo("addr del")
        /\ nic.route = before.route \/ StillToUndo("route del")

\* The wait is over when the time is up or every url was tried once, plus a sleep.
Longest == Len(Urls) * Timeout
GivesUpInTime ==
    pc = "exit" /\ result = "not found" /\ tries = 0 =>
        now <= Max2(Longest, maxwait) + (loop \div 5) + 1

\* Where get_data waits at all, a service that answers within the timeout is found, if
\* it is up at once - however short max_wait - or a pass, a sleep and a timeout before
\* the end - though the timeout is cut for good.
ServiceIsFound ==
    pc = "exit" /\ result = "not found" /\ tries = 0 /\ maxwait > 0 =>
        \A u \in Asked :
            \/ service[u].slow >= Timeout
            \/ service[u].ready > 0 /\ service[u].ready + Longest + Timeout + (loop \div 5) + 1 > maxwait


(* What makes the three inductive.                                         *)

\* What is left to clean up is the difference between the interface and what it was, also
\* when an undoing command failed; between an address and its link there is none yet.
Same == nic.address = before.address /\ nic.route = before.route
Fresh == ~before.address /\ ~before.route
LeaseInv ==
    /\ before.route => before.address
    /\ failed # "nothing" => pc = "done"
    /\ failed = "lease" => Same
    /\ failed = "entry" => nic.route = before.route
    /\ failed = "nothing" =>
        /\ result # "raised"
        /\ pc \in {"dhcp", "address", "link", "done"} => cleanup = <<>>
        /\ pc = "route" => cleanup \in {<<>>, <<"link down", "addr del">>}
    /\ failed \in {"nothing", "undo"} =>
           IF pc = "link" THEN Fresh /\ ~nic.route
           ELSE \/ cleanup = <<>> /\ Same
                \/ cleanup = <<"route del">> /\ nic.route /\ ~before.route /\ nic.address = before.address
                \/ cleanup \in {<<"addr del">>, <<"link down", "addr del">>} /\ Fresh /\ ~nic.route
                \/ cleanup = <<"route del", "link down", "addr del">> /\ Fresh /\ nic.route

\* Where the first pass is, no more than a timeout was spent on each url; later ones
\* begin in time, and a request of theirs ends in time.
TimeInv ==
    /\ pc \in {"dhcp", "address", "link", "route"} => now = 0 /\ loop = 0 /\ at = 1 /\ tries = 0 /\ timeout = Timeout
    /\ pc \in {"wait", "try"} => tries = 0
    /\ pc = "read" => tries < Tries
    /\ pc = "try" => maxwait > 0 /\ at <= Len(Urls)
    /\ pc \in {"wait", "try"} /\ loop = 0 => timeout = Timeout /\ now <= (at - 1) * Timeout
    /\ pc = "wait" /\ loop > 0 => now <= Max2(Longest, maxwait) + (loop \div 5) + 1
    /\ pc = "try" /\ loop > 0 => now + timeout <= maxwait \/ (now <= maxwait /\ timeout = 0)

\* A service that answers in time was not up when it was asked last with the whole
\* timeout: that is so long ago, or so late that it does not matter any more.
TooLate(u) ==
    service[u].ready > 0 /\ service[u].ready + Longest + Timeout + (loop \div 5) + 1 > maxwait
Late(u) ==
    \/ service[u].slow >= Timeout
    \/ TooLate(u)
    \/ timeout = Timeout /\ loop = 0 /\ at <= u
    \/ timeout = Timeout /\ u < at /\ service[u].ready > Max2(0, now - (at - u) * Timeout)
    \/ /\ timeout = Timeout /\ loop > 0 /\ at <= u
       /\ service[u].ready > Max2(0, now - (Len(Urls) + at - u) * Timeout - ((loop - 1) \div 5) - 1)
LateInv == pc \in {"wait", "try"} /\ maxwait > 0 => \A u \in Asked : Late(u)

MetadataInv ==
    TypeOK /\ LeaseInv /\ TimeInv /\ LateInv /\ GivesUpInTime /\ ServiceIsFound
=============================================================================
