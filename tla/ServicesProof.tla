---------------------------- MODULE ServicesProof ----------------------------
(***************************************************************************)
(* What TLAPS proves of a machine and the services that describe it, for     *)
(* any urls and timeout, any services and any environments: nothing of the  *)
(* wait or the negotiation stays behind unless a command failed; the wait   *)
(* gives up in time and has asked whoever answers; what an Azure machine    *)
(* knows of itself lasts; and what a datasource reads of its service is     *)
(* whole, and complete as long as few requests fail.                        *)
(***************************************************************************)
EXTENDS Services, SequenceTheorems, WellFoundedInduction, TLAPS

LEMMA Constants ==
  /\ Timeout \in Nat /\ Len(Urls) \in Nat /\ Len(Urls) >= 1 /\ Tries \in Nat /\ Tries >= 1
  /\ MaxWaits \subseteq Int /\ Readies \subseteq Nat /\ Slownesses \subseteq Nat
  BY MetadataAssumption

LEMMA Numbers ==
  /\ Timeout \in Nat /\ Len(Urls) \in Nat /\ Len(Urls) >= 1 /\ Longest \in Nat
  /\ \A k \in 0..Len(Urls) : k * Timeout \in Nat /\ k * Timeout <= Longest
  /\ \A k \in Int : (k + 1) * Timeout = k * Timeout + Timeout /\ k * Timeout \in Int
  /\ (Len(Urls) + 1) * Timeout = Longest + Timeout
  <1>1. Timeout \in Nat /\ Len(Urls) \in Nat /\ Len(Urls) >= 1
    BY MetadataAssumption
  <1>2. \A k \in Int : (k + 1) * Timeout = k * Timeout + Timeout /\ k * Timeout \in Int
    BY <1>1
  <1>3. \A k \in 0..Len(Urls) : k * Timeout \in Nat /\ k * Timeout <= Len(Urls) * Timeout
    BY <1>1, SMTT(20)
  <1> QED BY <1>1, <1>2, <1>3 DEF Longest

\* The sleep grows with the passes.
LEMMA Halves == \A n \in Nat : n \div 5 \in Nat /\ n \div 5 <= (n + 1) \div 5
  OBVIOUS

\* The numbers of a wait.
LEMMA WaitTypes ==
  ASSUME TypeOK
  PROVE  /\ now \in Nat /\ loop \in Nat /\ at \in 1..(Len(Urls) + 1) /\ timeout \in Nat /\ timeout <= Timeout
         /\ maxwait \in Int /\ tries \in Nat
         /\ \A u \in Asked : service[u].ready \in Nat /\ service[u].slow \in Nat
  <1>1. now \in Nat /\ loop \in Nat /\ at \in 1..(Len(Urls) + 1) /\ timeout \in Nat /\ timeout <= Timeout
        /\ maxwait \in Int /\ tries \in Nat
    BY Constants DEF TypeOK, TimeTypes
  <1>2. \A u \in Asked : service[u].ready \in Readies \cup {Never} /\ service[u].slow \in Slownesses
    BY DEF TypeOK, ServiceTypes
  <1>3. \A n \in Readies \cup {Never} : n \in Nat
    BY Constants DEF Never
  <1>4. \A n \in Slownesses : n \in Nat
    BY Constants
  <1> QED BY <1>1, <1>2, <1>3, <1>4

LEMMA Taken ==
  ASSUME TypeOK, at \in Asked
  PROVE  TimeTaken(at) \in Nat /\ TimeTaken(at) <= timeout
  BY WaitTypes DEF TimeTaken, Answers

LEMMA Tails == (\A a, b : Tail(<<a, b>>) = <<b>>) /\ (\A a, b, c : Tail(<<a, b, c>>) = <<b, c>>)
  <1>1. \A a, b : Tail(<<a, b>>) = <<b>>
    OBVIOUS
  <1>2. \A a, b, c : Tail(<<a, b, c>>) = <<b, c>>
    OBVIOUS
  <1> QED BY <1>1, <1>2

\* The commands of the clean-up, one after the other, and that no two lists of them are
\* the same.
LEMMA Commands ==
  /\ Head(<<"route del">>) = "route del" /\ Tail(<<"route del">>) = <<>>
  /\ Head(<<"addr del">>) = "addr del" /\ Tail(<<"addr del">>) = <<>>
  /\ Head(<<"link down", "addr del">>) = "link down" /\ Tail(<<"link down", "addr del">>) = <<"addr del">>
  /\ Head(<<"route del", "link down", "addr del">>) = "route del"
  /\ Tail(<<"route del", "link down", "addr del">>) = <<"link down", "addr del">>
  <1>1. Head(<<"route del">>) = "route del"
    OBVIOUS
  <1>2. Tail(<<"route del">>) = <<>>
    OBVIOUS
  <1>3. Head(<<"addr del">>) = "addr del"
    OBVIOUS
  <1>4. Tail(<<"addr del">>) = <<>>
    OBVIOUS
  <1>5. Head(<<"link down", "addr del">>) = "link down"
    OBVIOUS
  <1>6. Head(<<"route del", "link down", "addr del">>) = "route del"
    OBVIOUS
  <1>7. Tail(<<"link down", "addr del">>) = <<"addr del">>
    BY Tails
  <1>8. Tail(<<"route del", "link down", "addr del">>) = <<"link down", "addr del">>
    BY Tails
  <1> QED BY <1>1, <1>2, <1>3, <1>4, <1>5, <1>6, <1>7, <1>8

LEMMA Prepend == ASSUME NEW a, NEW b, NEW c PROVE <<a>> \o <<b, c>> = <<a, b, c>>
  <1> DEFINE all == <<a>> \o <<b, c>>
             S == {a, b, c}
  <1>1. <<a>> \in Seq(S) /\ <<b, c>> \in Seq(S) /\ <<a, b, c>> \in Seq(S)
    OBVIOUS
  <1>2. all \in Seq(S)
    BY <1>1
  <1>3. Len(all) = 3 /\ Len(<<a, b, c>>) = 3
    OBVIOUS
  <1>4. all[1] = a
    OBVIOUS
  <1>5. all[2] = b
    OBVIOUS
  <1>6. all[3] = c
    OBVIOUS
  <1>7. <<a, b, c>>[1] = a /\ <<a, b, c>>[2] = b /\ <<a, b, c>>[3] = c
    OBVIOUS
  <1>8. \A i \in 1..Len(all) : all[i] = <<a, b, c>>[i]
    <2>1. 1..Len(all) = {1, 2, 3}
      BY <1>3
    <2> HIDE DEF all
    <2> QED BY <2>1, <1>4, <1>5, <1>6, <1>7
  <1> QED BY <1>1, <1>2, <1>3, <1>8, SeqEqual

LEMMA RouteFirst ==
  /\ <<"route del">> \o <<>> = <<"route del">>
  /\ <<"route del">> \o <<"link down", "addr del">> = <<"route del", "link down", "addr del">>
  <1>1. <<"route del">> \o <<>> = <<"route del">>
    OBVIOUS
  <1> QED BY <1>1, Prepend

LEMMA Different ==
  /\ <<"route del">> # <<>> /\ <<"addr del">> # <<>> /\ <<"link down", "addr del">> # <<>>
  /\ <<"route del", "link down", "addr del">> # <<>> /\ <<"route del">> # <<"addr del">>
  /\ <<"route del">> # <<"link down", "addr del">>
  /\ <<"route del">> # <<"route del", "link down", "addr del">>
  /\ <<"addr del">> # <<"link down", "addr del">>
  /\ <<"addr del">> # <<"route del", "link down", "addr del">>
  /\ <<"link down", "addr del">> # <<"route del", "link down", "addr del">>
  <1>1. <<"route del">> # <<>> /\ <<"addr del">> # <<>> /\ <<"link down", "addr del">> # <<>>
    OBVIOUS
  <1>2. <<"route del", "link down", "addr del">> # <<>> /\ <<"route del">> # <<"addr del">>
    OBVIOUS
  <1>3. <<"route del">> # <<"link down", "addr del">> /\ <<"addr del">> # <<"link down", "addr del">>
    OBVIOUS
  <1>4. <<"route del">> # <<"route del", "link down", "addr del">>
    OBVIOUS
  <1>5. <<"addr del">> # <<"route del", "link down", "addr del">>
    OBVIOUS
  <1>6. <<"link down", "addr del">> # <<"route del", "link down", "addr del">>
    OBVIOUS
  <1> QED BY <1>1, <1>2, <1>3, <1>4, <1>5, <1>6

LEMMA InitHolds == ASSUME Init PROVE MetadataInv
  <1>1. TypeOK
    <2>1. NicTypes
      BY DEF Init, NicTypes
    <2>2. TimeTypes
      BY Constants DEF Init, TimeTypes
    <2>3. ServiceTypes
      BY DEF Init, ServiceTypes
    <2> QED BY <2>1, <2>2, <2>3 DEF TypeOK
  <1>2. LeaseInv
    BY <1>1 DEF Init, LeaseInv, Same, Fresh, TypeOK, NicTypes, Nics
  <1>3. TimeInv /\ LateInv /\ GivesUpInTime /\ ServiceIsFound
    BY DEF Init, TimeInv, LateInv, GivesUpInTime, ServiceIsFound
  <1> QED BY <1>1, <1>2, <1>3 DEF MetadataInv

\* The commands that are left say what is different, and where each of them is.
LEMMA Positions ==
  /\ \E k \in DOMAIN <<"addr del">> : <<"addr del">>[k] = "addr del"
  /\ \E k \in DOMAIN <<"route del">> : <<"route del">>[k] = "route del"
  /\ \E k \in DOMAIN <<"link down", "addr del">> : <<"link down", "addr del">>[k] = "addr del"
  /\ \E k \in DOMAIN <<"route del", "link down", "addr del">> :
       <<"route del", "link down", "addr del">>[k] = "route del"
  /\ \E k \in DOMAIN <<"route del", "link down", "addr del">> :
       <<"route del", "link down", "addr del">>[k] = "addr del"
  <1>1. \A a : 1 \in DOMAIN <<a>> /\ <<a>>[1] = a
    OBVIOUS
  <1>2. \A a, b : 2 \in DOMAIN <<a, b>> /\ <<a, b>>[2] = b
    OBVIOUS
  <1>3. \A a, b, c : {1, 3} \subseteq DOMAIN <<a, b, c>> /\ <<a, b, c>>[1] = a /\ <<a, b, c>>[3] = c
    OBVIOUS
  <1> QED BY <1>1, <1>2, <1>3

LEMMA DifferencesAreLeft == ASSUME TypeOK, LeaseInv PROVE NothingLeftBehind
  <1> SUFFICES ASSUME pc = "done"
               PROVE  /\ result = "raised" => failed # "nothing"
                      /\ nic.address = before.address \/ NotEntered \/ StillToUndo("addr del")
                      /\ nic.route = before.route \/ StillToUndo("route del")
    BY DEF NothingLeftBehind
  <1>1. nic \in Nics /\ before \in Nics /\ failed \in {"nothing", "lease", "entry", "undo"}
    BY DEF TypeOK, NicTypes
  <1>2. CASE failed = "nothing"
    BY <1>2, Different DEF LeaseInv, Same
  <1>3. CASE failed \in {"lease", "entry"}
    BY <1>3 DEF LeaseInv, Same, NotEntered
  <1>4. CASE failed = "undo"
    <2>1. \/ cleanup = <<>> /\ Same
          \/ cleanup = <<"route del">> /\ nic.address = before.address
          \/ cleanup = <<"addr del">> /\ ~before.route /\ ~nic.route
          \/ cleanup = <<"link down", "addr del">> /\ ~before.route /\ ~nic.route
          \/ cleanup = <<"route del", "link down", "addr del">>
      BY <1>4 DEF LeaseInv, Fresh
    <2>2. nic.route \in BOOLEAN /\ before.route \in BOOLEAN
      BY <1>1 DEF Nics
    <2>3. CASE cleanup = <<>> /\ Same
      BY <2>3, <1>4 DEF Same
    <2>4. CASE cleanup = <<"route del">> /\ nic.address = before.address
      BY <2>4, <1>4, Positions DEF StillToUndo
    <2>5. CASE cleanup = <<"addr del">> /\ ~before.route /\ ~nic.route
      BY <2>2, <2>5, <1>4, Positions DEF StillToUndo
    <2>6. CASE cleanup = <<"link down", "addr del">> /\ ~before.route /\ ~nic.route
      BY <2>2, <2>6, <1>4, Positions DEF StillToUndo
    <2>7. CASE cleanup = <<"route del", "link down", "addr del">>
      BY <2>7, <1>4, Positions DEF StillToUndo
    <2> QED BY <2>1, <2>3, <2>4, <2>5, <2>6, <2>7
  <1> QED BY <1>1, <1>2, <1>3, <1>4

LEMMA TypesKept == ASSUME MetadataInv, Step PROVE TypeOK'
  <1> USE DEF MetadataInv, net, wait
  <1>1. ServiceTypes'
    BY DEF Step, Dhcp, EnterFails, AddAddress, LinkUp, AddRoute, Exit, NoWait, NextUrl, TryUrl,
           Sleep, Read, VersionHangs, TypeOK, ServiceTypes
  <1>2. ASSUME Dhcp \/ EnterFails \/ AddAddress \/ LinkUp \/ AddRoute \/ Exit \/ NoWait \/ VersionHangs
        PROVE  TimeTypes'
    BY <1>2 DEF Dhcp, EnterFails, AddAddress, LinkUp, AddRoute, Exit, NoWait, VersionHangs, GiveUp, TypeOK,
                TimeTypes
  <1>3. ASSUME Dhcp PROVE NicTypes'
    BY <1>3 DEF Dhcp, TypeOK, NicTypes, Nics
  <1>4. ASSUME EnterFails PROVE NicTypes'
    BY <1>4 DEF EnterFails, TypeOK, NicTypes
  <1>5. ASSUME AddAddress PROVE NicTypes'
    BY <1>5 DEF AddAddress, Router, TypeOK, NicTypes, Nics
  <1>6. ASSUME LinkUp PROVE NicTypes'
    BY <1>6 DEF LinkUp, Router, TypeOK, NicTypes, Nics
  <1>7. ASSUME AddRoute PROVE NicTypes'
    <2>1. /\ nic' \in Nics /\ before' \in Nics /\ pc' = "wait" /\ failed' = "nothing"
          /\ result' \in {"none", "found", "not found", "raised"}
      BY <1>7 DEF AddRoute, TypeOK, NicTypes, Nics, LeaseInv
    <2>2. cleanup \in {<<>>, <<"link down", "addr del">>}
      BY <1>7 DEF AddRoute, LeaseInv
    <2>3. cleanup' \in {cleanup, <<"route del">>, <<"route del", "link down", "addr del">>}
      BY <1>7, <2>2, RouteFirst DEF AddRoute
    <2> HIDE DEF MetadataInv
    <2> QED BY <2>1, <2>2, <2>3 DEF NicTypes
  <1>8. ASSUME Exit PROVE NicTypes'
    <2>1. /\ nic \in Nics /\ before \in Nics /\ failed \in {"nothing", "lease", "entry", "undo"}
          /\ cleanup \in {<<>>, <<"route del">>, <<"addr del">>, <<"link down", "addr del">>,
                          <<"route del", "link down", "addr del">>}
      BY DEF TypeOK, NicTypes
    <2>2. Head(cleanup) \in {"route del", "link down", "addr del"} \/ cleanup = <<>>
      BY <2>1, Commands
    <2>3. cleanup # <<>> => Undo(Head(cleanup)) \in Nics
      BY <2>1, <2>2 DEF Undo, Nics
    <2>4. nic' \in Nics
      BY <1>8, <2>1, <2>3 DEF Exit
    <2>5. cleanup # <<>> => Tail(cleanup) \in {<<>>, <<"addr del">>, <<"link down", "addr del">>}
      BY <2>1, Commands
    <2>6. cleanup' \in {cleanup, <<>>, <<"addr del">>, <<"link down", "addr del">>}
      BY <1>8, <2>5 DEF Exit
    <2>7. /\ pc' \in {"exit", "done"} /\ before' = before /\ failed' \in {failed, "undo"}
          /\ result' \in {result, "raised"}
      BY <1>8, <2>1 DEF Exit
    <2>8. result \in {"none", "found", "not found", "raised"}
      BY DEF TypeOK, NicTypes
    <2> HIDE DEF MetadataInv
    <2> QED BY <2>1, <2>4, <2>6, <2>7, <2>8 DEF NicTypes
  <1>9. ASSUME NoWait \/ NextUrl \/ TryUrl \/ Sleep \/ Read \/ VersionHangs PROVE NicTypes'
    BY <1>9 DEF NoWait, NextUrl, TryUrl, Sleep, Read, VersionHangs, Waiting, GiveUp, TypeOK, NicTypes
  <1>10. ASSUME NextUrl PROVE TimeTypes'
    <2>1. timeout' \in 0..Timeout
      BY <1>10, WaitTypes, Constants DEF NextUrl, Waiting, Timeup
    <2> QED BY <1>10, <2>1, WaitTypes, Constants DEF NextUrl, Waiting, TypeOK, TimeTypes
  <1>11. ASSUME TryUrl PROVE TimeTypes'
    <2>1. at \in Asked /\ TimeTaken(at) \in Nat
      BY <1>11, WaitTypes, Constants, Taken DEF TryUrl, TimeInv, Asked
    <2> QED BY <1>11, <2>1, WaitTypes, Constants DEF TryUrl, TypeOK, TimeTypes, Asked
  <1>12. ASSUME Sleep PROVE TimeTypes'
    <2>0. loop \in Nat /\ now \in Nat /\ at \in 1..(Len(Urls) + 1) /\ loop \div 5 \in Nat
      BY Halves, WaitTypes
    <2>a. \/ now' = now /\ loop' = loop /\ at' = at
          \/ now' = now + (loop \div 5) + 1 /\ loop' = loop + 1 /\ at' = 1
      BY <1>12 DEF Sleep
    <2>1. now' \in Nat /\ loop' \in Nat /\ at' \in 1..(Len(Urls) + 1)
      BY <2>0, <2>a, Constants
    <2>2. UNCHANGED <<maxwait, timeout, tries>>
      BY <1>12 DEF Sleep
    <2> QED BY <2>1, <2>2 DEF TypeOK, TimeTypes
  <1>13. ASSUME Read PROVE TimeTypes'
    <2>1. tries' \in 0..Tries
      BY <1>13, WaitTypes, Constants DEF Read, TimeInv
    <2>2. UNCHANGED <<now, maxwait, timeout, loop, at>>
      BY <1>13 DEF Read
    <2> QED BY <2>1, <2>2 DEF TypeOK, TimeTypes
  <1> QED
    BY <1>1, <1>2, <1>3, <1>4, <1>5, <1>6, <1>7, <1>8, <1>9, <1>10, <1>11, <1>12, <1>13
    DEF Step, TypeOK

LEMMA LeaseKept == ASSUME MetadataInv, Step PROVE LeaseInv'
  <1> USE DEF MetadataInv, net, wait
  <1>0. /\ nic \in Nics /\ before \in Nics
        /\ nic.address \in BOOLEAN /\ nic.route \in BOOLEAN
        /\ before.address \in BOOLEAN /\ before.route \in BOOLEAN
    BY DEF TypeOK, NicTypes, Nics
  <1>1. ASSUME Dhcp PROVE LeaseInv'
    <2>1. pc = "dhcp" /\ failed = "nothing" /\ cleanup = <<>> /\ Same /\ result # "raised"
      BY <1>1, Different DEF Dhcp, LeaseInv
    <2>2. nic'.address = nic.address /\ nic'.route = nic.route /\ UNCHANGED <<before, cleanup>>
      BY <1>0, <1>1 DEF Dhcp, Nics
    <2>3. \/ pc' = "done" /\ result' = "not found" /\ failed' = "nothing"
          \/ pc' = "done" /\ failed' = "lease"
          \/ pc' = "address" /\ result' = result /\ failed' = "nothing"
      BY <1>1, <2>1 DEF Dhcp
    <2>4. before.route => before.address
      BY DEF LeaseInv
    <2> HIDE DEF MetadataInv
    <2> QED BY <2>1, <2>2, <2>3, <2>4 DEF LeaseInv, Same
  <1>2. ASSUME EnterFails PROVE LeaseInv'
    <2>1. /\ pc \in {"address", "link", "route"} /\ pc' = "done" /\ failed' = "entry"
          /\ UNCHANGED <<nic, before, cleanup>>
      BY <1>2 DEF EnterFails
    <2>2. failed = "nothing" /\ (before.route => before.address)
      BY <2>1 DEF LeaseInv
    <2>3. nic.route = before.route
      <3>1. pc = "route" => cleanup \in {<<>>, <<"link down", "addr del">>}
        BY <2>2 DEF LeaseInv
      <3>2. pc = "address" => cleanup = <<>>
        BY <2>2 DEF LeaseInv
      <3>3. CASE pc = "link"
        BY <1>0, <2>2, <3>3 DEF LeaseInv, Fresh
      <3>4. CASE pc # "link"
        BY <1>0, <2>1, <2>2, <3>1, <3>2, <3>4, Different DEF LeaseInv, Fresh, Same
      <3> QED BY <3>3, <3>4
    <2> HIDE DEF MetadataInv
    <2> QED BY <2>1, <2>2, <2>3 DEF LeaseInv
  <1>3. ASSUME AddAddress PROVE LeaseInv'
    <2>1. pc = "address" /\ failed = "nothing" /\ cleanup = <<>> /\ Same /\ result # "raised"
      BY <1>3, Different DEF AddAddress, LeaseInv
    <2>2. /\ nic'.address = TRUE /\ nic'.route = nic.route /\ UNCHANGED <<before, cleanup, failed, result>>
          /\ pc' \in IF nic.address THEN {"route", "wait"} ELSE {"link"}
      BY <1>0, <1>3 DEF AddAddress, Router, Nics
    <2>3. CASE nic.address
      BY <1>0, <2>1, <2>2, <2>3 DEF LeaseInv, Same
    <2>4. CASE ~nic.address
      BY <1>0, <2>1, <2>2, <2>4 DEF LeaseInv, Same, Fresh
    <2> QED BY <2>3, <2>4
  <1>4. ASSUME LinkUp PROVE LeaseInv'
    <2>1. pc = "link" /\ failed = "nothing" /\ Fresh /\ ~nic.route /\ result # "raised"
      BY <1>4 DEF LinkUp, LeaseInv
    <2>2. /\ nic'.route = nic.route /\ UNCHANGED <<before, failed, result>>
          /\ pc' \in {"route", "wait"} /\ cleanup' = <<"link down", "addr del">>
      BY <1>0, <1>4 DEF LinkUp, Router, Nics
    <2> QED BY <2>1, <2>2 DEF LeaseInv, Fresh
  <1>5. ASSUME AddRoute PROVE LeaseInv'
    <2>1. pc = "route" /\ failed = "nothing" /\ result # "raised" /\ (before.route => before.address)
      BY <1>5 DEF AddRoute, LeaseInv
    <2>2. \/ cleanup = <<>> /\ Same
          \/ cleanup = <<"link down", "addr del">> /\ Fresh /\ ~nic.route
      BY <1>5, Different DEF AddRoute, LeaseInv
    <2>3. /\ nic'.route = TRUE /\ nic'.address = nic.address /\ UNCHANGED <<before, failed, result>>
          /\ pc' = "wait" /\ cleanup' = IF nic.route THEN cleanup ELSE <<"route del">> \o cleanup
      BY <1>0, <1>5 DEF AddRoute, Nics
    <2>4. CASE cleanup = <<>> /\ Same /\ nic.route
      BY <1>0, <2>1, <2>3, <2>4 DEF LeaseInv, Same
    <2>5. CASE cleanup = <<>> /\ Same /\ ~nic.route
      <3>1. cleanup' = <<"route del">>
        BY <2>3, <2>5, RouteFirst
      <3> QED BY <1>0, <2>1, <2>3, <2>5, <3>1 DEF LeaseInv, Same
    <2>6. CASE cleanup = <<"link down", "addr del">> /\ Fresh /\ ~nic.route
      <3>1. cleanup' = <<"route del", "link down", "addr del">>
        BY <2>3, <2>6, RouteFirst
      <3> QED BY <1>0, <2>1, <2>3, <2>6, <3>1 DEF LeaseInv, Fresh
    <2> QED BY <2>2, <2>4, <2>5, <2>6
  <1>6. ASSUME Exit PROVE LeaseInv'
    <2>1. pc = "exit" /\ failed = "nothing" /\ result # "raised" /\ (before.route => before.address) /\ before' = before
      BY <1>6 DEF Exit, LeaseInv
    <2>2. \/ cleanup = <<>> /\ Same
          \/ cleanup = <<"route del">> /\ nic.route /\ ~before.route /\ nic.address = before.address
          \/ cleanup \in {<<"addr del">>, <<"link down", "addr del">>} /\ Fresh /\ ~nic.route
          \/ cleanup = <<"route del", "link down", "addr del">> /\ Fresh /\ nic.route
      BY <1>6 DEF Exit, LeaseInv
    <2>3. \/ cleanup = <<>> /\ pc' = "done" /\ UNCHANGED <<nic, cleanup, failed, result>>
          \/ /\ cleanup # <<>> /\ nic' = Undo(Head(cleanup)) /\ cleanup' = Tail(cleanup)
             /\ UNCHANGED <<pc, failed, result>>
          \/ /\ cleanup # <<>> /\ pc' = "done" /\ UNCHANGED <<nic, cleanup>>
             /\ Head(cleanup) # "route del" \/ nic.route => failed' = "undo"
      BY <1>6 DEF Exit
    <2> HIDE DEF MetadataInv
    <2>4. CASE cleanup = <<>>
      BY <2>1, <2>2, <2>3, <2>4, Different DEF LeaseInv, Same
    <2>5. CASE cleanup = <<"route del">>
      <3>1. nic.route /\ ~before.route /\ nic.address = before.address
        BY <2>2, <2>5, Different
      <3>2. Head(cleanup) = "route del" /\ Tail(cleanup) = <<>> /\ cleanup # <<>>
        BY <2>5, Commands, Different
      <3>3. Undo("route del").route = FALSE /\ Undo("route del").address = nic.address
        BY <1>0 DEF Undo, Nics
      <3>4. CASE nic' = Undo("route del") /\ cleanup' = <<>> /\ UNCHANGED <<pc, failed, result>>
        BY <1>0, <2>1, <3>1, <3>3, <3>4 DEF LeaseInv, Same
      <3>5. CASE pc' = "done" /\ failed' = "undo" /\ UNCHANGED <<nic, cleanup>>
        BY <2>1, <2>2, <3>5 DEF LeaseInv, Same, Fresh
      <3> QED BY <2>3, <3>1, <3>2, <3>4, <3>5
    <2>6. CASE cleanup = <<"addr del">>
      <3>1. Fresh /\ ~nic.route
        BY <2>2, <2>6, Different
      <3>2. Head(cleanup) = "addr del" /\ Tail(cleanup) = <<>> /\ cleanup # <<>>
        BY <2>6, Commands, Different
      <3>3. Undo("addr del").route = nic.route /\ Undo("addr del").address = FALSE
        BY <1>0 DEF Undo, Nics
      <3>4. CASE nic' = Undo("addr del") /\ cleanup' = <<>> /\ UNCHANGED <<pc, failed, result>>
        BY <1>0, <2>1, <3>1, <3>3, <3>4 DEF LeaseInv, Same, Fresh
      <3>5. CASE pc' = "done" /\ failed' = "undo" /\ UNCHANGED <<nic, cleanup>>
        BY <2>1, <2>2, <3>5 DEF LeaseInv, Same, Fresh
      <3> QED BY <2>3, <3>1, <3>2, <3>4, <3>5
    <2>7. CASE cleanup = <<"link down", "addr del">>
      <3>1. Fresh /\ ~nic.route
        BY <2>2, <2>7, Different
      <3>2. Head(cleanup) = "link down" /\ Tail(cleanup) = <<"addr del">> /\ cleanup # <<>>
        BY <2>7, Commands, Different
      <3>3. Undo("link down").route = FALSE
        BY <1>0 DEF Undo, Nics
      <3>4. CASE nic' = Undo("link down") /\ cleanup' = <<"addr del">> /\ UNCHANGED <<pc, failed, result>>
        BY <1>0, <2>1, <3>1, <3>3, <3>4 DEF LeaseInv, Fresh
      <3>5. CASE pc' = "done" /\ failed' = "undo" /\ UNCHANGED <<nic, cleanup>>
        BY <2>1, <2>2, <3>5 DEF LeaseInv, Same, Fresh
      <3> QED BY <2>3, <3>1, <3>2, <3>4, <3>5
    <2>8. CASE cleanup = <<"route del", "link down", "addr del">>
      <3>1. Fresh /\ nic.route
        BY <2>2, <2>8, Different
      <3>2. /\ Head(cleanup) = "route del" /\ Tail(cleanup) = <<"link down", "addr del">>
            /\ cleanup # <<>>
        BY <2>8, Commands, Different
      <3>3. Undo("route del").route = FALSE
        BY <1>0 DEF Undo, Nics
      <3>4. CASE nic' = Undo("route del") /\ cleanup' = <<"link down", "addr del">> /\ UNCHANGED <<pc, failed, result>>
        BY <1>0, <2>1, <3>1, <3>3, <3>4 DEF LeaseInv, Fresh
      <3>5. CASE pc' = "done" /\ failed' = "undo" /\ UNCHANGED <<nic, cleanup>>
        BY <2>1, <2>2, <3>5 DEF LeaseInv, Same, Fresh
      <3> QED BY <2>3, <3>1, <3>2, <3>4, <3>5
    <2> QED BY <2>2, <2>4, <2>5, <2>6, <2>7, <2>8
  <1>7. ASSUME NoWait \/ NextUrl \/ TryUrl \/ Sleep \/ Read \/ VersionHangs PROVE LeaseInv'
    <2>1. /\ pc \in {"wait", "try", "read"} /\ pc' \in {"wait", "try", "read", "exit", "hangs"}
          /\ UNCHANGED <<nic, before, cleanup, failed>> /\ result' \in {result, "found", "not found"}
      BY <1>7 DEF NoWait, NextUrl, TryUrl, Sleep, Read, VersionHangs, Waiting, GiveUp
    <2> QED BY <2>1 DEF LeaseInv, Same, Fresh
  <1> QED BY <1>1, <1>2, <1>3, <1>4, <1>5, <1>6, <1>7 DEF Step

\* What a step leaves alone of the numbers, and of where the services are.
LEMMA TimeKept == ASSUME MetadataInv, Step PROVE TimeInv'
  <1>0. /\ now \in Nat /\ loop \in Nat /\ at \in 1..(Len(Urls) + 1) /\ timeout \in Nat /\ timeout <= Timeout
        /\ maxwait \in Int /\ Timeout \in Nat /\ Len(Urls) \in Nat /\ Tries >= 1 /\ Longest \in Nat
        /\ tries \in Nat /\ Tries \in Nat
    BY WaitTypes, Constants, Numbers DEF MetadataInv
  <1>1. TimeInv
    BY DEF MetadataInv
  <1>2. ASSUME Dhcp \/ EnterFails \/ AddAddress \/ LinkUp, pc' # "wait" PROVE TimeInv'
    <2>1. /\ pc \in {"dhcp", "address", "link", "route"} /\ pc' \in {"address", "link", "route", "done"}
          /\ UNCHANGED <<now, loop, at, tries, timeout>>
      BY <1>2 DEF Dhcp, EnterFails, AddAddress, LinkUp, Router, wait
    <2> QED BY <1>1, <2>1 DEF TimeInv
  <1>3. ASSUME AddAddress \/ LinkUp \/ AddRoute, pc' = "wait" PROVE TimeInv'
    <2>1. /\ pc \in {"address", "link", "route"} /\ UNCHANGED <<now, loop, at, tries, timeout>>
      BY <1>3 DEF AddAddress, LinkUp, AddRoute, wait
    <2>2. now = 0 /\ loop = 0 /\ at = 1 /\ tries = 0 /\ timeout = Timeout
      BY <1>1, <2>1 DEF TimeInv
    <2>3. 0 <= (at - 1) * Timeout
      BY <1>0, <2>2
    <2> QED BY <1>3, <2>1, <2>2, <2>3 DEF TimeInv
  <1>4. ASSUME Exit \/ NoWait \/ VersionHangs PROVE TimeInv'
    <2>1. pc' \in {"exit", "done", "hangs"}
      BY <1>4 DEF Exit, NoWait, VersionHangs, GiveUp
    <2> QED BY <2>1 DEF TimeInv
  <1>5. ASSUME NextUrl PROVE TimeInv'
    <2>1. /\ pc = "wait" /\ maxwait > 0 /\ tries = 0 /\ at <= Len(Urls)
          /\ UNCHANGED <<now, maxwait, loop, tries>>
      BY <1>1, <1>5 DEF NextUrl, Waiting, TimeInv
    <2>2. CASE loop # 0 /\ Timeup /\ at' = Len(Urls) + 1 /\ UNCHANGED <<pc, timeout>>
      <3>1. loop > 0 /\ pc' = "wait"
        BY <1>0, <2>1, <2>2
      <3>2. now <= Max2(Longest, maxwait) + (loop \div 5) + 1
        BY <1>1, <2>1, <3>1 DEF TimeInv
      <3>3. now' <= Max2(Longest, maxwait') + (loop' \div 5) + 1
        BY <2>1, <3>2
      <3> QED BY <1>0, <2>1, <3>1, <3>3 DEF TimeInv
    <2>3. CASE /\ loop = 0 \/ ~Timeup
               /\ pc' = "try" /\ at' = at
               /\ timeout' = IF loop # 0 /\ timeout # 0 /\ now + timeout > maxwait
                             THEN maxwait - now ELSE timeout
      <3>1. CASE loop = 0
        <4>1. timeout' = timeout /\ timeout = Timeout /\ now <= (at - 1) * Timeout
          BY <1>1, <2>1, <2>3, <3>1 DEF TimeInv
        <4> QED BY <2>1, <2>3, <3>1, <4>1 DEF TimeInv
      <3>2. CASE loop # 0
        <4>1. now <= maxwait
          BY <1>0, <2>1, <2>3, <3>2 DEF Timeup
        <4>2. now + timeout' <= maxwait \/ timeout' = 0
          BY <1>0, <2>3, <3>2, <4>1
        <4> QED BY <1>0, <2>1, <2>3, <3>2, <4>1, <4>2 DEF TimeInv
      <3> QED BY <3>1, <3>2
    <2> QED BY <1>5, <2>2, <2>3 DEF NextUrl
  <1>6. ASSUME TryUrl PROVE TimeInv'
    <2>1. /\ pc = "try" /\ maxwait > 0 /\ at \in Asked /\ tries = 0
          /\ now' = now + TimeTaken(at) /\ UNCHANGED <<maxwait, timeout, loop, tries>>
          /\ \/ pc' = "read"
             \/ pc' = "wait" /\ at' = at + 1
      BY <1>0, <1>1, <1>6 DEF TryUrl, TimeInv, Asked
    <2>2. TimeTaken(at) \in Nat /\ TimeTaken(at) <= timeout
      BY <2>1, Taken DEF MetadataInv
    <2>3. CASE pc' = "read"
      BY <1>0, <2>1, <2>3 DEF TimeInv
    <2>4. CASE pc' = "wait" /\ at' = at + 1 /\ loop = 0
      <3>1. timeout = Timeout /\ now <= (at - 1) * Timeout
        BY <1>1, <2>1, <2>4 DEF TimeInv
      <3>2. (at' - 1) * Timeout = (at - 1) * Timeout + Timeout /\ (at - 1) * Timeout \in Int
        <4>1. at - 1 \in Int /\ at' - 1 = (at - 1) + 1
          BY <1>0, <2>4
        <4> QED BY <4>1, Numbers
      <3>3. now' <= (at' - 1) * Timeout
        BY <1>0, <2>1, <2>2, <3>1, <3>2
      <3> QED BY <2>1, <2>4, <3>1, <3>3 DEF TimeInv
    <2>5. CASE pc' = "wait" /\ at' = at + 1 /\ loop > 0
      <3>1. now' <= maxwait
        BY <1>0, <1>1, <2>1, <2>2, <2>5 DEF TimeInv
      <3>2. loop \div 5 \in Nat
        BY <1>0, Halves
      <3>3. now' <= Max2(Longest, maxwait) + (loop \div 5) + 1
        BY <1>0, <2>1, <2>2, <3>1, <3>2 DEF Max2
      <3> QED BY <2>1, <2>5, <3>3 DEF TimeInv
    <2> QED BY <1>0, <2>1, <2>3, <2>4, <2>5
  <1>7. ASSUME Sleep PROVE TimeInv'
    <2>1. pc = "wait" /\ tries = 0 /\ UNCHANGED <<maxwait, timeout, tries>>
      BY <1>1, <1>7 DEF Sleep, Waiting, TimeInv
    <2>2. CASE GiveUp
      BY <2>2 DEF GiveUp, TimeInv
    <2>3. CASE ~Timeup /\ now' = now + (loop \div 5) + 1 /\ loop' = loop + 1 /\ at' = 1 /\ UNCHANGED <<pc, result>>
      <3>1. now <= maxwait
        BY <1>0, <2>3 DEF Timeup
      <3>2. loop \div 5 \in Nat /\ loop' \div 5 \in Nat /\ loop \div 5 <= loop' \div 5
        BY <1>0, <2>3, Halves
      <3>3. now' <= Max2(Longest, maxwait) + (loop' \div 5) + 1
        BY <1>0, <2>3, <3>1, <3>2 DEF Max2
      <3> QED BY <1>0, <2>1, <2>3, <3>3 DEF TimeInv
    <2> QED BY <1>7, <2>2, <2>3 DEF Sleep
  <1>8. ASSUME Read PROVE TimeInv'
    <2>1. \/ pc' = "exit"
          \/ pc' = "read" /\ tries' = tries + 1 /\ tries + 1 < Tries
      BY <1>8 DEF Read, GiveUp
    <2> QED BY <2>1 DEF TimeInv
  <1>9. Dhcp \/ EnterFails => pc' # "wait"
    BY DEF Dhcp, EnterFails
  <1>10. AddRoute => pc' = "wait"
    BY DEF AddRoute
  <1> QED BY <1>2, <1>3, <1>4, <1>5, <1>6, <1>7, <1>8, <1>9, <1>10 DEF Step

\* A service that was asked when it was not up is late by less than two passes.
LEMMA LateKept == ASSUME MetadataInv, Step PROVE LateInv'
  <1> SUFFICES ASSUME pc' \in {"wait", "try"}, maxwait' > 0, NEW u \in Asked PROVE Late(u)'
    BY DEF LateInv, Asked
  <1> DEFINE up == service[u].ready
             slow == service[u].slow
  <1>0. /\ now \in Nat /\ loop \in Nat /\ at \in 1..(Len(Urls) + 1) /\ timeout \in Nat /\ timeout <= Timeout
        /\ maxwait \in Int /\ Timeout \in Nat /\ Len(Urls) \in Nat /\ Longest \in Nat
        /\ u \in 1..Len(Urls) /\ up \in Nat /\ slow \in Nat
    BY WaitTypes, Constants, Numbers DEF MetadataInv, Asked
  <1>1. /\ \A k \in 0..Len(Urls) : k * Timeout \in Nat /\ k * Timeout <= Longest
        /\ \A k \in Int : (k + 1) * Timeout = k * Timeout + Timeout /\ k * Timeout \in Int
    BY Numbers
  <1>2. service' = service /\ maxwait' = maxwait
    BY DEF Step, Dhcp, EnterFails, AddAddress, LinkUp, AddRoute, Exit, NoWait, NextUrl, TryUrl, Sleep,
           Read, VersionHangs, wait
  <1>3. /\ loop \div 5 \in Nat
        /\ loop > 0 => (loop - 1) \div 5 \in Nat /\ (loop - 1) \div 5 <= loop \div 5
    <2>1. CASE loop > 0
      <3>1. loop - 1 \in Nat /\ (loop - 1) + 1 = loop
        BY <1>0, <2>1
      <3> QED BY <1>0, <3>1, Halves
    <2> QED BY <1>0, <2>1, Halves
  <1>4. ASSUME AddAddress \/ LinkUp \/ AddRoute PROVE Late(u)'
    <2>1. loop' = 0 /\ at' = 1 /\ timeout' = Timeout
      BY <1>4 DEF AddAddress, LinkUp, AddRoute, MetadataInv, TimeInv, wait
    <2> QED BY <1>0, <2>1 DEF Late
  <1>5. ASSUME pc \in {"wait", "try"} PROVE Late(u)
    BY <1>2, <1>5 DEF MetadataInv, LateInv
  <1>6. ASSUME NextUrl PROVE Late(u)'
    <2>1. Late(u) /\ UNCHANGED <<now, loop>> /\ at <= Len(Urls)
      BY <1>5, <1>6 DEF NextUrl, Waiting
    <2>2. CASE slow >= Timeout
      BY <1>2, <2>2 DEF Late
    <2>3. CASE TooLate(u)
      BY <1>2, <2>1, <2>3 DEF Late, TooLate
    <2>4. CASE at' = at /\ timeout' = timeout
      BY <1>2, <2>1, <2>4 DEF Late, TooLate
    <2>5. CASE loop # 0 /\ timeout = Timeout /\ now + Timeout > maxwait
      <3>1. CASE u < at /\ up > Max2(0, now - (at - u) * Timeout)
        <4> DEFINE k == at - u
        <4>1. k \in 0..Len(Urls)
          BY <1>0, <3>1
        <4>2. up > now - k * Timeout /\ up > 0 /\ k * Timeout \in Nat /\ k * Timeout <= Longest
          <5>1. k * Timeout \in Nat /\ k * Timeout <= Longest
            BY <1>1, <4>1
          <5> QED BY <1>0, <3>1, <5>1 DEF Max2
        <4> HIDE DEF k
        <4>3. TooLate(u)
          BY <1>0, <1>3, <2>5, <4>2 DEF TooLate
        <4> QED BY <2>3, <4>3
      <3>2. CASE at <= u /\ up > Max2(0, now - (Len(Urls) + at - u) * Timeout - ((loop - 1) \div 5) - 1)
        <4> DEFINE k == Len(Urls) + at - u
                   n == (loop - 1) \div 5
        <4>1. k \in 0..Len(Urls) /\ loop > 0
          BY <1>0, <2>5, <3>2
        <4>2. n \in Nat /\ n <= loop \div 5
          BY <1>3, <4>1
        <4>3. k * Timeout \in Nat /\ k * Timeout <= Longest
          BY <1>1, <4>1
        <4> DEFINE spent == k * Timeout
        <4>4. up > Max2(0, now - spent - n - 1)
          BY <3>2
        <4>5. spent \in Nat /\ spent <= Longest
          BY <4>3
        <4> HIDE DEF k, n, spent
        <4>6. up > now - spent - n - 1 /\ up > 0
          BY <1>0, <4>2, <4>4, <4>5 DEF Max2
        <4>7. TooLate(u)
          BY <1>0, <1>3, <2>5, <4>2, <4>5, <4>6 DEF TooLate
        <4> QED BY <2>3, <4>7
      <3> QED BY <2>1, <2>2, <2>3, <2>5, <3>1, <3>2 DEF Late
    <2>6. \/ at' = at /\ timeout' = timeout
          \/ loop # 0 /\ timeout' = timeout /\ now > maxwait
          \/ loop # 0 /\ now + timeout > maxwait
      <3>1. maxwait > 0
        BY <1>2
      <3>2. Timeup => now > maxwait
        BY <1>0, <3>1 DEF Timeup
      <3> QED BY <1>6, <3>2 DEF NextUrl
    <2>7. CASE loop # 0 /\ timeout # Timeout
      BY <2>1, <2>2, <2>3, <2>7 DEF Late
    <2>8. CASE now > maxwait
      BY <1>0, <2>4, <2>5, <2>6, <2>7, <2>8
    <2> QED BY <2>4, <2>5, <2>6, <2>7, <2>8
  <1>7. ASSUME TryUrl PROVE Late(u)'
    <2>1. /\ pc = "try" /\ ~Answers(at) /\ at' = at + 1 /\ now' = now + TimeTaken(at)
          /\ UNCHANGED <<timeout, loop>> /\ Late(u)
      BY <1>5, <1>7 DEF TryUrl
    <2>2. at \in Asked /\ TimeTaken(at) \in Nat /\ TimeTaken(at) <= timeout
      <3>1. at \in Asked
        BY <1>0, <2>1 DEF MetadataInv, TimeInv, Asked
      <3> QED BY <3>1, Taken DEF MetadataInv
    <2>3. CASE slow >= Timeout
      BY <1>2, <2>3 DEF Late
    <2>4. CASE TooLate(u)
      BY <1>2, <2>1, <2>4 DEF Late, TooLate
    <2>5. CASE u = at /\ timeout = Timeout /\ slow < Timeout
      <3>1. now < up
        BY <1>0, <2>1, <2>5 DEF Answers
      <3>2. (at' - u) * Timeout = Timeout
        BY <1>0, <2>1, <2>5
      <3>3. u < at' /\ up > Max2(0, now' - (at' - u) * Timeout)
        BY <1>0, <2>1, <2>2, <2>5, <3>1, <3>2 DEF Max2
      <3> QED BY <1>2, <2>1, <2>5, <3>3 DEF Late
    <2>6. CASE timeout = Timeout /\ loop = 0 /\ at < u
      BY <1>0, <2>1, <2>6 DEF Late
    <2>7. CASE timeout = Timeout /\ u < at /\ up > Max2(0, now - (at - u) * Timeout)
      <3>1. (at' - u) * Timeout = (at - u) * Timeout + Timeout /\ (at - u) * Timeout \in Int
        <4>1. at - u \in Int /\ at' - u = (at - u) + 1
          BY <1>0, <2>1
        <4> QED BY <1>1, <4>1
      <3>2. u < at' /\ up > Max2(0, now' - (at' - u) * Timeout)
        BY <1>0, <2>1, <2>2, <2>7, <3>1 DEF Max2
      <3> QED BY <1>2, <2>1, <2>7, <3>2 DEF Late
    <2>8. CASE /\ timeout = Timeout /\ loop > 0 /\ at < u
               /\ up > Max2(0, now - (Len(Urls) + at - u) * Timeout - ((loop - 1) \div 5) - 1)
      <3>1. /\ (Len(Urls) + at' - u) * Timeout = (Len(Urls) + at - u) * Timeout + Timeout
            /\ (Len(Urls) + at - u) * Timeout \in Int
        <4>1. Len(Urls) + at - u \in Int /\ Len(Urls) + at' - u = (Len(Urls) + at - u) + 1
          BY <1>0, <2>1
        <4> QED BY <1>1, <4>1
      <3>2. at' <= u /\ up > Max2(0, now' - (Len(Urls) + at' - u) * Timeout - ((loop - 1) \div 5) - 1)
        <4> DEFINE spent == (Len(Urls) + at - u) * Timeout
                   n == (loop - 1) \div 5
        <4>1. spent \in Int /\ n \in Nat /\ up > Max2(0, now - spent - n - 1)
          BY <1>3, <2>8, <3>1
        <4> HIDE DEF spent, n
        <4>0. now \in Nat /\ now' \in Nat /\ now' <= now + Timeout /\ Timeout \in Nat /\ up \in Nat
          BY <1>0, <2>1, <2>2
        <4>2. up > Max2(0, now' - (spent + Timeout) - n - 1)
          BY <4>0, <4>1 DEF Max2
        <4>3. at' <= u
          BY <1>0, <2>1, <2>8
        <4> QED BY <3>1, <4>2, <4>3 DEF spent, n
      <3> QED BY <1>2, <2>1, <2>8, <3>2 DEF Late
    <2>9. slow < Timeout \/ slow >= Timeout
      BY <1>0
    <2>10. at <= u => at = u \/ at < u
      BY <1>0
    <2> QED BY <2>1, <2>3, <2>4, <2>5, <2>6, <2>7, <2>8, <2>9, <2>10 DEF Late
  <1>8. ASSUME Sleep PROVE Late(u)'
    <2>1. /\ at > Len(Urls) /\ now' = now + (loop \div 5) + 1 /\ loop' = loop + 1 /\ at' = 1
          /\ timeout' = timeout /\ Late(u)
      BY <1>5, <1>8 DEF Sleep, Waiting, GiveUp
    <2>2. at = Len(Urls) + 1
      BY <1>0, <2>1
    <2>3. CASE slow >= Timeout
      BY <1>2, <2>3 DEF Late
    <2>4. CASE TooLate(u)
      <3>1. loop' \div 5 \in Nat /\ loop \div 5 <= loop' \div 5
        BY <1>0, <2>1, Halves
      <3> DEFINE n == loop \div 5
                 m == loop' \div 5
      <3>2. up > 0 /\ up + Longest + Timeout + n + 1 > maxwait
        BY <2>4 DEF TooLate
      <3>3. n \in Nat /\ m \in Nat /\ n <= m
        BY <1>3, <3>1
      <3> HIDE DEF n, m
      <3>4. up + Longest + Timeout + m + 1 > maxwait
        <4>1. up \in Nat /\ Longest \in Nat /\ Timeout \in Nat /\ maxwait \in Int
          BY <1>0
        <4> HIDE DEF up
        <4> QED BY <3>2, <3>3, <4>1
      <3> QED BY <1>2, <3>2, <3>4 DEF Late, TooLate, m
    <2>5. CASE timeout = Timeout /\ u < at /\ up > Max2(0, now - (at - u) * Timeout)
      <3>1. Len(Urls) + at' - u = at - u /\ loop' - 1 = loop /\ loop' > 0 /\ at' <= u
        BY <1>0, <2>1, <2>2
      <3>2. (at - u) * Timeout \in Int
        BY <1>0, <1>1
      <3>3. up > Max2(0, now' - (Len(Urls) + at' - u) * Timeout - ((loop' - 1) \div 5) - 1)
        <4> DEFINE spent == (at - u) * Timeout
                   n == loop \div 5
        <4>1. spent \in Int /\ n \in Nat /\ up > Max2(0, now - spent) /\ now' = now + n + 1
          BY <1>3, <2>1, <2>5, <3>2
        <4> HIDE DEF spent, n
        <4>2. up > Max2(0, now' - spent - n - 1)
          BY <1>0, <4>1 DEF Max2
        <4> QED BY <3>1, <4>2 DEF spent, n
      <3> QED BY <1>2, <2>1, <2>5, <3>1, <3>3 DEF Late
    <2>6. ~(at <= u)
      BY <1>0, <2>1
    <2> QED BY <2>1, <2>3, <2>4, <2>5, <2>6 DEF Late
  <1>9. pc' \notin {"wait", "try"} \/ AddAddress \/ LinkUp \/ AddRoute \/ NextUrl \/ TryUrl \/ Sleep
    BY DEF Step, Dhcp, EnterFails, Exit, NoWait, Read, VersionHangs, GiveUp
  <1> QED BY <1>4, <1>6, <1>7, <1>8, <1>9

\* Where the wait gives up, its time is over: at the end of a pass.
LEMMA FairKept == ASSUME MetadataInv, Step PROVE GivesUpInTime' /\ ServiceIsFound'
  <1>a. SUFFICES ASSUME pc' = "exit", result' = "not found", tries' = 0
               PROVE  /\ now' <= Max2(Longest, maxwait') + (loop' \div 5) + 1
                      /\ maxwait' > 0 => \A u \in Asked : service'[u].slow >= Timeout \/ TooLate(u)'
    BY DEF GivesUpInTime, ServiceIsFound, TooLate
  <1>0. /\ now \in Nat /\ loop \in Nat /\ at \in 1..(Len(Urls) + 1) /\ maxwait \in Int /\ tries \in Nat
        /\ Timeout \in Nat /\ Len(Urls) \in Nat /\ Longest \in Nat
    BY WaitTypes, Constants, Numbers DEF MetadataInv
  <1>1. \A k \in 0..Len(Urls) : k * Timeout \in Nat /\ k * Timeout <= Longest
    BY Numbers
  <1>2. loop \div 5 \in Nat
    BY <1>0, Halves
  <1>3. ASSUME pc = "wait" PROVE now <= Max2(Longest, maxwait) + (loop \div 5) + 1
    <2>1. CASE loop = 0
      <3>1. at - 1 \in 0..Len(Urls)
        BY <1>0
      <3> DEFINE spent == (at - 1) * Timeout
      <3>2. now <= spent
        BY <1>3, <2>1 DEF MetadataInv, TimeInv
      <3>3. spent \in Nat /\ spent <= Longest
        BY <1>1, <3>1
      <3> HIDE DEF spent
      <3> QED BY <1>0, <1>2, <3>2, <3>3 DEF Max2
    <2>2. CASE loop > 0
      BY <1>3, <2>2 DEF MetadataInv, TimeInv
    <2> QED BY <1>0, <2>1, <2>2
  <1>4. ASSUME Exit PROVE UNCHANGED <<pc, result, now, maxwait, loop, tries, service>>
    BY <1>a, <1>4 DEF Exit, wait
  <1>5. CASE UNCHANGED <<pc, result, now, maxwait, loop, tries, service>>
    <2>1. GivesUpInTime /\ ServiceIsFound
      BY DEF MetadataInv
    <2> QED BY <1>a, <1>5, <2>1 DEF GivesUpInTime, ServiceIsFound, TooLate
  <1>6. CASE NoWait
    <2>1. pc = "wait" /\ maxwait <= 0 /\ UNCHANGED <<now, maxwait, loop>>
      BY <1>6 DEF NoWait, wait
    <2> QED BY <1>0, <1>3, <2>1
  <1>7. CASE Sleep
    <2>1. /\ pc = "wait" /\ maxwait > 0 /\ at > Len(Urls) /\ Timeup
          /\ UNCHANGED <<now, maxwait, loop, service>>
      BY <1>7, <1>a DEF Sleep, Waiting
    <2>2. now > maxwait
      BY <1>0, <2>1 DEF Timeup
    <2>3. ASSUME NEW u \in Asked PROVE service[u].slow >= Timeout \/ TooLate(u)
      <3> DEFINE up == service[u].ready
      <3>1. Late(u) /\ u \in 1..Len(Urls) /\ up \in Nat
        BY <2>1, WaitTypes DEF MetadataInv, LateInv, Asked
      <3>2. ~(at <= u)
        BY <1>0, <2>1, <3>1
      <3>3. CASE up > Max2(0, now - (at - u) * Timeout)
        <4> DEFINE spent == (at - u) * Timeout
        <4>1. spent \in Nat /\ spent <= Longest /\ up > Max2(0, now - spent)
          <5>1. at - u \in 0..Len(Urls)
            BY <1>0, <2>1, <3>1
          <5> QED BY <1>1, <3>3, <5>1
        <4> HIDE DEF spent
        <4>2. up > 0 /\ up > now - spent
          BY <1>0, <3>1, <4>1 DEF Max2
        <4> QED BY <1>0, <1>2, <2>2, <3>1, <4>1, <4>2 DEF TooLate
      <3> QED BY <3>1, <3>2, <3>3 DEF Late
    <2> QED BY <1>3, <2>1, <2>3 DEF TooLate
  <1>8. CASE Read
    <2>1. tries' = tries + 1
      BY <1>8 DEF Read
    <2>2. tries' # 0
      BY <1>0, <2>1
    <2> QED BY <1>a, <2>2
  <1> QED
    BY <1>a, <1>4, <1>5, <1>6, <1>7, <1>8
    DEF Step, Dhcp, EnterFails, AddAddress, LinkUp, AddRoute, NextUrl, TryUrl, VersionHangs, Router

\* The wait of a machine that waits, and of one that does not.
LEMMA WaitKept == ASSUME WaitInv, Step PROVE MetadataInv'
  <1>1. MetadataInv
    BY DEF WaitInv, Idle, Step, Dhcp, EnterFails, AddAddress, LinkUp, AddRoute, Exit, NoWait, NextUrl,
           TryUrl, Sleep, Read, VersionHangs, Waiting
  <1> QED BY <1>1, TypesKept, LeaseKept, TimeKept, LateKept, FairKept DEF MetadataInv

LEMMA WaitUnchanged == ASSUME WaitInv, UNCHANGED vars PROVE WaitInv'
  <1>1. UNCHANGED <<pc, nic, before, cleanup, failed, result, now, maxwait, timeout, loop, at, tries, service>>
    BY DEF vars, net, wait
  <1>2. ASSUME Idle PROVE Idle'
    BY <1>1, <1>2 DEF Idle
  <1>3. ASSUME MetadataInv PROVE MetadataInv'
    <2>1. TypeOK'
      BY <1>1, <1>3 DEF MetadataInv, TypeOK, NicTypes, TimeTypes, ServiceTypes
    <2>2. LeaseInv' /\ TimeInv'
      BY <1>1, <1>3 DEF MetadataInv, LeaseInv, Same, Fresh, TimeInv
    <2>3. LateInv' /\ GivesUpInTime' /\ ServiceIsFound'
      BY <1>1, <1>3 DEF MetadataInv, LateInv, Late, TooLate, GivesUpInTime, ServiceIsFound
    <2> QED BY <2>1, <2>2, <2>3 DEF MetadataInv
  <1> QED BY <1>2, <1>3 DEF WaitInv

----------------------------------------------------------------------------
\* What is kept of the environment, without its password, says the same.
LEMMA RedactedSays ==
  ASSUME NEW e, e \in [username : STRING, password : STRING, disable : STRING, keys : STRING]
  PROVE  LET r == ReadAzureOvf(Redact(e))
             x == ReadAzureOvf(e)
         IN  /\ Redact(e).password \in {"absent", "REDACTED"}
             /\ r.name = x.name /\ r.keys = x.keys /\ r.passwd = "" /\ r.locked
             /\ r.pwauth <=> x.pwauth \/ (e.password = "" /\ e.disable = "")
  <1> DEFINE r == ReadAzureOvf(Redact(e))
             x == ReadAzureOvf(e)
  <1>1. /\ Redact(e).username = e.username /\ Redact(e).disable = e.disable /\ Redact(e).keys = e.keys
        /\ Redact(e).password = IF e.password = "absent" THEN "absent" ELSE "REDACTED"
    BY DEF Redact
  <1>2. Says(Redact(e)) <=> e.password # "absent"
    BY <1>1 DEF Says
  <1>3. /\ r.name = Redact(e).username /\ r.keys = Redact(e).keys
        /\ x.name = e.username /\ x.keys = e.keys
    BY DEF ReadAzureOvf
  <1>4. r.passwd = "" /\ r.locked
    BY <1>1, <1>2 DEF ReadAzureOvf
  <1>5. r.pwauth <=> IF e.disable # "" THEN e.disable = "false" ELSE e.password # "absent"
    BY <1>1, <1>2 DEF ReadAzureOvf
  <1>6. x.pwauth <=> IF e.disable # "" THEN e.disable = "false" ELSE e.password \notin {"absent", ""}
    BY DEF ReadAzureOvf, Says
  <1>7. r.pwauth <=> x.pwauth \/ (e.password = "" /\ e.disable = "")
    BY <1>5, <1>6
  <1> QED BY <1>1, <1>3, <1>4, <1>7

LEMMA FabricInit == ASSUME AzureInit PROVE FabricInv
  BY FabricAssumption
  DEF AzureInit, FabricInv, KeptInv, RestIsKept, ReadyHasKeys, NameInv, NameIsRestored, KeyNotMade

\* An environment is read from the cdrom, or from what was kept of it.
LEMMA FindKeeps == ASSUME FabricInv, Find PROVE (KeptInv /\ RestIsKept)'
  <1>1. /\ stage = "find" /\ given' = given /\ cdrom' = cdrom /\ boot' = boot
        /\ given \in Environments /\ \A e \in kept : e = Redact(given)
    BY DEF Find, FabricInv, KeptInv
  <1>2. given \in [username : STRING, password : STRING, disable : STRING, keys : STRING]
    BY <1>1, FabricAssumption
  <1>3. CASE ~cdrom /\ kept = {} /\ stage' = "end" /\ UNCHANGED <<settings, kept>>
    BY <1>1, <1>3 DEF FabricInv, KeptInv, RestIsKept
  <1>4. ASSUME NEW e \in IF cdrom THEN {given} ELSE kept, settings' = ReadAzureOvf(e), kept' = {Redact(e)},
               stage' = "setup"
        PROVE  (KeptInv /\ RestIsKept)'
    <2>1. CASE cdrom
      <3>1. e = given
        BY <1>4, <2>1
      <3>2. Redact(given).password \in {"absent", "REDACTED"}
        BY <1>2, RedactedSays
      <3> QED BY <1>1, <1>4, <2>1, <3>1, <3>2 DEF KeptInv, RestIsKept
    <2>2. CASE ~cdrom
      <3>1. e = Redact(given)
        BY <1>1, <1>4, <2>2
      <3>2. Redact(Redact(given)) = Redact(given)
        BY <1>2 DEF Redact
      <3>3. Redact(given).password \in {"absent", "REDACTED"}
        BY <1>2, RedactedSays
      <3>4. LET r == ReadAzureOvf(Redact(given))
                x == ReadAzureOvf(given)
            IN  /\ r.name = x.name /\ r.keys = x.keys /\ r.passwd = "" /\ r.locked
                /\ r.pwauth <=> x.pwauth \/ (given.password = "" /\ given.disable = "")
        BY <1>2, RedactedSays
      <3>5. kept' = {Redact(given)} /\ settings' = ReadAzureOvf(Redact(given))
        BY <1>4, <3>1, <3>2
      <3>6. KeptInv'
        BY <1>1, <1>4, <3>5 DEF KeptInv
      <3>7. RestIsKept'
        BY <1>1, <2>2, <3>3, <3>4, <3>5 DEF RestIsKept
      <3> QED BY <3>6, <3>7
    <2> QED BY <2>1, <2>2
  <1> QED BY <1>3, <1>4 DEF Find

\* The steps that read nothing leave what is known alone.
LEMMA RestKeeps ==
  ASSUME FabricInv, stage # "find", stage' # "find", UNCHANGED <<environment, boot>>,
         stage = "end" => stage' = "end"
  PROVE  (KeptInv /\ RestIsKept)'
  <1>1. UNCHANGED <<given, cdrom, kept, settings, boot>>
    BY DEF environment
  <1>2. KeptInv'
    BY <1>1 DEF FabricInv, KeptInv
  <1>3. RestIsKept'
    BY <1>1 DEF FabricInv, RestIsKept
  <1> QED BY <1>2, <1>3

LEMMA FabricStepKeeps == ASSUME FabricInv, AzureStep \/ NewGoal \/ NextBoot PROVE FabricInv'
  <1> USE DEF environment, naming, agent, fabric, choice
  <1>1. ASSUME Find PROVE FabricInv'
    <2>1. (KeptInv /\ RestIsKept)'
      BY <1>1, FindKeeps
    <2>2. /\ stage = "find" /\ stage' \in {"setup", "end"}
          /\ UNCHANGED <<boot, goal, keys, certificates, previous, private, tripped, host>>
      BY <1>1 DEF Find
    <2> QED BY <2>1, <2>2 DEF FabricInv, ReadyHasKeys, NameInv, NameIsRestored, KeyNotMade
  <1>2. ASSUME NextBoot PROVE FabricInv'
    <2>1. /\ stage' = "find" /\ previous' = "" /\ private' = FALSE
          /\ tripped' = "nothing" /\ UNCHANGED <<given, kept, settings>>
      BY <1>2 DEF NextBoot
    <2>a. boot \in Nat /\ Boots \in Nat
      BY FabricAssumption DEF FabricInv
    <2>b. boot' = boot + 1 /\ boot < Boots
      BY <1>2 DEF NextBoot
    <2>2. boot' \in Nat
      BY <2>a, <2>b
    <2>3. boot # Boots
      BY <2>a, <2>b
    <2>4. KeptInv' /\ RestIsKept'
      BY <2>1, <2>3 DEF FabricInv, KeptInv, RestIsKept
    <2> QED BY <2>1, <2>2, <2>4 DEF FabricInv, ReadyHasKeys, NameInv, NameIsRestored, KeyNotMade
  <1>3. ASSUME NewGoal PROVE FabricInv'
    <2>1. /\ stage \notin {"end", "find"}
          /\ UNCHANGED <<stage, given, cdrom, kept, settings, boot, goal, keys, certificates, previous, private, tripped, host>>
      BY <1>3 DEF NewGoal
    <2>2. (KeptInv /\ RestIsKept)'
      BY <2>1, RestKeeps
    <2> QED BY <2>1, <2>2 DEF FabricInv, ReadyHasKeys, NameInv, NameIsRestored, KeyNotMade
  <1>4. ASSUME Setup \/ Bounce \/ MakeKey \/ FetchGoal \/ FetchKeys \/ ReportReady \/ InvokeAgent \/ WaitForFiles
        PROVE  (KeptInv /\ RestIsKept)' /\ boot' \in Nat
    <2>1. /\ stage \notin {"find", "end"} /\ stage' # "find"
          /\ UNCHANGED <<given, cdrom, kept, settings, boot>>
      BY <1>4 DEF Setup, Bounce, MakeKey, FetchGoal, FetchKeys, ReportReady, InvokeAgent, WaitForFiles,
                  Raises, Talks, Fails, CleanUp
    <2> QED BY <2>1, RestKeeps DEF FabricInv
  <1>5. ASSUME Setup PROVE (ReadyHasKeys /\ NameInv /\ NameIsRestored)'
    BY <1>5 DEF Setup, Talks, Raises, FabricInv, ReadyHasKeys, NameInv, NameIsRestored, KeyNotMade
  <1>6. ASSUME Bounce PROVE (ReadyHasKeys /\ NameInv /\ NameIsRestored)'
    BY <1>6 DEF Bounce, Talks, Raises, FabricInv, ReadyHasKeys, NameInv, NameIsRestored, KeyNotMade
  <1>7. ASSUME MakeKey PROVE (ReadyHasKeys /\ NameInv /\ NameIsRestored)'
    BY <1>7 DEF MakeKey, Fails, FabricInv, ReadyHasKeys, NameInv, NameIsRestored, KeyNotMade
  <1>8. ASSUME FetchGoal PROVE (ReadyHasKeys /\ NameInv /\ NameIsRestored)'
    BY <1>8 DEF FetchGoal, CleanUp, Fails, FabricInv, ReadyHasKeys, NameInv, NameIsRestored, KeyNotMade
  <1>9. ASSUME FetchKeys PROVE (ReadyHasKeys /\ NameInv /\ NameIsRestored)'
    BY <1>9 DEF FetchKeys, CleanUp, Fails, FabricInv, ReadyHasKeys, NameInv, NameIsRestored, KeyNotMade
  <1>10. ASSUME ReportReady PROVE (ReadyHasKeys /\ NameInv /\ NameIsRestored)'
    BY <1>10 DEF ReportReady, CleanUp, Fails, FabricInv, ReadyHasKeys, NameInv, NameIsRestored, KeyNotMade
  <1>11. ASSUME InvokeAgent PROVE (ReadyHasKeys /\ NameInv /\ NameIsRestored)'
    BY <1>11 DEF InvokeAgent, FabricInv, ReadyHasKeys, NameInv, NameIsRestored, KeyNotMade
  <1>12. ASSUME WaitForFiles PROVE (ReadyHasKeys /\ NameInv /\ NameIsRestored)'
    BY <1>12 DEF WaitForFiles, Fails, FabricInv, ReadyHasKeys, NameInv, NameIsRestored, KeyNotMade
  <1>13. ASSUME Setup \/ Bounce \/ MakeKey \/ FetchGoal \/ FetchKeys \/ ReportReady \/ InvokeAgent \/ WaitForFiles
         PROVE  FabricInv'
    BY <1>4, <1>5, <1>6, <1>7, <1>8, <1>9, <1>10, <1>11, <1>12, <1>13 DEF FabricInv
  <1> QED BY <1>1, <1>2, <1>3, <1>13 DEF AzureStep

LEMMA FabricUnchanged == ASSUME FabricInv, UNCHANGED azure PROVE FabricInv'
  BY DEF azure, environment, naming, agent, fabric, choice, FabricInv, KeptInv, RestIsKept, ReadyHasKeys,
         NameInv, NameIsRestored, KeyNotMade

----------------------------------------------------------------------------
(* Sequences put one after the other: what is in them.                      *)

\* The order of the numbers.
Less == {pair \in Nat \X Nat : pair[1] < pair[2]}

\* Every set of numbers that is not empty has a smallest one.
LEMMA Smallest ==
  ASSUME NEW T \in SUBSET Nat, T # {}
  PROVE  \E n \in T : \A m \in Nat : m < n => m \notin T
  <1>1. IsWellFoundedOn(Less, Nat)
    BY NatLessThanWellFounded, Zenon DEF OpToRel, Less
  <1>2. PICK n \in T : \A m \in Nat : <<m, n>> \in Less => m \notin T
    BY <1>1, WFMin
  <1>3. QED
    BY <1>2 DEF Less

\* The recursive function that FlattenSeq is defined by exists.
LEMMA FlattenExists ==
  ASSUME NEW s, NEW n \in Nat
  PROVE  \E f : f = [i \in 1..n |-> IF i = 1 THEN s[i] ELSE f[i - 1] \o s[i]]
  <1> DEFINE P(k) == \E f : f = [i \in 1..k |-> IF i = 1 THEN s[i] ELSE f[i - 1] \o s[i]]
             T == {k \in Nat : ~P(k)}
  <1>1. CASE T = {}
    BY <1>1
  <1>2. CASE T # {}
    <2>1. PICK k \in T : \A m \in Nat : m < k => m \notin T
      BY <1>2, Smallest
    <2>2. k # 0
      <3>1. <<>> = [i \in 1..0 |-> IF i = 1 THEN s[i] ELSE <<>>[i - 1] \o s[i]]
        OBVIOUS
      <3>2. QED
        BY <2>1, <3>1
    <2>3. PICK f : f = [i \in 1..(k - 1) |-> IF i = 1 THEN s[i] ELSE f[i - 1] \o s[i]]
      <3>1. k - 1 \in Nat /\ k - 1 < k
        BY <2>2
      <3>2. P(k - 1)
        BY <2>1, <3>1
      <3>3. QED
        BY <3>2
    <2> DEFINE g == [i \in 1..k |-> IF i = 1 THEN s[i] ELSE IF i = k THEN f[k - 1] \o s[k] ELSE f[i]]
    <2>4. g = [i \in 1..k |-> IF i = 1 THEN s[i] ELSE g[i - 1] \o s[i]]
      <3>1. ASSUME NEW i \in 1..k, i # 1 PROVE g[i] = g[i - 1] \o s[i]
        <4>1. CASE i = k
          <5>1. g[k - 1] = f[k - 1]
            BY <2>2, <2>3, <3>1, <4>1
          <5>2. QED
            BY <4>1, <3>1, <5>1
        <4>2. CASE i # k
          <5>0. i \in 1..(k - 1)
            BY <2>2, <4>2
          <5>1. f[i] = f[i - 1] \o s[i]
            BY <2>3, <3>1, <5>0
          <5>2. g[i - 1] = f[i - 1]
            BY <2>3, <3>1, <4>2
          <5>3. QED
            BY <5>1, <5>2, <3>1, <4>2
        <4>3. QED
          BY <4>1, <4>2
      <3>2. QED
        BY <3>1
    <2>5. QED
      BY <2>1, <2>4
  <1>3. QED
    BY <1>1, <1>2

LEMMA FlattenIs ==
  ASSUME NEW s, Len(s) \in Nat \ {0}
  PROVE  \E f : /\ f = [i \in 1..Len(s) |-> IF i = 1 THEN s[i] ELSE f[i - 1] \o s[i]]
                /\ FlattenSeq(s) = f[Len(s)]
  <1> DEFINE f == CHOOSE f : f = [i \in 1..Len(s) |-> IF i = 1 THEN s[i] ELSE f[i - 1] \o s[i]]
  <1>1. f = [i \in 1..Len(s) |-> IF i = 1 THEN s[i] ELSE f[i - 1] \o s[i]]
    BY FlattenExists
  <1>2. FlattenSeq(s) = f[Len(s)]
    BY DEF FlattenSeq
  <1>3. QED
    BY <1>1, <1>2

LEMMA FlattenEmpty == FlattenSeq(<<>>) = <<>>
  BY DEF FlattenSeq

\* FlattenSeq of sequences over a set is one; it joins one after the other.
LEMMA FlattenAppend ==
  ASSUME NEW X, NEW s \in Seq(Seq(X)), NEW x \in Seq(X)
  PROVE  FlattenSeq(s) \in Seq(X) /\ FlattenSeq(Append(s, x)) = FlattenSeq(s) \o x
  <1> DEFINE n == Len(s)
             t == Append(s, x)
  <1>1. n \in Nat /\ Len(t) = n + 1 /\ t[n + 1] = x /\ \A i \in 1..n : t[i] = s[i] /\ s[i] \in Seq(X)
    OBVIOUS
  <1>2. PICK g : /\ g = [i \in 1..(n + 1) |-> IF i = 1 THEN t[i] ELSE g[i - 1] \o t[i]]
                 /\ FlattenSeq(t) = g[n + 1]
    <2>1. Len(t) \in Nat \ {0}
      BY <1>1
    <2>2. QED
      BY <1>1, <2>1, FlattenIs
  <1>3. CASE n = 0
    BY <1>1, <1>2, <1>3 DEF FlattenSeq
  <1>4. CASE n # 0
    <2>1. PICK f : /\ f = [i \in 1..n |-> IF i = 1 THEN s[i] ELSE f[i - 1] \o s[i]]
                   /\ FlattenSeq(s) = f[n]
      BY <1>1, <1>4, FlattenIs
    <2> DEFINE T == {i \in Nat : i \in 1..n /\ ~(f[i] = g[i] /\ f[i] \in Seq(X))}
    <2>2. T = {}
      <3> SUFFICES ASSUME T # {} PROVE FALSE
        OBVIOUS
      <3>1. PICK i \in T : \A m \in Nat : m < i => m \notin T
        BY Smallest
      <3>2. i \in 1..n /\ i \in 1..(n + 1)
        BY <1>1
      <3>3. CASE i = 1
        BY <3>1, <3>2, <3>3, <1>1, <1>2, <2>1
      <3>4. CASE i # 1
        <4>1. i - 1 \in 1..n /\ i - 1 < i
          BY <3>2, <3>4, <1>1
        <4>2. f[i - 1] = g[i - 1] /\ f[i - 1] \in Seq(X)
          BY <3>1, <4>1
        <4>3. f[i] = f[i - 1] \o s[i] /\ g[i] = g[i - 1] \o t[i]
          BY <3>2, <3>4, <1>2, <2>1
        <4>4. t[i] = s[i] /\ s[i] \in Seq(X)
          BY <3>2, <1>1
        <4>5. f[i] = g[i]
          BY <4>2, <4>3, <4>4
        <4>6. f[i] \in Seq(X)
          <5>1. f[i - 1] \o s[i] \in Seq(X)
            BY <4>2, <4>4
          <5>2. QED
            BY <5>1, <4>3
        <4>7. QED
          BY <3>1, <4>5, <4>6
      <3>5. QED
        BY <3>3, <3>4
    <2>3. f[n] = g[n] /\ f[n] \in Seq(X)
      BY <1>1, <1>4, <2>2
    <2>4. g[n + 1] = g[n] \o t[n + 1]
      <3>1. n + 1 \in 1..(n + 1) /\ n + 1 # 1 /\ (n + 1) - 1 = n
        BY <1>1, <1>4
      <3>2. QED
        BY <1>2, <3>1
    <2>5. QED
      BY <1>1, <1>2, <2>1, <2>3, <2>4
  <1>5. QED
    BY <1>3, <1>4

\* A sequence that is not empty ends with an element.
LEMMA IsAppended ==
  ASSUME NEW X, NEW s \in Seq(X), Len(s) # 0
  PROVE  \E r \in Seq(X), x \in X : s = Append(r, x) /\ Len(r) \in Nat /\ Len(r) < Len(s)
  <1>1. s # <<>>
    OBVIOUS
  <1>2. PICK r \in Seq(X), x \in X : s = Append(r, x)
    BY <1>1, SequenceEmptyOrAppend
  <1>3. Len(s) = Len(r) + 1 /\ Len(r) \in Nat
    BY <1>2, AppendProperties
  <1>4. QED
    BY <1>2, <1>3

\* What is in a sequence after another.
LEMMA InConcat ==
  ASSUME NEW X, NEW s \in Seq(X), NEW t \in Seq(X)
  PROVE  s \o t \in Seq(X) /\ ToSet(s \o t) = ToSet(s) \cup ToSet(t)
  <1>1. s \o t \in Seq(X) /\ Len(s \o t) = Len(s) + Len(t) /\ Len(s) \in Nat /\ Len(t) \in Nat
        /\ \A i \in 1..(Len(s) + Len(t)) : (s \o t)[i] = IF i <= Len(s) THEN s[i] ELSE t[i - Len(s)]
    BY ConcatProperties, LenProperties
  <1>2. DOMAIN s = 1..Len(s) /\ DOMAIN t = 1..Len(t) /\ DOMAIN (s \o t) = 1..(Len(s) + Len(t))
    BY <1>1, LenProperties
  <1>3. ASSUME NEW x \in ToSet(s \o t) PROVE x \in ToSet(s) \cup ToSet(t)
    <2>1. PICK i \in 1..(Len(s) + Len(t)) : x = (s \o t)[i]
      BY <1>2 DEF ToSet
    <2>2. CASE i <= Len(s)
      BY <1>1, <1>2, <2>1, <2>2 DEF ToSet
    <2>3. CASE i > Len(s)
      <3>1. i - Len(s) \in 1..Len(t) /\ x = t[i - Len(s)]
        BY <1>1, <2>1, <2>3
      <3>2. QED
        BY <1>2, <3>1 DEF ToSet
    <2>4. QED
      BY <1>1, <2>2, <2>3
  <1>4. ASSUME NEW x \in ToSet(s) PROVE x \in ToSet(s \o t)
    <2>1. PICK i \in 1..Len(s) : x = s[i]
      BY <1>2 DEF ToSet
    <2>2. i \in 1..(Len(s) + Len(t)) /\ (s \o t)[i] = x
      BY <1>1, <2>1
    <2>3. QED
      BY <1>2, <2>2 DEF ToSet
  <1>5. ASSUME NEW x \in ToSet(t) PROVE x \in ToSet(s \o t)
    <2>1. PICK i \in 1..Len(t) : x = t[i]
      BY <1>2 DEF ToSet
    <2>2. i + Len(s) \in 1..(Len(s) + Len(t)) /\ (s \o t)[i + Len(s)] = x
      BY <1>1, <2>1
    <2>3. QED
      BY <1>2, <2>2 DEF ToSet
  <1>6. QED
    BY <1>1, <1>3, <1>4, <1>5

\* What is in a flattened sequence.
LEMMA InFlatten ==
  ASSUME NEW X, NEW s \in Seq(Seq(X))
  PROVE  FlattenSeq(s) \in Seq(X) /\ \A x : x \in ToSet(FlattenSeq(s)) <=> \E i \in DOMAIN s : x \in ToSet(s[i])
  <1> DEFINE P(q) == FlattenSeq(q) \in Seq(X)
                     /\ \A x : x \in ToSet(FlattenSeq(q)) <=> \E i \in DOMAIN q : x \in ToSet(q[i])
             T == {k \in Nat : \E q \in Seq(Seq(X)) : Len(q) = k /\ ~P(q)}
  <1>1. ASSUME T # {} PROVE FALSE
    <2>1. PICK k \in T : \A m \in Nat : m < k => m \notin T
      BY <1>1, Smallest
    <2>2. PICK q \in Seq(Seq(X)) : Len(q) = k /\ ~P(q)
      OBVIOUS
    <2>3. CASE k = 0
      <3>1. q = <<>> /\ FlattenSeq(q) = <<>>
        BY <2>2, <2>3, FlattenEmpty
      <3>2. DOMAIN q = {} /\ ToSet(FlattenSeq(q)) = {}
        BY <3>1 DEF ToSet
      <3>3. FlattenSeq(q) \in Seq(X)
        <4>1. <<>> \in Seq(X)
          OBVIOUS
        <4>2. QED
          BY <3>1, <4>1, Zenon
      <3>4. P(q)
        BY <3>2, <3>3
      <3>5. QED
        BY <2>2, <3>4
    <2>4. CASE k # 0
      <3>1. PICK r \in Seq(Seq(X)), y \in Seq(X) : q = Append(r, y) /\ Len(r) \in Nat /\ Len(r) < Len(q)
        BY <2>2, <2>4, IsAppended
      <3>2. P(r)
        BY <2>1, <2>2, <3>1
      <3>3. FlattenSeq(q) = FlattenSeq(r) \o y
        BY <3>1, FlattenAppend
      <3>4. FlattenSeq(q) \in Seq(X) /\ ToSet(FlattenSeq(q)) = ToSet(FlattenSeq(r)) \cup ToSet(y)
        BY <3>2, <3>3, InConcat
      <3>5. DOMAIN q = DOMAIN r \cup {Len(r) + 1} /\ q[Len(r) + 1] = y /\ \A i \in DOMAIN r : q[i] = r[i]
        <4>1. DOMAIN r = 1..Len(r) /\ DOMAIN q = 1..(Len(r) + 1)
          BY <3>1, AppendProperties, LenProperties
        <4>2. QED
          BY <3>1, <4>1, AppendProperties
      <3>6. P(q)
        BY <3>2, <3>4, <3>5
      <3>7. QED
        BY <2>2, <3>6
    <2>5. QED
      BY <2>3, <2>4
  <1>2. Len(s) \in Nat
    OBVIOUS
  <1>3. QED
    BY <1>1, <1>2

----------------------------------------------------------------------------
(* What a crawl asks for.                                                   *)
Fields == {"doc", "tries", "stop", "gone", "fails", "bad"}

\* A request for a document, with what is done if it is gone, fails or is bad.
IsAsk(a) == a = [f \in Fields |-> a[f]]
AsksFor(a, doc, gone, fails, bad, attempts, stop) ==
    /\ IsAsk(a) /\ a.doc = doc /\ a.gone = gone /\ a.fails = fails /\ a.bad = bad
    /\ a.tries = attempts /\ a.stop = stop

\* What cuts the attempts short.
NoCodes == {}
Gone == {"404"}
TimedOut == {"timeout"}

LEMMA GetAsks == \A d : AsksFor(Get(d), d, "skip", "skip", "keep", 1, NoCodes)
  BY DEF AsksFor, IsAsk, Fields, Get, NoCodes

LEMMA RetriedAsks == \A d : AsksFor(Retried(d), d, "skip", "skip", "keep", Retries + 1, NoCodes)
  BY GetAsks DEF AsksFor, IsAsk, Fields, Retried

LEMMA MustAsks == \A a, h : IsAsk(a) => AsksFor(Must(a, h), a.doc, h, h, a.bad, a.tries, a.stop)
  BY DEF AsksFor, IsAsk, Fields, Must

\* Requests of which a field is changed.
LEMMA DocAsks == \A a, x : IsAsk(a) => AsksFor([a EXCEPT !.doc = x], x, a.gone, a.fails, a.bad, a.tries, a.stop)
  BY DEF AsksFor, IsAsk, Fields

LEMMA StopAsks == \A a, x : IsAsk(a) => AsksFor([a EXCEPT !.stop = x], a.doc, a.gone, a.fails, a.bad, a.tries, x)
  BY DEF AsksFor, IsAsk, Fields

LEMMA BadAsks == \A a, x : IsAsk(a) => AsksFor([a EXCEPT !.bad = x], a.doc, a.gone, a.fails, x, a.tries, a.stop)
  BY DEF AsksFor, IsAsk, Fields

LEMMA MaasAsks ==
  ASSUME NEW d, NEW optional \in BOOLEAN
  PROVE  LET a == Maas(d, optional) IN
         IsAsk(a) /\ a.doc = d /\ a.gone \in {"skip", "no"} /\ a.fails = "no" /\ a.bad \in {"keep", "no"}
         /\ a.tries = 2 /\ a.stop = NoCodes
  BY GetAsks DEF AsksFor, IsAsk, Fields, Maas

LEMMA FromPortsAsks == \A d : AsksFor(FromPorts(d), d, "skip", "raise", "keep", Ports, Gone)
  BY GetAsks DEF AsksFor, IsAsk, Fields, FromPorts, Gone

LEMMA FrameAsks == \A d : AsksFor(Frame(d), d, "skip", "skip", "raise", 1, NoCodes)
  BY GetAsks, BadAsks DEF AsksFor, Frame

LEMMA BranchAsks == \A d : AsksFor(Branch(d), d, "forget", "forget", "keep", Retries + 1, NoCodes)
  BY RetriedAsks, MustAsks DEF AsksFor, Branch

\* What is in a sequence that is written down.
LEMMA InTuples ==
  /\ \A a : <<a>> \in Seq({a}) /\ ToSet(<<a>>) = {a}
  /\ \A a, b : <<a, b>> \in Seq({a, b}) /\ ToSet(<<a, b>>) = {a, b}
  /\ \A a, b, c : <<a, b, c>> \in Seq({a, b, c}) /\ ToSet(<<a, b, c>>) = {a, b, c}
  <1>1. \A a : <<a>> \in Seq({a}) /\ ToSet(<<a>>) = {a}
    BY DEF ToSet
  <1>2. \A a, b : <<a, b>> \in Seq({a, b}) /\ ToSet(<<a, b>>) = {a, b}
    BY DEF ToSet
  <1>3. \A a, b, c : <<a, b, c>> \in Seq({a, b, c}) /\ ToSet(<<a, b, c>>) = {a, b, c}
    BY DEF ToSet
  <1>4. QED
    BY <1>1, <1>2, <1>3

LEMMA Six ==
  ASSUME NEW a, NEW b, NEW c, NEW d, NEW e, NEW f
  PROVE  <<a, b, c, d, e, f>> \in Seq({a, b, c, d, e, f}) /\ ToSet(<<a, b, c, d, e, f>>) = {a, b, c, d, e, f}
  BY DEF ToSet

LEMMA Four ==
  ASSUME NEW a, NEW b, NEW c, NEW d
  PROVE  <<a, b, c, d>> \in Seq({a, b, c, d}) /\ ToSet(<<a, b, c, d>>) = {a, b, c, d}
  BY DEF ToSet

LEMMA Seven ==
  ASSUME NEW a, NEW b, NEW c, NEW d, NEW e, NEW f, NEW g
  PROVE  <<a, b, c, d, e, f, g>> \in Seq({a, b, c, d, e, f, g}) /\ ToSet(<<a, b, c, d, e, f, g>>) = {a, b, c, d, e, f, g}
  BY DEF ToSet

LEMMA OfItself == ASSUME NEW X, NEW s \in Seq(X) PROVE s \in Seq(ToSet(s))
  <1>1. s \in [1..Len(s) -> ToSet(s)] /\ Len(s) \in Nat
    <2>1. Len(s) \in Nat /\ DOMAIN s = 1..Len(s) /\ s = [i \in 1..Len(s) |-> s[i]]
      BY LenProperties
    <2>2. \A i \in 1..Len(s) : s[i] \in ToSet(s)
      BY <2>1 DEF ToSet
    <2>3. QED
      BY <2>1, <2>2
  <1>2. QED
    BY <1>1, SeqDef

\* Two sequences after another.
LEMMA Joined ==
  ASSUME NEW X, NEW Y, NEW s \in Seq(X), NEW t \in Seq(Y)
  PROVE  s \o t \in Seq(ToSet(s \o t)) /\ ToSet(s \o t) = ToSet(s) \cup ToSet(t)
  <1>1. s \in Seq(X \cup Y) /\ t \in Seq(X \cup Y)
    OBVIOUS
  <1>2. s \o t \in Seq(X \cup Y) /\ ToSet(s \o t) = ToSet(s) \cup ToSet(t)
    BY <1>1, InConcat
  <1>3. QED
    BY <1>2, OfItself

\* A request a crawl begins with: a tree is forgotten, what else is missing is not.
Trees == {"Ec2", "AliYun", "CloudStack", "OpenStack"}
Least(c) ==
    IF c \in Trees \cup {"DigitalOcean"} THEN Retries + 1
    ELSE IF c = "MAAS" THEN 2 ELSE IF c = "Scaleway" THEN Ports ELSE 1
\* How often it is made.
Often(c, a) ==
    /\ a.doc \in AskedOnce(c) => a.gone = "skip" /\ a.fails = "skip"
    /\ a.doc \notin AskedOnce(c) => a.tries \in Nat /\ a.tries >= Least(c)
    /\ a.stop \in {NoCodes, Gone} \/ (a.stop = TimedOut /\ c = "OpenStack")
    /\ a.gone = "skip" /\ a.fails # "skip" => "404" \in a.stop \/ c \in {"MAAS", "ConfigDrive"}
Fits(c, a) ==
    /\ a.bad \in {"keep", "no", "raise"}
    /\ \/ c \in Trees /\ a = Branch(Root)
       \/ a.doc # Root /\ a.gone \in {"skip", "no", "raise"} /\ a.fails \in {"skip", "no", "raise"}
    /\ a.doc # "saved_password" /\ (a.doc = "password" => c = "CloudStack")
    /\ a.doc \in Contents => a.gone = "no" /\ a.fails = "no"
    /\ c \in Strict => (a.fails \in {"no", "raise"} \/ c = "SmartOS") /\ a.doc \notin OpenStackDocs
    /\ Often(c, a)

LEMMA Numbered == Retries \in Nat /\ Retries >= 2 /\ Ports \in Nat /\ Ports >= 1 /\ Ports <= Retries + 1
  BY CrawlAssumption DEF Ports

LEMMA OnceIs ==
  /\ AskedOnce("Ec2") = {"version"} /\ AskedOnce("CloudStack") = {"password", "saved_password"}
  /\ \A c : c \notin {"Ec2", "CloudStack"} => AskedOnce(c) = {}
  BY DEF AskedOnce

LEMMA LeastIs ==
  /\ \A c \in Trees \cup {"DigitalOcean"} : Least(c) = Retries + 1
  /\ Least("MAAS") = 2 /\ Least("Scaleway") = Ports
  /\ \A c \in {"ConfigDrive", "GCE", "Bigstep", "SmartOS"} : Least(c) = 1
  BY DEF Least, Trees

LEMMA RootFits == \A c \in Trees : Fits(c, Branch(Root))
  <1>1. AsksFor(Branch(Root), Root, "forget", "forget", "keep", Retries + 1, NoCodes)
    BY BranchAsks
  <1>2. QED
    BY <1>1, OnceIs, LeastIs, Numbered DEF AsksFor, Fits, Often, Gone, Trees, Root, Contents, Strict, OpenStackDocs

LEMMA MaasFits ==
  MaasCrawl \in Seq(ToSet(MaasCrawl))
  /\ \A a \in ToSet(MaasCrawl) : Fits("MAAS", a) /\ a.doc # "version"
  <1> DEFINE a1 == Must(Retried("instance-id"), "no")
             a2 == Maas("instance-id", FALSE)
             a3 == Maas("local-hostname", FALSE)
             a4 == Maas("public-keys", TRUE)
             a5 == Maas("vendor-data", TRUE)
             a6 == Maas("user-data", TRUE)
  <1>1. AsksFor(a1, "instance-id", "no", "no", "keep", Retries + 1, NoCodes)
    BY RetriedAsks, MustAsks DEF AsksFor
  <1>2. ASSUME NEW d \in {"instance-id", "local-hostname", "public-keys", "vendor-data", "user-data"},
               NEW optional \in BOOLEAN
        PROVE  Fits("MAAS", Maas(d, optional)) /\ Maas(d, optional).doc # "version"
    BY MaasAsks, OnceIs, LeastIs, Numbered DEF Fits, Often, Gone, Root, Contents, Strict, OpenStackDocs, Trees
  <1>3. \A a \in {a1, a2, a3, a4, a5, a6} : Fits("MAAS", a) /\ a.doc # "version"
    <2>1. Fits("MAAS", a1) /\ a1.doc # "version"
      BY <1>1, OnceIs, LeastIs, Numbered DEF AsksFor, Fits, Often, Gone, Root, Contents, Strict, OpenStackDocs, Trees
    <2> HIDE DEF a1
    <2>2. QED
      BY <1>2, <2>1
  <1>4. MaasCrawl = <<a1, a2, a3, a4, a5, a6>>
    BY DEF MaasCrawl
  <1> HIDE DEF a1, a2, a3, a4, a5, a6
  <1>5. MaasCrawl \in Seq({a1, a2, a3, a4, a5, a6}) /\ ToSet(MaasCrawl) = {a1, a2, a3, a4, a5, a6}
    BY <1>4, Six
  <1>6. QED
    BY <1>3, <1>5

LEMMA CloudsFit ==
  /\ Fits("Ec2", UserData) /\ UserData.doc = "user-data" /\ Fits("AliYun", UserData) /\ Fits("CloudStack", UserData)
  /\ Fits("Ec2", Get("version")) /\ Fits("CloudStack", Password) /\ Password.doc = "password"
  /\ Fits("Ec2", Branch(Root)) /\ Fits("AliYun", Branch(Root)) /\ Fits("CloudStack", Branch(Root))
  /\ Branch(Root).doc = Root
  <1>1. AsksFor(UserData, "user-data", "skip", "skip", "keep", Retries + 1, Gone)
    BY RetriedAsks, StopAsks DEF AsksFor, UserData, Gone
  <1>2. /\ AsksFor(Get("version"), "version", "skip", "skip", "keep", 1, NoCodes)
        /\ AsksFor(Password, "password", "skip", "skip", "keep", 1, NoCodes)
    BY GetAsks DEF Password
  <1>3. AsksFor(Branch(Root), Root, "forget", "forget", "keep", Retries + 1, NoCodes)
    BY BranchAsks
  <1>4. /\ Fits("Ec2", UserData) /\ Fits("AliYun", UserData) /\ Fits("CloudStack", UserData)
        /\ UserData.doc = "user-data"
    BY <1>1, OnceIs, LeastIs, Numbered DEF AsksFor, Fits, Often, Gone, Root, Contents, Strict, OpenStackDocs, Trees
  <1>5. /\ Fits("Ec2", Get("version")) /\ Fits("CloudStack", Password) /\ Password.doc = "password"
    <2>1. Often("Ec2", Get("version"))
      BY <1>2, OnceIs DEF AsksFor, Often
    <2>2. Often("CloudStack", Password)
      BY <1>2, OnceIs DEF AsksFor, Often
    <2>3. QED
      BY <1>2, <2>1, <2>2 DEF AsksFor, Fits, Root, Contents, Strict, OpenStackDocs
  <1>6. /\ Fits("Ec2", Branch(Root)) /\ Fits("AliYun", Branch(Root)) /\ Fits("CloudStack", Branch(Root))
        /\ Branch(Root).doc = Root
    BY <1>3, RootFits DEF AsksFor, Trees
  <1>7. QED
    BY <1>4, <1>5, <1>6

LEMMA Ec2Fits == Ec2Crawl \in Seq(ToSet(Ec2Crawl)) /\ (\A a \in ToSet(Ec2Crawl) : Fits("Ec2", a))
                 /\ \A k \in DOMAIN Ec2Crawl : Ec2Crawl[k].doc = "version" => k = 1
  <1>1. Ec2Crawl = <<Get("version"), UserData, Branch(Root)>>
    BY DEF Ec2Crawl, Root
  <1>2. Ec2Crawl[2] = UserData /\ Ec2Crawl[3] = Branch(Root) /\ DOMAIN Ec2Crawl = {1, 2, 3}
    BY <1>1
  <1>3. UserData.doc # "version" /\ Branch(Root).doc # "version"
    BY CloudsFit DEF Root
  <1>4. \A k \in DOMAIN Ec2Crawl : Ec2Crawl[k].doc = "version" => k = 1
    BY <1>2, <1>3
  <1>5. Ec2Crawl \in Seq(ToSet(Ec2Crawl)) /\ ToSet(Ec2Crawl) = {Get("version"), UserData, Branch(Root)}
    BY <1>1, InTuples
  <1>6. QED
    BY <1>4, <1>5, CloudsFit

LEMMA AliYunFits ==
  AliYunCrawl \in Seq(ToSet(AliYunCrawl))
  /\ \A a \in ToSet(AliYunCrawl) : Fits("AliYun", a) /\ a.doc # "version"
  <1>1. AliYunCrawl = <<UserData, Branch(Root)>>
    BY DEF AliYunCrawl, Root
  <1>2. QED
    BY <1>1, CloudsFit, InTuples DEF Root

LEMMA CloudStackFits ==
  CloudStackCrawl \in Seq(ToSet(CloudStackCrawl))
  /\ \A a \in ToSet(CloudStackCrawl) : Fits("CloudStack", a) /\ a.doc # "version"
  <1>1. CloudStackCrawl = <<UserData, Branch(Root), Password>>
    BY DEF CloudStackCrawl, Root
  <1>2. CloudStackCrawl \in Seq(ToSet(CloudStackCrawl)) /\ ToSet(CloudStackCrawl) = {UserData, Branch(Root), Password}
    BY <1>1, InTuples
  <1>3. QED
    BY <1>2, CloudsFit DEF Root

LEMMA ScalewayFits ==
  ScalewayCrawl \in Seq(ToSet(ScalewayCrawl))
  /\ \A a \in ToSet(ScalewayCrawl) : Fits("Scaleway", a) /\ a.doc # "version"
  <1> DEFINE must == Must(Retried("conf"), "raise")
             conf == [must EXCEPT !.bad = "raise"]
  <1>1. AsksFor(must, "conf", "raise", "raise", "keep", Retries + 1, NoCodes)
    BY RetriedAsks, MustAsks DEF AsksFor
  <1> HIDE DEF must
  <1>2. AsksFor(conf, "conf", "raise", "raise", "raise", Retries + 1, NoCodes)
    BY <1>1, BadAsks DEF AsksFor
  <1>3. AsksFor(FromPorts("user-data"), "user-data", "skip", "raise", "keep", Ports, Gone)
        /\ AsksFor(FromPorts("vendor-data"), "vendor-data", "skip", "raise", "keep", Ports, Gone)
    BY FromPortsAsks
  <1>4. ScalewayCrawl = <<conf, FromPorts("user-data"), FromPorts("vendor-data")>>
    BY DEF ScalewayCrawl, must
  <1> HIDE DEF conf
  <1>5. Fits("Scaleway", conf) /\ conf.doc # "version"
    BY <1>2, OnceIs, LeastIs, Numbered DEF AsksFor, Fits, Often, Gone, Root, Contents, Strict, OpenStackDocs, Trees
  <1>6. /\ Fits("Scaleway", FromPorts("user-data")) /\ Fits("Scaleway", FromPorts("vendor-data"))
        /\ FromPorts("user-data").doc # "version" /\ FromPorts("vendor-data").doc # "version"
    BY <1>3, OnceIs, LeastIs, Numbered DEF AsksFor, Fits, Often, Gone, Root, Contents, Strict, OpenStackDocs, Trees
  <1>7. ScalewayCrawl \in Seq(ToSet(ScalewayCrawl))
        /\ ToSet(ScalewayCrawl) = {conf, FromPorts("user-data"), FromPorts("vendor-data")}
    BY <1>4, InTuples
  <1>8. QED
    BY <1>5, <1>6, <1>7

LEMMA DigitalOceanFits ==
  DigitalOceanCrawl \in Seq(ToSet(DigitalOceanCrawl))
  /\ \A a \in ToSet(DigitalOceanCrawl) : Fits("DigitalOcean", a) /\ a.doc # "version"
  <1> DEFINE must == Must(Retried("v1.json"), "raise")
             ask == [must EXCEPT !.bad = "raise"]
  <1>1. AsksFor(must, "v1.json", "raise", "raise", "keep", Retries + 1, NoCodes)
    BY RetriedAsks, MustAsks DEF AsksFor
  <1>2. DigitalOceanCrawl = <<ask>>
    BY DEF DigitalOceanCrawl
  <1> HIDE DEF must
  <1>3. AsksFor(ask, "v1.json", "raise", "raise", "raise", Retries + 1, NoCodes)
    BY <1>1, BadAsks DEF AsksFor
  <1> HIDE DEF ask
  <1>4. Fits("DigitalOcean", ask) /\ ask.doc # "version"
    BY <1>3, OnceIs, LeastIs, Numbered DEF AsksFor, Fits, Often, Gone, Root, Contents, Strict, OpenStackDocs, Trees
  <1>5. QED
    BY <1>2, <1>4, InTuples

LEMMA BigstepFits ==
  BigstepCrawl \in Seq(ToSet(BigstepCrawl))
  /\ \A a \in ToSet(BigstepCrawl) : Fits("Bigstep", a) /\ a.doc # "version"
  <1> DEFINE must == Must(Get("url"), "raise")
             ask == [must EXCEPT !.bad = "raise"]
  <1>1. AsksFor(must, "url", "raise", "raise", "keep", 1, NoCodes)
    BY GetAsks, MustAsks DEF AsksFor
  <1>2. BigstepCrawl = <<ask>>
    BY DEF BigstepCrawl
  <1> HIDE DEF must
  <1>3. AsksFor(ask, "url", "raise", "raise", "raise", 1, NoCodes)
    BY <1>1, BadAsks DEF AsksFor
  <1> HIDE DEF ask
  <1>4. Fits("Bigstep", ask) /\ ask.doc # "version"
    BY <1>3, OnceIs, LeastIs, Numbered DEF AsksFor, Fits, Often, Gone, Root, Contents, Strict, OpenStackDocs, Trees
  <1>5. QED
    BY <1>2, <1>4, InTuples

LEMMA SmartOSFits ==
  SmartOSCrawl \in Seq(ToSet(SmartOSCrawl))
  /\ \A a \in ToSet(SmartOSCrawl) : Fits("SmartOS", a) /\ a.doc # "version"
  <1> DEFINE a1 == Frame("sdc:uuid")
             a2 == Frame("hostname")
             a3 == Frame("cloud-init:user-data")
             a4 == Frame("sdc:nics")
  <1>1. ASSUME NEW d \in {"sdc:uuid", "hostname", "cloud-init:user-data", "sdc:nics"}
        PROVE  Fits("SmartOS", Frame(d)) /\ Frame(d).doc # "version"
    BY FrameAsks, OnceIs, LeastIs, Numbered
    DEF AsksFor, Fits, Often, Gone, Root, Contents, Strict, OpenStackDocs, Trees
  <1>2. \A a \in {a1, a2, a3, a4} : Fits("SmartOS", a) /\ a.doc # "version"
    BY <1>1
  <1>3. SmartOSCrawl = <<a1, a2, a3, a4>>
    BY DEF SmartOSCrawl
  <1> HIDE DEF a1, a2, a3, a4
  <1>4. SmartOSCrawl \in Seq({a1, a2, a3, a4}) /\ ToSet(SmartOSCrawl) = {a1, a2, a3, a4}
    BY <1>3, Four
  <1>5. QED
    BY <1>2, <1>4

\* What GCE may lack.
LEMMA MayBeGone ==
  ASSUME NEW d, d \notin {Root, "saved_password", "password", "version"} \cup Contents
  PROVE  Fits("GCE", Get(d)) /\ Get(d).doc # "version"
  <1>1. AsksFor(Get(d), d, "skip", "skip", "keep", 1, NoCodes)
    BY GetAsks
  <1>2. Often("GCE", Get(d))
    BY <1>1, OnceIs, LeastIs DEF AsksFor, Often
  <1>3. QED
    BY <1>1, <1>2 DEF AsksFor, Fits, Strict, OpenStackDocs

LEMMA GceFits ==
  GceCrawl \in Seq(ToSet(GceCrawl))
  /\ \A a \in ToSet(GceCrawl) : Fits("GCE", a) /\ a.doc # "version"
  <1> DEFINE a1 == Must(Get("instance-id"), "no")
             a2 == Must(Get("zone"), "no")
             a3 == Must(Get("hostname"), "no")
             a4 == Get("project sshKeys")
             a5 == Get("instance ssh-keys")
             a6 == Get("user-data")
             a7 == Get("user-data-encoding")
  <1>1. ASSUME NEW d \in {"instance-id", "zone", "hostname"}
        PROVE  Fits("GCE", Must(Get(d), "no")) /\ Must(Get(d), "no").doc # "version"
    <2>1. AsksFor(Must(Get(d), "no"), d, "no", "no", "keep", 1, NoCodes)
      BY GetAsks, MustAsks DEF AsksFor
    <2>2. QED
      BY <2>1, OnceIs, LeastIs, Numbered DEF AsksFor, Fits, Often, Gone, Root, Contents, Strict, OpenStackDocs, Trees
  <1>2. ASSUME NEW d \in {"project sshKeys", "instance ssh-keys", "user-data", "user-data-encoding"}
        PROVE  Fits("GCE", Get(d)) /\ Get(d).doc # "version"
    <2>1. d \notin {Root, "saved_password", "password", "version"} \cup Contents
      BY Zenon DEF Root, Contents
    <2>2. QED
      BY <2>1, MayBeGone, Zenon
  <1>3. \A a \in {a1, a2, a3, a4, a5, a6, a7} : Fits("GCE", a) /\ a.doc # "version"
    BY <1>1, <1>2
  <1>4. GceCrawl = <<a1, a2, a3, a4, a5, a6, a7>>
    BY DEF GceCrawl
  <1> HIDE DEF a1, a2, a3, a4, a5, a6, a7
  <1>5. GceCrawl \in Seq({a1, a2, a3, a4, a5, a6, a7}) /\ ToSet(GceCrawl) = {a1, a2, a3, a4, a5, a6, a7}
    BY <1>4, Seven
  <1>6. QED
    BY <1>3, <1>5

\* Of OpenStack, by urls or from files.
LEMMA ReadV2Fits ==
  ASSUME NEW c \in {"OpenStack", "ConfigDrive"}, NEW read, NEW offer,
         IsAsk(read), read.gone = "skip", read.fails = "skip", read.bad = "keep",
         IF c = "OpenStack" THEN read.tries = Retries + 1 /\ read.stop = TimedOut
                            ELSE read.tries = 1 /\ read.stop = NoCodes
  PROVE  ReadV2(read, offer) \in Seq(ToSet(ReadV2(read, offer)))
         /\ \A a \in ToSet(ReadV2(read, offer)) : Fits(c, a) /\ a.doc # "version"
  <1> DEFINE of(doc) == [read EXCEPT !.doc = doc]
             json(doc) == [of(doc) EXCEPT !.bad = "no"]
             content(doc) == IF doc \in offer THEN <<Must(of(doc), "no")>> ELSE <<>>
             Good(a) == Fits(c, a) /\ a.doc # "version"
             a1 == of("versions")
             a2 == Must(json("meta_data.json"), "no")
             a3 == of("user_data")
             a4 == json("vendor_data.json")
             a5 == json("network_data.json")
             b1 == content("content/0000")
             b2 == content("content/network_config")
  <1>1. ReadV2(read, offer) = <<a1, a2, a3, a4, a5>> \o b1 \o b2
    BY DEF ReadV2
  <1>2. \A doc : AsksFor(of(doc), doc, "skip", "skip", "keep", read.tries, read.stop)
    BY DocAsks DEF AsksFor
  <1> HIDE DEF of
  <1>3. ASSUME NEW doc PROVE AsksFor(json(doc), doc, "skip", "skip", "no", read.tries, read.stop)
    <2>1. AsksFor(of(doc), doc, "skip", "skip", "keep", read.tries, read.stop)
      BY <1>2
    <2> DEFINE a == of(doc)
    <2>2. json(doc) = [a EXCEPT !.bad = "no"]
      OBVIOUS
    <2> HIDE DEF a, json
    <2>3. IsAsk(a) /\ a.doc = doc /\ a.gone = "skip" /\ a.fails = "skip" /\ a.tries = read.tries /\ a.stop = read.stop
      BY <2>1 DEF AsksFor, a
    <2>4. QED
      BY <2>2, <2>3, BadAsks DEF AsksFor
  <1>4. \A doc : AsksFor(Must(of(doc), "no"), doc, "no", "no", "keep", read.tries, read.stop)
    BY <1>2, MustAsks DEF AsksFor
  <1> HIDE DEF json
  <1>5. AsksFor(a2, "meta_data.json", "no", "no", "no", read.tries, read.stop)
    BY <1>3, MustAsks DEF AsksFor
  <1>6. c \notin Strict
    BY DEF Strict
  <1>7. Good(a1) /\ Good(a3)
    BY <1>2, <1>6, OnceIs, LeastIs, Numbered DEF AsksFor, Fits, Often, Gone, Root, Contents, Strict, Trees
  <1>8. Good(a4) /\ Good(a5)
    BY <1>3, <1>6, OnceIs, LeastIs, Numbered DEF AsksFor, Fits, Often, Gone, Root, Contents, Strict, Trees
  <1>9. Good(a2)
    BY <1>5, <1>6, OnceIs, LeastIs, Numbered DEF AsksFor, Fits, Often, Gone, Root, Contents, Strict, Trees
  <1>10. \A doc \in Contents : Good(Must(of(doc), "no"))
    BY <1>4, <1>6, OnceIs, LeastIs, Numbered DEF AsksFor, Fits, Often, Gone, Root, Contents, Strict, Trees
  <1> DEFINE G == {a1, a2, a3, a4, a5} \cup {Must(of(doc), "no") : doc \in Contents}
  <1>11. \A a \in G : Good(a)
    BY <1>7, <1>8, <1>9, <1>10
  <1>12. b1 \in Seq(G) /\ b2 \in Seq(G)
    <2>1. ASSUME NEW doc \in Contents PROVE content(doc) \in Seq(G)
      <3>1. Must(of(doc), "no") \in G
        OBVIOUS
      <3> HIDE DEF G
      <3>2. <<Must(of(doc), "no")>> \in Seq(G) /\ <<>> \in Seq(G)
        BY <3>1
      <3>3. QED
        BY <3>2
    <2>2. QED
      BY <2>1 DEF Contents
  <1> HIDE DEF a1, a2, a3, a4, a5, b1, b2, Good
  <1>13. <<a1, a2, a3, a4, a5>> \in Seq(G)
    OBVIOUS
  <1> HIDE DEF G
  <1>14. ReadV2(read, offer) \in Seq(G)
    BY <1>1, <1>12, <1>13, InConcat
  <1>15. \A a \in ToSet(ReadV2(read, offer)) : a \in G
    BY <1>14 DEF ToSet
  <1>16. ReadV2(read, offer) \in Seq(ToSet(ReadV2(read, offer)))
    BY <1>14, OfItself
  <1>17. QED
    BY <1>11, <1>15, <1>16 DEF Good

LEMMA OpenStackFits ==
  ASSUME NEW offer
  PROVE  OpenStackCrawl(offer) \in Seq(ToSet(OpenStackCrawl(offer)))
         /\ \A a \in ToSet(OpenStackCrawl(offer)) : Fits("OpenStack", a) /\ a.doc # "version"
  <1> DEFINE s == ReadV2(FromUrl, offer)
             t == <<Branch(Root)>>
  <1>1. /\ IsAsk(FromUrl) /\ FromUrl.gone = "skip" /\ FromUrl.fails = "skip" /\ FromUrl.bad = "keep"
        /\ FromUrl.tries = Retries + 1 /\ FromUrl.stop = TimedOut
    <2> DEFINE read == Retried("")
    <2>1. /\ IsAsk(read) /\ read.gone = "skip" /\ read.fails = "skip" /\ read.bad = "keep"
          /\ read.tries = Retries + 1
      BY RetriedAsks DEF AsksFor
    <2> HIDE DEF read
    <2>2. FromUrl = [read EXCEPT !.stop = TimedOut]
      BY DEF FromUrl, read, TimedOut
    <2>3. QED
      BY <2>1, <2>2, StopAsks DEF AsksFor
  <1>2. s \in Seq(ToSet(s)) /\ \A a \in ToSet(s) : Fits("OpenStack", a) /\ a.doc # "version"
    BY <1>1, ReadV2Fits
  <1>3. /\ t \in Seq({Branch(Root)}) /\ ToSet(t) = {Branch(Root)}
        /\ Fits("OpenStack", Branch(Root)) /\ Branch(Root).doc # "version"
    BY InTuples, RootFits, CloudsFit DEF Trees, Root
  <1>4. OpenStackCrawl(offer) = s \o t
    BY DEF OpenStackCrawl, Root
  <1> HIDE DEF s, t
  <1>5. QED
    BY <1>2, <1>3, <1>4, Joined

LEMMA ConfigDriveFits ==
  ASSUME NEW offer
  PROVE  ConfigDriveCrawl(offer) \in Seq(ToSet(ConfigDriveCrawl(offer)))
         /\ \A a \in ToSet(ConfigDriveCrawl(offer)) : Fits("ConfigDrive", a) /\ a.doc # "version"
  <1> DEFINE read == Get("")
             s == ReadV2(read, offer)
             json == [Get("ec2/latest/meta-data.json") EXCEPT !.fails = "no", !.bad = "no"]
             t == <<json>>
  <1>1. /\ IsAsk(read) /\ read.gone = "skip" /\ read.fails = "skip" /\ read.bad = "keep"
        /\ read.tries = 1 /\ read.stop = NoCodes
    BY GetAsks DEF AsksFor
  <1> HIDE DEF read
  <1>2. s \in Seq(ToSet(s)) /\ \A a \in ToSet(s) : Fits("ConfigDrive", a) /\ a.doc # "version"
    BY <1>1, ReadV2Fits
  <1>3. /\ json.doc = "ec2/latest/meta-data.json" /\ json.gone = "skip" /\ json.fails = "no" /\ json.bad = "no"
        /\ json.tries = 1 /\ json.stop = NoCodes
    BY GetAsks DEF AsksFor, IsAsk, Fields
  <1>4. Fits("ConfigDrive", json) /\ json.doc # "version"
    BY <1>3, OnceIs, LeastIs, Numbered DEF Fits, Often, Gone, Root, Contents, Strict, Trees
  <1>5. ConfigDriveCrawl(offer) = s \o t
    BY DEF ConfigDriveCrawl, read
  <1> HIDE DEF json
  <1>6. t \in Seq({json}) /\ ToSet(t) = {json}
    BY InTuples
  <1> HIDE DEF s, t
  <1>7. QED
    BY <1>2, <1>4, <1>5, <1>6, Joined

LEMMA RequestsFit ==
  ASSUME NEW c \in Crawlers, NEW o \in Offers[c]
  PROVE  /\ Requests(c, o) \in Seq(ToSet(Requests(c, o)))
         /\ \A a \in ToSet(Requests(c, o)) : Fits(c, a)
         /\ \A k \in DOMAIN Requests(c, o) : Requests(c, o)[k].doc = "version" => k = 1
  <1> DEFINE s == Requests(c, o)
  <1>1. CASE c = "Ec2"
    BY <1>1, Ec2Fits DEF Requests
  <1>2. ASSUME c # "Ec2" PROVE s \in Seq(ToSet(s)) /\ \A a \in ToSet(s) : Fits(c, a) /\ a.doc # "version"
    <2>1. CASE c = "AliYun" BY <2>1, AliYunFits DEF Requests
    <2>2. CASE c = "OpenStack" BY <2>2, OpenStackFits DEF Requests
    <2>3. CASE c = "ConfigDrive" BY <2>3, ConfigDriveFits DEF Requests
    <2>4. CASE c = "CloudStack" BY <2>4, CloudStackFits DEF Requests
    <2>5. CASE c = "MAAS" BY <2>5, MaasFits DEF Requests
    <2>6. CASE c = "Scaleway" BY <2>6, ScalewayFits DEF Requests
    <2>7. CASE c = "GCE" BY <2>7, GceFits DEF Requests
    <2>8. CASE c = "Bigstep" BY <2>8, BigstepFits DEF Requests
    <2>9. CASE c = "SmartOS" BY <2>9, SmartOSFits DEF Requests
    <2>10. CASE c = "DigitalOcean" BY <2>10, DigitalOceanFits DEF Requests
    <2>11. c \in {"Ec2", "AliYun", "OpenStack", "ConfigDrive", "CloudStack", "GCE"} \cup Strict
      BY CrawlAssumption
    <2>12. QED
      BY <1>2, <2>1, <2>2, <2>3, <2>4, <2>5, <2>6, <2>7, <2>8, <2>9, <2>10, <2>11, Zenon DEF Strict
  <1>3. CASE c # "Ec2"
    <2>1. \A k \in DOMAIN s : s[k] \in ToSet(s)
      BY DEF ToSet
    <2>2. QED
      BY <1>2, <1>3, <2>1
  <1>4. QED
    BY <1>1, <1>3

----------------------------------------------------------------------------
(* How a request of a crawl may end.                                        *)
Minded(c, a) ==
    /\ a.bad \in {"keep", "no", "raise"}
    /\ a.gone \in {"skip", "forget", "no", "raise"} /\ a.fails \in {"skip", "forget", "no", "raise"}
    /\ a.doc \in TreeDocs \cup {"saved_password"} => a.gone = "forget" /\ a.fails = "forget" /\ a.bad = "keep"
    /\ a.gone = "forget" \/ a.fails = "forget" => a.doc \in TreeDocs \cup {"saved_password"}
    /\ a.doc \in Contents => a.gone = "no" /\ a.fails = "no"
    /\ c \in Strict =>
         (a.fails \in {"no", "raise"} \/ c = "SmartOS")
         /\ a.doc \notin OpenStackDocs \cup TreeDocs \cup {"password", "saved_password"}

LEMMA AcknowledgeAsks == AsksFor(Acknowledge, "saved_password", "forget", "forget", "keep", 1, NoCodes)
  BY GetAsks, MustAsks DEF AsksFor, Acknowledge

\* The documents of a tree are no others.
LEMMA TreeApart ==
  /\ Root \in TreeDocs /\ "version" \notin TreeDocs /\ "password" \notin TreeDocs /\ "saved_password" \notin TreeDocs
  /\ TreeDocs \cap Contents = {}
  BY CrawlAssumption DEF TreeDocs

LEMMA DocIn == ASSUME NEW s, NEW a \in ToSet(s) PROVE a.doc \in DocsOf(s)
  BY DEF ToSet, DocsOf

LEMMA AsksMinded ==
  ASSUME crawler \in Crawlers, published \in Offers[crawler], NEW a \in AllAsks
  PROVE  Minded(crawler, a)
  <1> DEFINE s == Requests(crawler, published)
  <1>1. \A b \in ToSet(s) : Fits(crawler, b) /\ b.doc \in DocsOf(s)
    BY RequestsFit, DocIn
  <1>2. DocsOf(s) \cap TreeDocs \subseteq {Root}
    BY CrawlAssumption
  <1>3. \A d : AsksFor(Branch(d), d, "forget", "forget", "keep", Retries + 1, NoCodes)
    BY BranchAsks
  <1>4. Root \in DocsOf(s) \/ "password" \in DocsOf(s) => crawler \notin Strict
    <2>1. \A b \in ToSet(s) : b.doc \in {Root, "password"} => crawler \in Trees \cup {"CloudStack"}
      BY <1>1 DEF Fits, Root
    <2>2. QED
      BY <2>1 DEF DocsOf, ToSet, Trees, Strict
  <1> HIDE DEF s
  <1>5. CASE a \in ToSet(s)
    <2>1. Fits(crawler, a) /\ (a.doc \in TreeDocs => a = Branch(Root))
      BY <1>1, <1>2, <1>5 DEF Fits
    <2>2. QED
      <3>1. CASE a = Branch(Root) /\ crawler \in Trees
        BY <3>1, <1>3, TreeApart DEF Minded, AsksFor, Trees, Strict
      <3>2. CASE a.doc # Root /\ a.doc \notin TreeDocs
        BY <2>1, <3>2, <1>3, TreeApart DEF Fits, Minded, AsksFor, Strict
      <3>3. QED
        BY <2>1, <1>1, <1>2, <1>5, <3>1, <3>2 DEF Fits
  <1>6. CASE Root \in DocsOf(s) /\ \E d \in TreeDocs : a = Branch(d)
    BY <1>3, <1>4, <1>6, TreeApart DEF Minded, AsksFor
  <1>7. CASE "password" \in DocsOf(s) /\ a = Acknowledge
    BY <1>4, <1>7, AcknowledgeAsks, TreeApart DEF Minded, AsksFor, Contents, OpenStackDocs
  <1>8. QED
    BY <1>5, <1>6, <1>7 DEF AllAsks, s

----------------------------------------------------------------------------
(* What is left of the requests of a crawl.                                 *)
LEMMA DocsAre ==
  ASSUME NEW s
  PROVE  DocsOf(s) = {a.doc : a \in ToSet(s)}
  BY DEF DocsOf, ToSet

\* Requests after the first.
LEMMA TailAsks ==
  ASSUME NEW X, NEW s \in Seq(X), s # <<>>
  PROVE  /\ Tail(s) \in Seq(X) /\ Head(s) \in X
         /\ DocsOf(s) = {Head(s).doc} \cup DocsOf(Tail(s))
         /\ \A k \in DOMAIN Tail(s) : k + 1 \in DOMAIN s /\ Tail(s)[k] = s[k + 1] /\ k + 1 # 1
  <1>1. /\ Tail(s) \in Seq(X) /\ Head(s) \in X /\ Head(s) = s[1] /\ Len(s) \in Nat /\ Len(s) >= 1
        /\ Len(Tail(s)) = Len(s) - 1 /\ DOMAIN s = 1..Len(s) /\ DOMAIN Tail(s) = 1..(Len(s) - 1)
        /\ \A k \in 1..(Len(s) - 1) : Tail(s)[k] = s[k + 1]
    BY HeadTailProperties, LenProperties
  <1>2. \A k \in DOMAIN Tail(s) : k + 1 \in DOMAIN s /\ Tail(s)[k] = s[k + 1] /\ k + 1 # 1
    BY <1>1
  <1>3. \A k \in DOMAIN s : k = 1 \/ (k - 1 \in DOMAIN Tail(s) /\ Tail(s)[k - 1] = s[k])
    BY <1>1
  <1> DEFINE t == Tail(s)
  <1>4. \A x : x \in DocsOf(s) <=> x \in {Head(s).doc} \cup DocsOf(t)
    <2>1. \A x : x \in DocsOf(s) <=> \E k \in DOMAIN s : x = s[k].doc
      BY DEF DocsOf
    <2>2. \A x : x \in DocsOf(t) <=> \E k \in DOMAIN t : x = t[k].doc
      BY DEF DocsOf
    <2>3. 1 \in DOMAIN s /\ Head(s) = s[1]
      BY <1>1
    <2>4. \A k \in DOMAIN t : k + 1 \in DOMAIN s /\ t[k] = s[k + 1]
      BY <1>2
    <2>5. \A k \in DOMAIN s : k = 1 \/ (k - 1 \in DOMAIN t /\ t[k - 1] = s[k])
      BY <1>3
    <2> HIDE DEF t
    <2>6. ASSUME NEW x \in DocsOf(s) PROVE x \in {Head(s).doc} \cup DocsOf(t)
      <3>1. PICK k \in DOMAIN s : x = s[k].doc
        BY <2>1
      <3>2. QED
        BY <3>1, <2>2, <2>3, <2>5
    <2>7. ASSUME NEW x \in {Head(s).doc} \cup DocsOf(t) PROVE x \in DocsOf(s)
      BY <2>1, <2>2, <2>3, <2>4
    <2>8. QED
      BY <2>6, <2>7
  <1>5. QED
    BY <1>1, <1>2, <1>4

\* Requests without those for some documents.
LEMMA WithoutAre ==
  ASSUME NEW X, NEW s \in Seq(X), NEW docs
  PROVE  Without(s, docs) \in Seq(X) /\ DocsOf(Without(s, docs)) = DocsOf(s) \ docs
  <1> DEFINE each == [k \in DOMAIN s |-> IF s[k].doc \in docs THEN <<>> ELSE <<s[k]>>]
  <1>1. \A k \in DOMAIN s : each[k] \in Seq(X) /\ \A x : x \in ToSet(each[k]) <=> x = s[k] /\ s[k].doc \notin docs
    <2> SUFFICES ASSUME NEW k \in DOMAIN s
                 PROVE  each[k] \in Seq(X) /\ \A x : x \in ToSet(each[k]) <=> x = s[k] /\ s[k].doc \notin docs
      OBVIOUS
    <2>1. s[k] \in X
      OBVIOUS
    <2>2. CASE s[k].doc \in docs
      <3>1. each[k] = <<>>
        BY <2>2
      <3>2. <<>> \in Seq(X) /\ ToSet(<<>>) = {}
        BY DEF ToSet
      <3>3. QED
        BY <2>2, <3>1, <3>2
    <2>3. CASE s[k].doc \notin docs
      <3>1. each[k] = <<s[k]>>
        BY <2>3
      <3>2. <<s[k]>> \in Seq(X) /\ ToSet(<<s[k]>>) = {s[k]}
        BY <2>1, InTuples
      <3>3. QED
        BY <2>3, <3>1, <3>2
    <2>4. QED
      BY <2>2, <2>3
  <1>2. each \in Seq(Seq(X))
    <2>1. Len(s) \in Nat /\ DOMAIN s = 1..Len(s)
      BY LenProperties
    <2>2. each \in [1..Len(s) -> Seq(X)]
      BY <1>1, <2>1
    <2>3. QED
      BY <2>1, <2>2, SeqDef
  <1>3. DOMAIN each = DOMAIN s /\ Without(s, docs) = FlattenSeq(each)
    BY DEF Without
  <1> HIDE DEF each
  <1>4. Without(s, docs) \in Seq(X)
        /\ \A x : x \in ToSet(Without(s, docs)) <=> \E k \in DOMAIN s : x = s[k] /\ s[k].doc \notin docs
    BY <1>1, <1>2, <1>3, InFlatten
  <1>5. \A d : d \in DocsOf(Without(s, docs)) <=> d \in DocsOf(s) \ docs
    <2>1. \A d : d \in DocsOf(Without(s, docs)) <=> \E a \in ToSet(Without(s, docs)) : d = a.doc
      BY DocsAre
    <2>2. \A d : d \in DocsOf(s) \ docs <=> \E k \in DOMAIN s : d = s[k].doc /\ d \notin docs
      BY DEF DocsOf
    <2>3. QED
      BY <1>4, <2>1, <2>2
  <1>6. QED
    BY <1>4, <1>5

\* What a listing adds, of either kind.
Branches == {Branch(d) : d \in TreeDocs}
LEMMA ListedAre ==
  ASSUME NEW path \in DOMAIN Tree, NEW kind
  PROVE  Listed(path, kind) \in Seq(Branches)
         /\ \A a : a \in ToSet(Listed(path, kind))
                     <=> \E e \in ToSet(Tree[path]) : e.kind = kind /\ e.name \notin LeftOut /\ a = Branch(e.path)
  <1> DEFINE s == Tree[path]
             Kept(k) == s[k].kind = kind /\ s[k].name \notin LeftOut
             each == [k \in DOMAIN s |-> IF Kept(k) THEN <<Branch(s[k].path)>> ELSE <<>>]
  <1>1. s \in Seq(Entries) /\ \A e \in Entries : e.path \in TreeDocs
    BY CrawlAssumption DEF TreeDocs
  <1>2. \A k \in DOMAIN s : s[k] \in Entries
    BY <1>1
  <1>3. \A k \in DOMAIN s :
          each[k] \in Seq(Branches) /\ \A x : x \in ToSet(each[k]) <=> x = Branch(s[k].path) /\ Kept(k)
    <2> SUFFICES ASSUME NEW k \in DOMAIN s
                 PROVE  each[k] \in Seq(Branches) /\ \A x : x \in ToSet(each[k]) <=> x = Branch(s[k].path) /\ Kept(k)
      OBVIOUS
    <2>1. Branch(s[k].path) \in Branches
      BY <1>1, <1>2 DEF Branches
    <2>2. CASE ~Kept(k)
      <3>1. each[k] = <<>>
        BY <2>2
      <3>2. <<>> \in Seq(Branches) /\ ToSet(<<>>) = {}
        BY DEF ToSet
      <3>3. QED
        BY <2>2, <3>1, <3>2
    <2>3. CASE Kept(k)
      <3>1. each[k] = <<Branch(s[k].path)>>
        BY <2>3
      <3>2. <<Branch(s[k].path)>> \in Seq(Branches) /\ ToSet(<<Branch(s[k].path)>>) = {Branch(s[k].path)}
        BY <2>1, InTuples
      <3>3. QED
        BY <2>3, <3>1, <3>2
    <2>4. QED
      BY <2>2, <2>3
  <1>4. each \in Seq(Seq(Branches))
    <2>1. Len(s) \in Nat /\ DOMAIN s = 1..Len(s)
      BY <1>1, LenProperties
    <2>2. each \in [1..Len(s) -> Seq(Branches)]
      BY <1>3, <2>1
    <2>3. QED
      BY <2>1, <2>2, SeqDef
  <1>5. DOMAIN each = DOMAIN s /\ Listed(path, kind) = FlattenSeq(each)
    BY DEF Listed
  <1> HIDE DEF each
  <1>6. Listed(path, kind) \in Seq(Branches)
        /\ \A x : x \in ToSet(Listed(path, kind)) <=> \E k \in DOMAIN s : x = Branch(s[k].path) /\ Kept(k)
    BY <1>3, <1>4, <1>5, InFlatten
  <1>7. QED
    BY <1>6 DEF ToSet

\* What comes with a document.
LEMMA BelowAre ==
  ASSUME NEW path
  PROVE  /\ Below(path) \in Seq(Branches)
         /\ path \notin DOMAIN Tree => Below(path) = <<>>
         /\ path \in DOMAIN Tree =>
              DocsOf(Below(path)) = {e.path : e \in {f \in ToSet(Tree[path]) : f.name \notin LeftOut}}
  <1>1. CASE path \notin DOMAIN Tree
    <2>1. Below(path) = <<>>
      BY <1>1 DEF Below
    <2>2. <<>> \in Seq(Branches)
      OBVIOUS
    <2>3. QED
      BY <1>1, <2>1, <2>2
  <1>2. CASE path \in DOMAIN Tree
    <2> DEFINE dirs == Listed(path, "dir")
               leaves == Listed(path, "leaf")
               all == dirs \o leaves
               listed == {f \in ToSet(Tree[path]) : f.name \notin LeftOut}
    <2>1. dirs \in Seq(Branches) /\ \A a : a \in ToSet(dirs)
                 <=> \E e \in ToSet(Tree[path]) : e.kind = "dir" /\ e.name \notin LeftOut /\ a = Branch(e.path)
      BY <1>2, ListedAre
    <2>2. leaves \in Seq(Branches) /\ \A a : a \in ToSet(leaves)
                 <=> \E e \in ToSet(Tree[path]) : e.kind = "leaf" /\ e.name \notin LeftOut /\ a = Branch(e.path)
      BY <1>2, ListedAre
    <2>3. Below(path) = all
      BY <1>2 DEF Below
    <2>4. \A e \in ToSet(Tree[path]) : e.kind = "leaf" \/ e.kind = "dir"
      <3>1. ToSet(Tree[path]) \subseteq Entries
        BY <1>2 DEF Entries
      <3>2. QED
        BY <3>1, CrawlAssumption
    <2> HIDE DEF dirs, leaves
    <2>5. all \in Seq(Branches) /\ ToSet(all) = ToSet(dirs) \cup ToSet(leaves)
      BY <2>1, <2>2, InConcat
    <2> HIDE DEF all
    <2>6. \A a : a \in ToSet(all) <=> \E e \in listed : a = Branch(e.path)
      BY <2>1, <2>2, <2>4, <2>5
    <2>7. \A d : Branch(d).doc = d
      BY BranchAsks DEF AsksFor
    <2>8. \A x : x \in DocsOf(all) <=> x \in {e.path : e \in listed}
      <3>1. DocsOf(all) = {a.doc : a \in ToSet(all)}
        BY DocsAre
      <3> HIDE DEF listed
      <3>2. QED
        BY <2>6, <2>7, <3>1
    <2>9. QED
      BY <1>2, <2>3, <2>5, <2>8
  <1>3. QED
    BY <1>1, <1>2

LEMMA CrawlStart == ASSUME CrawlInit PROVE CrawlInv
  <1> DEFINE s == Requests(crawler, published)
  <1>1. crawler \in Crawlers /\ published \in Offers[crawler] /\ asks = s /\ got = {} /\ outcome = "crawling"
    BY DEF CrawlInit
  <1>2. /\ s \in Seq(ToSet(s)) /\ \A a \in ToSet(s) : Fits(crawler, a)
        /\ \A k \in DOMAIN s : s[k].doc = "version" => k = 1
    BY <1>1, RequestsFit
  <1>3. DocsOf(s) \cap TreeDocs \subseteq {Root} /\ published \cap Contents \subseteq DocsOf(s)
        /\ (crawler \in Strict => published \subseteq DocsOf(s))
    BY <1>1, CrawlAssumption
  <1>4. "saved_password" \notin DocsOf(s)
    BY <1>2, DocsAre DEF Fits
  <1> HIDE DEF s
  <1>5. asks \in Seq(AllAsks)
    <2>1. ToSet(s) \subseteq AllAsks
      BY DEF AllAsks, s
    <2>2. QED
      BY <1>1, <1>2, <2>1
  <1>6. TreeInv
    BY <1>1, <1>2, <1>3 DEF TreeInv, Have, Pending
  <1>7. NothingLost /\ PasswordInv
    BY <1>1, <1>3, <1>4 DEF NothingLost, PasswordInv
  <1>8. QED
    BY <1>1, <1>5, <1>6, <1>7 DEF CrawlInv

\* The first request of a crawl under way.
LEMMA FirstAsk ==
  ASSUME CrawlInv, Asking
  PROVE  /\ Ask \in AllAsks /\ Minded(crawler, Ask) /\ Tail(asks) \in Seq(AllAsks)
         /\ DocsOf(asks) = {Ask.doc} \cup DocsOf(Tail(asks))
         /\ "version" \notin DocsOf(Tail(asks))
         /\ TreeInv /\ NothingLost /\ PasswordInv
  <1>1. crawler \in Crawlers /\ published \in Offers[crawler] /\ asks \in Seq(AllAsks) /\ asks # <<>>
        /\ TreeInv /\ NothingLost /\ PasswordInv
    BY DEF CrawlInv, Asking
  <1>2. /\ Tail(asks) \in Seq(AllAsks) /\ Ask \in AllAsks
        /\ DocsOf(asks) = {Ask.doc} \cup DocsOf(Tail(asks))
        /\ \A k \in DOMAIN Tail(asks) : k + 1 \in DOMAIN asks /\ Tail(asks)[k] = asks[k + 1] /\ k + 1 # 1
    BY <1>1, TailAsks DEF Ask
  <1>3. "version" \notin DocsOf(Tail(asks))
    BY <1>1, <1>2 DEF TreeInv, DocsOf
  <1>4. Minded(crawler, Ask)
    BY <1>1, <1>2, AsksMinded
  <1>5. QED
    BY <1>1, <1>2, <1>3, <1>4

\* The tree to be read does not change while the version is what it is.
LEMMA SameTree ==
  ASSUME "version" \in got' <=> "version" \in got
  PROVE  LeftOut' = LeftOut /\ TheTree' = TheTree
  <1>1. LeftOut' = LeftOut
    BY DEF LeftOut
  <1>2. QED
    BY <1>1 DEF TheTree, Reached

\* It has the root, and what a listing of it lists.
LEMMA TreeHas ==
  /\ Root \in TheTree
  /\ \A d \in TheTree \cap DOMAIN Tree : \A e \in ToSet(Tree[d]) : e.name \notin LeftOut => e.path \in TheTree
  <1>1. Root \in TheTree
    BY TreeApart DEF TheTree, Reached
  <1>2. ASSUME NEW d \in TheTree \cap DOMAIN Tree, NEW e \in ToSet(Tree[d]), e.name \notin LeftOut
        PROVE  e.path \in TheTree
    <2>1. e.path \in TreeDocs
      BY DEF TreeDocs, Entries
    <2>2. ASSUME NEW set \in SUBSET TreeDocs, Reached(set) PROVE e.path \in set
      BY <1>2, <2>2 DEF TheTree, Reached
    <2>3. QED
      BY <2>1, <2>2 DEF TheTree
  <1>3. QED
    BY <1>1, <1>2

\* A crawl that ends without success has nothing to keep.
LEMMA EndKeeps ==
  ASSUME CrawlInv, asks' = <<>>, outcome' \in {"no", "raised"}, UNCHANGED <<crawler, published>>
  PROVE  CrawlInv'
  <1>1. crawler' = crawler /\ published' = published /\ AllAsks' = AllAsks
    BY DEF AllAsks
  <1>2. <<>> \in Seq(AllAsks)
    OBVIOUS
  <1>3. QED
    BY <1>1, <1>2 DEF CrawlInv

\* A document that is there, and what it lists.
LEMMA ReplyKeeps == ASSUME CrawlInv, Reply PROVE CrawlInv'
  <1> DEFINE more == IF Ask.doc = "password" THEN <<Acknowledge>> ELSE Below(Ask.doc)
             rest == Tail(asks)
             doc == Ask.doc
             children == {e.path : e \in {f \in ToSet(Tree[doc]) : f.name \notin LeftOut}}
  <1>1. /\ Ask \in AllAsks /\ Minded(crawler, Ask) /\ rest \in Seq(AllAsks)
        /\ DocsOf(asks) = {doc} \cup DocsOf(rest) /\ "version" \notin DocsOf(rest)
        /\ TreeInv /\ NothingLost /\ PasswordInv
    BY FirstAsk DEF Reply
  <1>2. /\ got' = got \cup {doc} /\ asks' = more \o rest /\ crawler' = crawler /\ published' = published
        /\ outcome' = "crawling" /\ outcome = "crawling" /\ asks # <<>>
    BY DEF Reply, Asking
  <1>3. Below(doc) \in Seq(Branches) /\ (doc \notin DOMAIN Tree => Below(doc) = <<>>)
        /\ (doc \in DOMAIN Tree => DocsOf(Below(doc)) = children)
    BY BelowAre
  <1>4. AllAsks' = AllAsks
    BY <1>2 DEF AllAsks
  <1>5. more \in Seq(AllAsks)
    <2> DEFINE s == Requests(crawler, published)
    <2>1. \A a \in ToSet(s) : a.doc \in DocsOf(s)
      BY DocIn
    <2>2. DocsOf(s) \cap TreeDocs \subseteq {Root}
      BY CrawlAssumption DEF CrawlInv
    <2>3. Acknowledge.doc = "saved_password" /\ \A d : Branch(d).doc = d
      BY AcknowledgeAsks, BranchAsks DEF AsksFor
    <2>4. AllAsks = ToSet(s) \cup (IF Root \in DocsOf(s) THEN Branches ELSE {})
                       \cup (IF "password" \in DocsOf(s) THEN {Acknowledge} ELSE {})
      BY DEF AllAsks, Branches
    <2> HIDE DEF s
    <2>5. CASE doc = "password"
      <3>1. Ask \in ToSet(s)
        BY <1>1, <2>3, <2>4, <2>5, TreeApart DEF Branches
      <3>2. "password" \in DocsOf(s)
        BY <2>1, <2>5, <3>1
      <3>3. <<Acknowledge>> \in Seq({Acknowledge}) /\ Acknowledge \in AllAsks
        BY <2>4, <3>2, InTuples
      <3>4. QED
        BY <2>5, <3>3
    <2>6. CASE doc # "password" /\ doc \in DOMAIN Tree
      <3>1. Root \in DocsOf(s)
        <4>1. doc \in TreeDocs /\ doc # "saved_password"
          BY <2>6, TreeApart DEF TreeDocs
        <4>2. CASE Ask \in ToSet(s)
          BY <2>1, <2>2, <4>1, <4>2
        <4>3. QED
          BY <1>1, <2>3, <2>4, <4>1, <4>2
      <3>2. Branches \subseteq AllAsks
        BY <2>4, <3>1
      <3>3. QED
        BY <1>3, <2>6, <3>2
    <2>7. CASE doc # "password" /\ doc \notin DOMAIN Tree
      <3>1. <<>> \in Seq(AllAsks)
        OBVIOUS
      <3>2. QED
        BY <1>3, <2>7, <3>1
    <2>8. QED
      BY <2>5, <2>6, <2>7
  <1>6. DocsOf(more) = IF doc = "password" THEN {"saved_password"} ELSE IF doc \in DOMAIN Tree THEN children ELSE {}
    <2>1. DocsOf(<<Acknowledge>>) = {"saved_password"}
      <3>1. ToSet(<<Acknowledge>>) = {Acknowledge} /\ Acknowledge.doc = "saved_password"
        BY InTuples, AcknowledgeAsks DEF AsksFor
      <3>2. QED
        BY <3>1, DocsAre
    <2>2. DocsOf(<<>>) = {}
      BY DEF DocsOf
    <2>3. QED
      BY <1>3, <2>1, <2>2
  <1>7. asks' \in Seq(AllAsks) /\ DocsOf(asks') = DocsOf(more) \cup DocsOf(rest)
    <2>1. asks' \in Seq(AllAsks) /\ ToSet(asks') = ToSet(more) \cup ToSet(rest)
      BY <1>1, <1>2, <1>5, InConcat
    <2>2. DocsOf(asks') = {a.doc : a \in ToSet(asks')} /\ DocsOf(more) = {a.doc : a \in ToSet(more)}
          /\ DocsOf(rest) = {a.doc : a \in ToSet(rest)}
      BY DocsAre
    <2>3. QED
      BY <2>1, <2>2
  <1>8. children \subseteq TreeDocs \/ doc \notin DOMAIN Tree
    BY DEF TreeDocs, Entries
  <1> DEFINE added == DocsOf(more)
             left == DocsOf(rest)
  <1>9. NothingLost'
    <2>1. TakenForAbsent' = TakenForAbsent
      BY DEF Reply, TakenForAbsent
    <2>2. QED
      BY <1>1, <1>2, <1>7, <2>1 DEF NothingLost
  <1>10. PasswordInv'
    <2>1. "saved_password" \in added <=> doc = "password"
      BY <1>6, <1>8, TreeApart
    <2>2. DocsOf(asks') = added \cup left /\ DocsOf(asks) = {doc} \cup left
      BY <1>1, <1>7
    <2>3. /\ "saved_password" \in got \cup DocsOf(asks) => "password" \in got
          /\ "password" \in got => "saved_password" \in got \cup DocsOf(asks)
      BY <1>1 DEF PasswordInv
    <2> HIDE DEF added, left, doc
    <2>4. QED
      BY <1>2, <2>1, <2>2, <2>3 DEF PasswordInv
  <1>11. "version" \notin DocsOf(asks')
    BY <1>1, <1>6, <1>7, <1>8, TreeApart
  <1>12. \A k \in DOMAIN asks' : asks'[k].doc # "version"
    BY <1>11 DEF DocsOf
  <1>13. ASSUME doc \notin TreeDocs PROVE TreeInv'
    <2>1. Have' = Have
      BY <1>2, <1>13 DEF Have
    <2>2. doc \notin DOMAIN Tree
      BY <1>13 DEF TreeDocs
    <2>3. Pending' = Pending
      BY <1>1, <1>6, <1>7, <1>13, <2>2, TreeApart DEF Pending
    <2>4. CASE Have = {} /\ Pending \subseteq {Root}
      BY <1>12, <2>1, <2>3, <2>4 DEF TreeInv
    <2>5. CASE ~(Have = {} /\ Pending \subseteq {Root})
      <3>1. /\ Root \in Have /\ "version" \notin DocsOf(asks) /\ Have \cup Pending \subseteq TheTree
            /\ \A d \in Have \cap DOMAIN Tree : \A e \in ToSet(Tree[d]) :
                 e.name \notin LeftOut => e.path \in Have \cup Pending
        BY <1>1, <2>5 DEF TreeInv
      <3>2. doc # "version"
        BY <1>1, <3>1
      <3>3. LeftOut' = LeftOut /\ TheTree' = TheTree
        BY <1>2, <3>2, SameTree
      <3>4. QED
        BY <1>11, <1>12, <2>1, <2>3, <3>1, <3>3 DEF TreeInv
    <2>6. QED
      BY <2>4, <2>5
  <1>14. ASSUME doc \in TreeDocs PROVE TreeInv'
    <2>1. doc # "version" /\ doc # "password" /\ doc # "saved_password"
      BY <1>14, TreeApart
    <2>2. LeftOut' = LeftOut /\ TheTree' = TheTree
      BY <1>2, <2>1, SameTree
    <2>3. /\ Have' = Have \cup {doc}
          /\ Pending' = (left \cap TreeDocs) \cup (IF doc \in DOMAIN Tree THEN children ELSE {})
      BY <1>2, <1>6, <1>7, <1>8, <1>14, <2>1 DEF Have, Pending
    <2>4. Pending = {doc} \cup (left \cap TreeDocs)
      BY <1>1, <1>14 DEF Pending
    <2>5. doc \in TheTree /\ Have \cup Pending \subseteq TheTree /\ Root \in Have'
          /\ \A d \in Have \cap DOMAIN Tree : \A e \in ToSet(Tree[d]) :
               e.name \notin LeftOut => e.path \in Have \cup Pending
      BY <1>1, <2>3, <2>4, TreeHas DEF TreeInv
    <2>6. doc \in DOMAIN Tree => children \subseteq TheTree
      BY <2>5, TreeHas
    <2>7. \A d \in Have' \cap DOMAIN Tree : \A e \in ToSet(Tree[d]) :
            e.name \notin LeftOut => e.path \in Have' \cup Pending'
      BY <2>3, <2>4, <2>5
    <2>8. Have' \cup Pending' \subseteq TheTree
      BY <2>3, <2>4, <2>5, <2>6
    <2>9. QED
      BY <1>11, <1>12, <2>2, <2>5, <2>7, <2>8 DEF TreeInv
  <1>15. TreeInv'
    BY <1>13, <1>14
  <1>16. QED
    BY <1>2, <1>4, <1>7, <1>9, <1>10, <1>15 DEF CrawlInv

\* A document that need not be there, or is taken for one that is not.
LEMMA SkipKeeps ==
  ASSUME CrawlInv, Asking, Dispose("skip"), UNCHANGED <<crawler, published>>,
         Ask.doc \notin TreeDocs \cup Contents \cup {"saved_password"}, TakenForAbsent \subseteq TakenForAbsent',
         crawler \in Strict => Ask.doc \notin published \ TakenForAbsent'
  PROVE  CrawlInv'
  <1> DEFINE rest == Tail(asks)
             doc == Ask.doc
  <1>1. /\ Minded(crawler, Ask) /\ rest \in Seq(AllAsks)
        /\ DocsOf(asks) = {doc} \cup DocsOf(rest) /\ "version" \notin DocsOf(rest)
        /\ TreeInv /\ NothingLost /\ PasswordInv
    BY FirstAsk
  <1>2. got' = got /\ asks' = rest /\ crawler' = crawler /\ published' = published /\ outcome' = "crawling"
    BY DEF Dispose, Asking
  <1>3. AllAsks' = AllAsks
    BY <1>2 DEF AllAsks
  <1>4. \A k \in DOMAIN asks' : asks'[k].doc # "version"
    BY <1>1, <1>2 DEF DocsOf
  <1>5. NothingLost' /\ PasswordInv'
    BY <1>1, <1>2 DEF NothingLost, PasswordInv
  <1>6. TreeInv'
    <2>1. Have' = Have /\ Pending' = Pending /\ LeftOut' = LeftOut /\ TheTree' = TheTree
      <3>1. LeftOut' = LeftOut /\ TheTree' = TheTree
        BY <1>2, SameTree
      <3>2. QED
        BY <1>1, <1>2, <3>1 DEF Have, Pending
    <2>2. "version" \notin DocsOf(asks')
      BY <1>1, <1>2
    <2>3. QED
      BY <1>1, <1>4, <2>1, <2>2 DEF TreeInv
  <1>7. QED
    BY <1>1, <1>2, <1>3, <1>5, <1>6 DEF CrawlInv

\* A document that is forgotten, with all that belongs to it.
LEMMA ForgetKeeps ==
  ASSUME CrawlInv, Asking, Dispose("forget"), UNCHANGED <<crawler, published>>,
         Ask.doc \in TreeDocs \cup {"saved_password"}
  PROVE  CrawlInv'
  <1> DEFINE rest == Tail(asks)
             doc == Ask.doc
             unit == UnitOf(doc)
  <1>1. /\ Minded(crawler, Ask)
        /\ DocsOf(asks) = {doc} \cup DocsOf(rest) /\ "version" \notin DocsOf(rest)
        /\ TreeInv /\ NothingLost /\ PasswordInv /\ asks \in Seq(AllAsks)
    BY FirstAsk DEF CrawlInv
  <1>2. got' = got \ unit /\ asks' = Without(asks, unit) /\ crawler' = crawler /\ published' = published
        /\ outcome' = "crawling"
    BY DEF Dispose, Asking
  <1>3. asks' \in Seq(AllAsks) /\ DocsOf(asks') = DocsOf(asks) \ unit
    BY <1>1, <1>2, WithoutAre
  <1>4. AllAsks' = AllAsks
    BY <1>2 DEF AllAsks
  <1>5. crawler \notin Strict
    BY <1>1 DEF Minded
  <1>6. \/ doc \in TreeDocs /\ unit = TreeDocs
        \/ doc \notin TreeDocs /\ doc = "saved_password" /\ unit = {"password", "saved_password"}
    BY TreeApart, Zenon DEF UnitOf
  <1> HIDE DEF unit, doc
  <1>7. "version" \notin DocsOf(asks') /\ ("version" \in got' <=> "version" \in got)
    BY <1>1, <1>2, <1>3, <1>6, TreeApart
  <1>8. \A k \in DOMAIN asks' : asks'[k].doc # "version"
    BY <1>7 DEF DocsOf
  <1>9. NothingLost'
    <2>1. unit \cap Contents = {}
      BY <1>6, TreeApart DEF Contents
    <2>2. QED
      BY <1>1, <1>2, <1>3, <1>5, <2>1 DEF NothingLost
  <1>10. PasswordInv'
    BY <1>1, <1>2, <1>3, <1>6, TreeApart DEF PasswordInv
  <1>11. TreeInv'
    <2>1. CASE unit = TreeDocs
      <3>1. Have' = {} /\ Pending' = {}
        BY <1>2, <1>3, <2>1 DEF Have, Pending
      <3>2. QED
        BY <1>8, <3>1 DEF TreeInv
    <2>2. CASE unit = {"password", "saved_password"}
      <3>1. unit \cap TreeDocs = {}
        BY <2>2, TreeApart
      <3>2. Have' = Have /\ Pending' = Pending
        BY <1>2, <1>3, <3>1 DEF Have, Pending
      <3>3. LeftOut' = LeftOut /\ TheTree' = TheTree
        BY <1>7, SameTree
      <3>4. QED
        BY <1>1, <1>7, <1>8, <3>2, <3>3 DEF TreeInv
    <2>3. QED
      BY <1>6, <2>1, <2>2
  <1>12. QED
    BY <1>2, <1>3, <1>4, <1>9, <1>10, <1>11 DEF CrawlInv

\* Another attempt, or the end of them.
LEMMA DisposeKeeps ==
  ASSUME CrawlInv, Asking, UNCHANGED <<crawler, published>>,
         NEW how \in {Ask.gone, Ask.fails, Ask.bad} \ {"keep"}, Dispose(how), TakenForAbsent \subseteq TakenForAbsent',
         how = "skip" => Ask.doc \notin Contents /\ (crawler \in Strict => Ask.doc \notin published \ TakenForAbsent')
  PROVE  CrawlInv'
  <1>1. Minded(crawler, Ask)
    BY FirstAsk
  <1>2. CASE how \in {"no", "raise"}
    BY <1>2, EndKeeps DEF Dispose
  <1>3. CASE how = "skip"
    BY <1>1, <1>3, SkipKeeps DEF Minded
  <1>4. CASE how = "forget"
    BY <1>1, <1>4, ForgetKeeps DEF Minded
  <1>5. how \in {"no", "raise", "skip", "forget"}
    BY <1>1 DEF Minded
  <1>6. QED
    BY <1>2, <1>3, <1>4, <1>5

LEMMA AgainKeeps ==
  ASSUME CrawlInv, Asking, UNCHANGED <<crawler, published>>,
         NEW reply, NEW how \in {Ask.gone, Ask.fails}, Again(reply, how), TakenForAbsent \subseteq TakenForAbsent',
         how = "skip" => Ask.doc \notin Contents /\ (crawler \in Strict => Ask.doc \notin published \ TakenForAbsent')
  PROVE  CrawlInv'
  <1>1. CASE Dispose(how)
    <2>1. how # "keep"
      BY FirstAsk DEF Minded
    <2>2. QED
      BY <1>1, <2>1, DisposeKeeps
  <1>2. CASE UNCHANGED <<asks, got, outcome>>
    <2>1. NothingLost => NothingLost'
      BY <1>2 DEF NothingLost
    <2>2. QED
      BY <1>2, <2>1 DEF CrawlInv, TreeInv, Have, Pending, PasswordInv, TheTree, Reached, LeftOut, AllAsks
  <1>3. QED
    BY <1>1, <1>2 DEF Again

LEMMA OneMore ==
  ASSUME NEW X, NEW s \in Seq(X), NEW x \in X
  PROVE  /\ ToSet(Append(s, x)) = ToSet(s) \cup {x} /\ Len(Append(s, x)) = Len(s) + 1
         /\ Len(s) \in Nat /\ Append(s, x) \in Seq(X)
  <1>1. Append(s, x) = s \o <<x>> /\ <<x>> \in Seq(X) /\ ToSet(<<x>>) = {x}
    <2>1. <<x>> \in Seq(X)
      OBVIOUS
    <2>2. Append(s, x) = s \o <<x>>
      BY AppendIsConcat
    <2>3. QED
      BY <2>1, <2>2, InTuples
  <1>2. ToSet(s \o <<x>>) = ToSet(s) \cup ToSet(<<x>>)
    BY <1>1, InConcat
  <1>3. QED
    BY <1>1, <1>2, AppendProperties, LenProperties

\* What was taken for absent once, remains so.
LEMMA TakenGrows == ASSUME CrawlInv, FewInv, CrawlStep PROVE TakenForAbsent \subseteq TakenForAbsent'
  <1>1. crawler' = crawler /\ (faults' = faults \/ \E kind \in FaultKinds \cup {Ask.doc} : faults' = Append(faults, kind))
    BY DEF CrawlStep, Reply, NotFound, Fault, Hang, BadContent, Refused, EndOfCrawl, FaultsOf, FaultKinds
  <1>2. ASSUME NEW kind, faults' = Append(faults, kind) PROVE ToSet(faults) \subseteq ToSet(faults')
    <2> DEFINE K == FaultKinds \cup {kind}
    <2>1. faults \in Seq(K) /\ kind \in K
      BY DEF FewInv
    <2> HIDE DEF K
    <2> QED BY <1>2, <2>1, OneMore
  <1> QED BY <1>1, <1>2 DEF TakenForAbsent

LEMMA CrawlKept == ASSUME CrawlInv, ClockInv, FewInv, CrawlStep PROVE CrawlInv' /\ ClockInv'
  <1>0. TakenForAbsent \subseteq TakenForAbsent'
    BY TakenGrows
  <1>1. ASSUME Reply PROVE CrawlInv'
    BY <1>1, ReplyKeeps
  <1>2. ASSUME NotFound PROVE CrawlInv'
    <2>1. Minded(crawler, Ask) /\ Asking
      BY <1>2, FirstAsk DEF NotFound
    <2>2. Ask.gone = "skip" => Ask.doc \notin Contents /\ (crawler \in Strict => Ask.doc \notin published \ TakenForAbsent')
      BY <1>2, <2>1 DEF NotFound, Minded, Serves
    <2>3. QED
      BY <1>0, <1>2, <2>1, <2>2, AgainKeeps DEF NotFound
  <1>3. ASSUME Fault PROVE CrawlInv'
    <2>1. Minded(crawler, Ask) /\ Asking /\ UNCHANGED <<crawler, published>>
      BY <1>3, FirstAsk DEF Fault
    <2>2. PICK kind \in FaultsOf : Again(kind, Ask.fails) /\ faults' = Append(faults, kind)
      BY <1>3 DEF Fault
    <2>3. crawler = "SmartOS" => Ask.doc \in TakenForAbsent'
      <3> SUFFICES ASSUME crawler = "SmartOS" PROVE Ask.doc \in TakenForAbsent'
        OBVIOUS
      <3> DEFINE K == FaultKinds \cup {kind}
      <3>1. faults \in Seq(K) /\ kind \in K /\ kind = Ask.doc
        BY <2>2 DEF FewInv, FaultsOf
      <3> HIDE DEF K
      <3>2. Ask.doc \in ToSet(faults')
        BY <2>2, <3>1, OneMore
      <3> QED BY <2>1, <3>2 DEF TakenForAbsent
    <2>4. Ask.fails = "skip" => Ask.doc \notin Contents /\ (crawler \in Strict => Ask.doc \notin published \ TakenForAbsent')
      BY <2>1, <2>3 DEF Minded
    <2>5. QED
      BY <1>0, <2>1, <2>2, <2>4, AgainKeeps
  <1>4. ASSUME BadContent PROVE CrawlInv'
    <2>1. Minded(crawler, Ask) /\ Asking
      BY <1>4, FirstAsk DEF BadContent
    <2>2. QED
      BY <1>0, <1>4, <2>1, DisposeKeeps DEF BadContent, Minded
  <1>5. ASSUME Refused PROVE CrawlInv'
    <2>1. Minded(crawler, Ask) /\ Asking
      BY <1>5, FirstAsk DEF Refused
    <2>2. crawler = "MAAS"
      BY <1>5 DEF Refused, ClockInv
    <2>3. Ask.fails # "skip"
      BY <2>1, <2>2 DEF Minded, Strict
    <2>4. QED
      BY <1>0, <1>5, <2>1, <2>3, AgainKeeps DEF Refused
  <1>6. ASSUME EndOfCrawl PROVE CrawlInv'
    <2>1. CrawlInv /\ asks = <<>> /\ UNCHANGED <<crawler, published, asks, got, faults>> /\ outcome = "crawling"
      BY <1>6 DEF EndOfCrawl
    <2>2. TreeInv' /\ NothingLost' /\ PasswordInv'
      BY <2>1 DEF CrawlInv, TreeInv, Have, Pending, NothingLost, TakenForAbsent, PasswordInv, TheTree, Reached, LeftOut
    <2>3. QED
      BY <2>1, <2>2 DEF CrawlInv, AllAsks
  <1>7. ASSUME Hang PROVE CrawlInv'
    BY <1>7 DEF Hang, CrawlInv, AllAsks
  <1>8. ClockInv'
    BY DEF CrawlStep, Reply, NotFound, Fault, Hang, BadContent, Refused, EndOfCrawl, ClockInv
  <1>9. QED
    BY <1>1, <1>2, <1>3, <1>4, <1>5, <1>6, <1>7, <1>8 DEF CrawlStep

\* What a crawl that is over has found is whole.
LEMMA NothingInPart == ASSUME CrawlInv PROVE NeverInPart
  <1> SUFFICES ASSUME outcome = "found" PROVE NeverInPart
    BY DEF NeverInPart
  <1>1. asks = <<>> /\ TreeInv /\ NothingLost /\ PasswordInv
    BY DEF CrawlInv
  <1>2. DocsOf(asks) = {}
    BY <1>1 DEF DocsOf
  <1>3. Have # {} => Have = TheTree
    <2> SUFFICES ASSUME Have # {} PROVE Have = TheTree
      OBVIOUS
    <2>1. Pending = {}
      BY <1>2 DEF Pending
    <2>2. Have \subseteq TheTree /\ Root \in Have
          /\ \A d \in Have \cap DOMAIN Tree : \A e \in ToSet(Tree[d]) : e.name \notin LeftOut => e.path \in Have
      BY <1>1, <2>1 DEF TreeInv
    <2>3. Have \in SUBSET TreeDocs /\ Reached(Have)
      BY <2>2 DEF Have, Reached
    <2>4. TheTree \subseteq Have
      BY <2>3 DEF TheTree
    <2>5. QED
      BY <2>2, <2>4
  <1>4. QED
    BY <1>1, <1>2, <1>3 DEF NeverInPart, Have, NothingLost, PasswordInv

----------------------------------------------------------------------------
(* A crawl with few faults.                                                 *)

\* How often a request of a crawl is made before it is given up.
Keen(c, a) ==
    /\ a.doc \in AskedOnce(c) => a.gone \in {"skip", "forget"} /\ a.fails \in {"skip", "forget"}
    /\ a.doc \notin AskedOnce(c) => a.tries \in Nat /\ a.tries >= Least(c)
    /\ a.stop \in {NoCodes, Gone} \/ (a.stop = TimedOut /\ c = "OpenStack")
    /\ a.gone = "skip" /\ a.fails \in {"no", "raise"} => "404" \in a.stop \/ c \in {"MAAS", "ConfigDrive"}
    /\ a.gone = "forget" <=> a.fails = "forget"
    /\ a.doc = "saved_password" => c = "CloudStack"

LEMMA AsksKeen ==
  ASSUME crawler \in Crawlers, published \in Offers[crawler], NEW a \in AllAsks
  PROVE  /\ Keen(crawler, a)
         /\ a.gone \in {"no", "raise"} => a \in ToSet(Requests(crawler, published))
  <1> DEFINE s == Requests(crawler, published)
  <1>1. \A b \in ToSet(s) : Fits(crawler, b) /\ b.doc \in DocsOf(s)
    BY RequestsFit, DocIn
  <1>2. \A d : AsksFor(Branch(d), d, "forget", "forget", "keep", Retries + 1, NoCodes)
    BY BranchAsks
  <1>3. Root \in DocsOf(s) => crawler \in Trees
    BY <1>1 DEF Fits, DocsOf, ToSet
  <1>4. "password" \in DocsOf(s) => crawler = "CloudStack"
    BY <1>1 DEF Fits, DocsOf, ToSet
  <1> HIDE DEF s
  <1>5. CASE a \in ToSet(s)
    <2>1. Fits(crawler, a)
      BY <1>1, <1>5
    <2>2. CASE a = Branch(Root) /\ crawler \in Trees
      BY <1>2, <2>1, <2>2, Numbered DEF Keen, Fits, Often, AsksFor, Root
    <2>3. CASE a.gone \in {"skip", "no", "raise"} /\ a.fails \in {"skip", "no", "raise"}
      BY <1>5, <2>1, <2>3 DEF Keen, Fits, Often, s
    <2>4. QED
      BY <2>1, <2>2, <2>3 DEF Fits
  <1>6. CASE Root \in DocsOf(s) /\ \E d \in TreeDocs : a = Branch(d)
    <2>1. PICK d \in TreeDocs : a = Branch(d)
      BY <1>6
    <2>2. AsksFor(a, d, "forget", "forget", "keep", Retries + 1, NoCodes)
      BY <1>2, <2>1
    <2>3. crawler \in Trees /\ Least(crawler) = Retries + 1
      BY <1>3, <1>6, LeastIs
    <2>4. d \notin AskedOnce(crawler)
      BY OnceIs, TreeApart
    <2>5. QED
      BY <2>2, <2>3, <2>4, Numbered, TreeApart DEF Keen, AsksFor
  <1>7. CASE "password" \in DocsOf(s) /\ a = Acknowledge
    <2>1. AsksFor(a, "saved_password", "forget", "forget", "keep", 1, NoCodes)
      BY <1>7, AcknowledgeAsks
    <2>2. crawler = "CloudStack" /\ "saved_password" \in AskedOnce(crawler)
      BY <1>4, <1>7, OnceIs
    <2>3. QED
      BY <2>1, <2>2 DEF Keen, AsksFor
  <1>8. QED
    BY <1>5, <1>6, <1>7 DEF AllAsks, s

\* The faults that are to cost nothing are fewer than the attempts.
LEMMA PatienceIs ==
  ASSUME NEW c \in Crawlers, NEW o
  PROVE  /\ PatienceOf(c, o) \in Nat /\ Least(c) \in Nat /\ PatienceOf(c, o) + 1 <= Least(c)
         /\ c = "MAAS" => PatienceOf(c, o) <= 1
         /\ c = "ConfigDrive" => PatienceOf(c, o) = 0
  <1>1. CASE c \in Trees \cup {"DigitalOcean"}
    <2>1. PatienceOf(c, o) = Retries /\ Least(c) = Retries + 1
      BY <1>1, LeastIs DEF PatienceOf, Trees
    <2>2. c # "MAAS" /\ c # "ConfigDrive"
      BY <1>1 DEF Trees
    <2>3. QED
      BY <2>1, <2>2, Numbered
  <1>2. CASE c = "MAAS"
    <2>1. PatienceOf(c, o) = 0 \/ PatienceOf(c, o) = 1
      BY <1>2 DEF PatienceOf
    <2>2. Least(c) = 2
      BY <1>2, LeastIs
    <2>3. QED
      BY <1>2, <2>1, <2>2
  <1>3. CASE c = "Scaleway"
    <2>1. PatienceOf(c, o) = Ports - 1 /\ Least(c) = Ports
      BY <1>3, LeastIs DEF PatienceOf
    <2>2. QED
      BY <1>3, <2>1, Numbered
  <1>4. CASE c \in {"ConfigDrive", "GCE", "Bigstep", "SmartOS"}
    <2>1. PatienceOf(c, o) = 0 /\ Least(c) = 1
      BY <1>4, LeastIs DEF PatienceOf
    <2>2. QED
      BY <1>4, <2>1
  <1>5. QED
    BY <1>1, <1>2, <1>3, <1>4, CrawlAssumption DEF Trees, Strict

\* Few now, few before; and one more fault is within the patience.
LEMMA FewBefore ==
  ASSUME NEW K, crawler \in Crawlers, UNCHANGED <<crawler, published>>, faults \in Seq(K), Few',
         NEW kind \in K, faults' \in {faults, Append(faults, kind)}
  PROVE  /\ Few
         /\ faults' \in Seq(K) /\ Len(faults') \in Nat
         /\ faults' = Append(faults, kind) =>
              /\ kind \notin {"bad", "hang"} /\ Len(faults') = Len(faults) + 1
              /\ Len(faults) + 1 <= PatienceOf(crawler, published)
              /\ kind = "timeout" => crawler # "OpenStack"
  <1>1. ToSet(Append(faults, kind)) = ToSet(faults) \cup {kind} /\ Len(Append(faults, kind)) = Len(faults) + 1
        /\ Len(faults) \in Nat /\ Append(faults, kind) \in Seq(K)
    BY OneMore
  <1>2. PatienceOf(crawler, published) \in Nat /\ PatienceOf(crawler, published)' = PatienceOf(crawler, published)
    BY PatienceIs
  <1>3. Len(faults') <= Patience' /\ ToSet(faults') \cap {"bad", "hang"} = {}
    BY DEF Few
  <1>4. ToSet(faults) \subseteq ToSet(faults') /\ Len(faults) <= Len(faults')
    <2>1. CASE faults' = faults
      BY <1>1, <2>1
    <2>2. CASE faults' = Append(faults, kind)
      <3> DEFINE more == Append(faults, kind)
      <3>1. ToSet(faults) \subseteq ToSet(more) /\ Len(faults) <= Len(more)
        BY <1>1
      <3>2. faults' = more
        BY <2>2
      <3> HIDE DEF more
      <3>3. QED
        BY <3>1, <3>2
    <2>3. QED
      BY <2>1, <2>2
  <1>5. Patience' <= Patience
    BY <1>2, <1>4 DEF Patience
  <1>6. Few
    <2>1. Patience \in Nat /\ Patience' \in Nat
      BY <1>2 DEF Patience
    <2>2. Len(faults') \in Nat
      BY <1>1
    <2>3. QED
      BY <1>1, <1>3, <1>4, <1>5, <2>1, <2>2 DEF Few
  <1>7. ASSUME faults' = Append(faults, kind)
        PROVE  /\ kind \notin {"bad", "hang"} /\ Len(faults') = Len(faults) + 1
               /\ Len(faults) + 1 <= PatienceOf(crawler, published)
               /\ kind = "timeout" => crawler # "OpenStack"
    <2>1. kind \in ToSet(faults') /\ Len(faults') = Len(faults) + 1
      BY <1>1, <1>7
    <2>2. Patience' <= PatienceOf(crawler, published)
      BY <1>2 DEF Patience
    <2>3. kind = "timeout" /\ crawler = "OpenStack" => Patience' = 0
      BY <2>1 DEF Patience
    <2>4. Patience' \in Nat
      BY <1>2 DEF Patience
    <2>5. QED
      BY <1>1, <1>2, <1>3, <2>1, <2>2, <2>3, <2>4
  <1>8. QED
    BY <1>1, <1>6, <1>7

----------------------------------------------------------------------------
(* What is published is served.                                             *)
LEMMA WantedAre ==
  ASSUME crawler \in Crawlers, published \in Offers[crawler]
  PROVE  /\ Wanted \subseteq published /\ Wanted \cap AskedOnce(crawler) = {}
         /\ Wanted \subseteq DocsOf(Requests(crawler, published)) /\ Wanted \cap TreeDocs \subseteq {Root}
         /\ AskedOnce(crawler) \cap TreeDocs = {}
  <1>1. published \ (AskedOnce(crawler) \cup ToSet(OsVersions)) \subseteq DocsOf(Requests(crawler, published))
    BY OffersAssumption
  <1>2. DocsOf(Requests(crawler, published)) \cap TreeDocs \subseteq {Root}
    BY CrawlAssumption
  <1>3. AskedOnce(crawler) \cap TreeDocs = {}
    BY OnceIs, TreeApart
  <1>4. QED
    BY <1>1, <1>2, <1>3 DEF Wanted

LEMMA ServedIs ==
  ASSUME crawler \in Crawlers, published \in Offers[crawler],
         NEW doc \in published, doc \in TreeDocs => doc = Root
  PROVE  Serves(doc)
  <1>1. CASE doc \in TreeDocs
    BY <1>1 DEF Serves, Root
  <1>2. ASSUME doc \in OpenStackDocs
        PROVE  Since(doc) <= FindWorkingVersion(IF "versions" \in got THEN published ELSE {})
    <2>1. CASE "versions" \in got
      BY <1>2, <2>1, OffersAssumption
    <2>2. CASE "versions" \notin got
      <3> DEFINE none == {}
      <3>1. FindWorkingVersion(none) = Latest
        BY DEF FindWorkingVersion
      <3>2. Latest = 5
        BY DEF Latest, OsVersions
      <3>3. Since(doc) \in {1, 3, 4}
        BY DEF Since
      <3>4. QED
        BY <2>2, <3>1, <3>2, <3>3
    <2>3. QED
      BY <2>1, <2>2
  <1>3. QED
    BY <1>1, <1>2 DEF Serves

\* What a datasource requires is served.
LEMMA RequiredIs ==
  ASSUME CrawlInv, Asking, Ask.gone \in {"no", "raise"}
  PROVE  Serves(Ask.doc)
  <1>1. crawler \in Crawlers /\ published \in Offers[crawler] /\ Ask \in AllAsks
    BY FirstAsk DEF CrawlInv
  <1>2. Ask \in ToSet(Requests(crawler, published))
    BY <1>1, AsksKeen
  <1>3. Ask.doc \in published /\ Ask.doc \in DocsOf(Requests(crawler, published))
    BY <1>1, <1>2, OffersAssumption, DocIn
  <1>4. Ask.doc \in TreeDocs => Ask.doc = Root
    BY <1>1, <1>3, CrawlAssumption
  <1>5. QED
    BY <1>1, <1>3, <1>4, ServedIs

\* So is what is wanted.
LEMMA WantedIs ==
  ASSUME CrawlInv, NEW doc \in Wanted
  PROVE  Serves(doc) /\ doc \notin AskedOnce(crawler)
  <1>1. crawler \in Crawlers /\ published \in Offers[crawler]
    BY DEF CrawlInv
  <1>2. doc \in published /\ (doc \in TreeDocs => doc = Root) /\ doc \notin AskedOnce(crawler)
    BY <1>1, WantedAre
  <1>3. QED
    BY <1>1, <1>2, ServedIs

\* Nothing wanted is forgotten with a tree that is not there, or with a password.
LEMMA UnitUnwanted ==
  ASSUME CrawlInv, Asking, Ask.gone = "forget" \/ Ask.fails = "forget",
         Ask.doc \in TreeDocs => Root \notin published
  PROVE  Wanted \cap UnitOf(Ask.doc) = {}
  <1>1. /\ crawler \in Crawlers /\ published \in Offers[crawler] /\ Ask \in AllAsks
        /\ Minded(crawler, Ask)
    BY FirstAsk DEF CrawlInv
  <1>2. Keen(crawler, Ask)
    BY <1>1, AsksKeen
  <1>3. Ask.doc \in TreeDocs \cup {"saved_password"}
    BY <1>1 DEF Minded
  <1>4. CASE Ask.doc \in TreeDocs
    <2>1. UnitOf(Ask.doc) = TreeDocs
      BY <1>4, TreeApart DEF UnitOf
    <2>2. QED
      BY <1>1, <1>4, <2>1, WantedAre
  <1>5. CASE Ask.doc \notin TreeDocs /\ Ask.doc = "saved_password"
    <2>1. UnitOf(Ask.doc) = {"password", "saved_password"}
      BY <1>5, TreeApart, Zenon DEF UnitOf
    <2>2. AskedOnce(crawler) = {"password", "saved_password"}
      BY <1>2, <1>5, OnceIs DEF Keen
    <2>3. QED
      BY <1>1, <2>1, <2>2, WantedAre
  <1>6. QED
    BY <1>3, <1>4, <1>5

\* MAAS asks for nothing but what it begins with, of which three need not be there.
LEMMA OnlyAsked ==
  ASSUME crawler = "MAAS", crawler \in Crawlers, published \in Offers[crawler], NEW a \in AllAsks
  PROVE  a \in ToSet(MaasCrawl) /\ a.doc \notin TreeDocs
  <1>1. Requests(crawler, published) = MaasCrawl
    BY DEF Requests
  <1>2. Root \notin DocsOf(MaasCrawl) /\ "password" \notin DocsOf(MaasCrawl)
    BY MaasFits DEF Fits, DocsOf, ToSet, Trees
  <1>3. a \in ToSet(MaasCrawl)
    BY <1>1, <1>2 DEF AllAsks
  <1>4. QED
    BY <1>1, <1>2, <1>3, DocIn, CrawlAssumption

LEMMA MaasOptional ==
  ASSUME NEW a \in ToSet(MaasCrawl), a.gone = "skip"
  PROVE  a.doc \in {"public-keys", "vendor-data", "user-data"}
  <1> DEFINE a1 == Must(Retried("instance-id"), "no")
             a2 == Maas("instance-id", FALSE)
             a3 == Maas("local-hostname", FALSE)
             a4 == Maas("public-keys", TRUE)
             a5 == Maas("vendor-data", TRUE)
             a6 == Maas("user-data", TRUE)
  <1>1. a1.gone = "no"
    BY RetriedAsks, MustAsks DEF AsksFor
  <1>2. \A d : Maas(d, FALSE).gone = "no"
    BY GetAsks DEF AsksFor, IsAsk, Fields, Maas
  <1>3. a4.doc = "public-keys" /\ a5.doc = "vendor-data" /\ a6.doc = "user-data"
    BY MaasAsks
  <1>4. MaasCrawl = <<a1, a2, a3, a4, a5, a6>>
    BY DEF MaasCrawl
  <1>5. a2.gone = "no" /\ a3.gone = "no"
    BY <1>2
  <1> HIDE DEF a1, a2, a3, a4, a5, a6
  <1>6. ToSet(MaasCrawl) = {a1, a2, a3, a4, a5, a6}
    BY <1>4, Six
  <1>7. QED
    BY <1>1, <1>3, <1>5, <1>6

----------------------------------------------------------------------------
(* What is there is asked for again until it comes.                         *)
LEMMA MaasFirst ==
  ASSUME NEW o
  PROVE  LET a == Head(Requests("MAAS", o)) IN
         a.tries = Retries + 1 /\ a.stop = NoCodes /\ a.gone = "no" /\ a.fails = "no"
  <1> DEFINE a == Must(Retried("instance-id"), "no")
  <1>1. AsksFor(a, "instance-id", "no", "no", "keep", Retries + 1, NoCodes)
    BY RetriedAsks, MustAsks DEF AsksFor
  <1>2. Requests("MAAS", o) = MaasCrawl
    BY DEF Requests
  <1>3. Head(MaasCrawl) = a
    BY DEF MaasCrawl
  <1> HIDE DEF a
  <1>4. QED
    BY <1>1, <1>2, <1>3 DEF AsksFor

LEMMA Persists ==
  ASSUME CrawlInv, ClockInv, FewInv, Few, Asking, clock # "wrong",
         NEW kind \in {"error", "timeout"}, kind = "timeout" => crawler # "OpenStack",
         Len(faults) + 1 <= PatienceOf(crawler, published),
         Ask.doc \notin AskedOnce(crawler), Serves(Ask.doc) \/ "404" \in Ask.stop
  PROVE  kind \notin Ask.stop /\ tried + 1 < Ask.tries
  <1>1. crawler \in Crawlers /\ published \in Offers[crawler] /\ Ask \in AllAsks
    BY FirstAsk DEF CrawlInv
  <1>2. Keen(crawler, Ask)
    BY <1>1, AsksKeen
  <1>3. kind \notin Ask.stop
    BY <1>2 DEF Keen, NoCodes, Gone, TimedOut
  <1>4. /\ PatienceOf(crawler, published) \in Nat /\ Least(crawler) \in Nat
        /\ PatienceOf(crawler, published) + 1 <= Least(crawler)
        /\ crawler = "MAAS" => PatienceOf(crawler, published) <= 1
    BY <1>1, PatienceIs
  <1>5. Len(faults) \in Nat /\ tried \in Nat /\ Ask.tries \in Nat /\ Ask.tries >= Least(crawler)
    BY <1>2, LenProperties DEF FewInv, Keen
  <1>6. tried <= Len(faults) + IF clock = "known" /\ asks = Requests(crawler, published) THEN 1 ELSE 0
    BY DEF FewInv, TriedInv
  <1>7. CASE clock = "known" /\ asks = Requests(crawler, published)
    <2>1. crawler = "MAAS"
      BY <1>7 DEF ClockInv
    <2>2. Ask.tries = Retries + 1
      BY <1>7, <2>1, MaasFirst DEF Ask
    <2>3. tried + 1 <= 2
      BY <1>4, <1>5, <1>6, <1>7, <2>1
    <2>4. tried + 1 < Retries + 1
      BY <1>5, <2>3, Numbered
    <2>5. QED
      BY <1>3, <2>2, <2>4
  <1>8. CASE ~(clock = "known" /\ asks = Requests(crawler, published))
    <2>1. tried <= Len(faults)
      BY <1>5, <1>6, <1>8
    <2>2. tried + 1 < Ask.tries
      BY <1>4, <1>5, <2>1
    <2>3. QED
      BY <1>3, <2>2
  <1>9. QED
    BY <1>7, <1>8

\* While the faults are few, nothing that is refused was there.
LEMMA Harmless ==
  ASSUME CrawlInv, ClockInv, FewInv, Few, Asking, clock # "wrong",
         NEW kind \in {"error", "timeout"}, kind = "timeout" => crawler # "OpenStack",
         Len(faults) + 1 <= PatienceOf(crawler, published),
         kind \in Ask.stop \/ ~(tried + 1 < Ask.tries)
  PROVE  /\ Ask.fails \in {"skip", "forget"} /\ Ask.doc \notin Wanted
         /\ Ask.doc \in TreeDocs => Root \notin published
  <1>1. crawler \in Crawlers /\ published \in Offers[crawler] /\ Ask \in AllAsks /\ Minded(crawler, Ask)
    BY FirstAsk DEF CrawlInv
  <1>2. Keen(crawler, Ask) /\ (Ask.gone \in {"no", "raise"} => Serves(Ask.doc))
    BY <1>1, AsksKeen, RequiredIs
  <1>3. Ask.doc \in AskedOnce(crawler) \/ (~Serves(Ask.doc) /\ "404" \notin Ask.stop)
    BY Persists
  <1>4. Ask.doc \notin Wanted
    <2>1. CASE Ask.doc \in AskedOnce(crawler)
      BY <1>1, <2>1, WantedAre
    <2>2. CASE ~Serves(Ask.doc)
      BY <2>2, WantedIs
    <2>3. QED
      BY <1>3, <2>1, <2>2
  <1>5. Ask.doc \in TreeDocs => Root \notin published
    <2>1. Ask.doc \in TreeDocs => Ask.doc \notin AskedOnce(crawler)
      BY <1>1, WantedAre
    <2>2. QED
      BY <1>3, <2>1 DEF Serves, Root
  <1>6. Ask.fails \in {"skip", "forget"}
    <2>1. CASE Ask.doc \in AskedOnce(crawler)
      BY <1>2, <2>1 DEF Keen
    <2>2. CASE ~Serves(Ask.doc) /\ "404" \notin Ask.stop
      <3>1. Ask.gone \in {"skip", "forget"}
        BY <1>1, <1>2, <2>2 DEF Minded
      <3>2. CASE Ask.gone = "forget"
        BY <1>2, <3>2 DEF Keen
      <3>3. CASE Ask.gone = "skip" /\ Ask.fails \in {"no", "raise"}
        <4>1. crawler \in {"MAAS", "ConfigDrive"}
          BY <1>2, <2>2, <3>3 DEF Keen
        <4>2. crawler = "MAAS"
          <5>1. Len(faults) \in Nat
            BY LenProperties DEF FewInv
          <5>2. QED
            BY <1>1, <4>1, <5>1, PatienceIs
        <4>3. {"public-keys", "vendor-data", "user-data"} \subseteq published
          <5>1. Len(faults) \in Nat
            BY LenProperties DEF FewInv
          <5>2. PatienceOf("MAAS", published) # 0
            BY <4>2, <5>1
          <5>3. QED
            BY <5>2 DEF PatienceOf
        <4>4. Ask \in ToSet(MaasCrawl)
          BY <1>1, <3>3, <4>2, OnlyAsked
        <4>5. Ask.doc \in {"public-keys", "vendor-data", "user-data"} /\ Ask.doc \notin TreeDocs
          BY <1>1, <3>3, <4>2, <4>4, OnlyAsked, MaasOptional
        <4>6. Serves(Ask.doc)
          BY <1>1, <4>3, <4>5, ServedIs
        <4>7. QED
          BY <2>2, <4>6
      <3>4. QED
        BY <1>1, <3>1, <3>2, <3>3 DEF Minded
    <2>3. QED
      BY <1>3, <2>1, <2>2
  <1>7. QED
    BY <1>4, <1>5, <1>6

----------------------------------------------------------------------------
(* What few faults leave of a crawl, step by step.                          *)

\* A document that is done without.
LEMMA DoneWithout ==
  ASSUME CrawlInv, Asking, ReadInv, UNCHANGED <<crawler, published>>, Len(faults') \in Nat,
         NEW how \in {"skip", "forget"}, Dispose(how), Ask.doc \notin Wanted,
         how = "forget" => Wanted \cap UnitOf(Ask.doc) = {}
  PROVE  ReadInv' /\ TriedInv'
  <1>1. DocsOf(asks) = {Ask.doc} \cup DocsOf(Tail(asks)) /\ asks \in Seq(AllAsks)
    BY FirstAsk DEF CrawlInv
  <1>2. tried' = 0 /\ outcome' = "crawling" /\ Wanted' = Wanted
    BY DEF Dispose, Asking, Wanted
  <1>3. Wanted \subseteq got' \cup DocsOf(asks')
    <2>1. CASE how = "skip"
      <3>1. got' = got /\ asks' = Tail(asks)
        BY <2>1 DEF Dispose
      <3>2. QED
        BY <1>1, <3>1 DEF ReadInv
    <2>2. CASE how = "forget"
      <3>1. got' = got \ UnitOf(Ask.doc) /\ asks' = Without(asks, UnitOf(Ask.doc))
        BY <2>2 DEF Dispose
      <3>2. DocsOf(asks') = DocsOf(asks) \ UnitOf(Ask.doc)
        BY <1>1, <3>1, WithoutAre
      <3>3. QED
        BY <2>2, <3>1, <3>2 DEF ReadInv
    <2>3. QED
      BY <2>1, <2>2
  <1>4. QED
    BY <1>2, <1>3 DEF ReadInv, TriedInv

\* Another attempt, after a fault or none.
LEMMA TriedAgain ==
  ASSUME ReadInv, TriedInv, UNCHANGED <<crawler, published, clock, asks, got, outcome>>,
         tried \in Nat, Len(faults) \in Nat,
         tried' = tried + 1, Len(faults') = Len(faults) + 1
  PROVE  ReadInv' /\ TriedInv'
  <1>1. Wanted' = Wanted /\ Ask' = Ask /\ Asking' = Asking /\ (Serves(Ask.doc))' = Serves(Ask.doc)
        /\ Requests(crawler, published)' = Requests(crawler, published)
    BY DEF Wanted, Ask, Asking, Serves
  <1>2. QED
    BY <1>1 DEF ReadInv, TriedInv

LEMMA ReplyReads == ASSUME CrawlInv, FewInv, Reply, Few' PROVE ReadInv' /\ TriedInv'
  <1> DEFINE more == IF Ask.doc = "password" THEN <<Acknowledge>> ELSE Below(Ask.doc)
             rest == Tail(asks)
  <1>1. Few /\ ReadInv
    <2>1. Few' = Few
      BY DEF Reply, Few, Patience
    <2>2. QED
      BY <2>1 DEF FewInv
  <1>2. DocsOf(asks) = {Ask.doc} \cup DocsOf(rest) /\ rest \in Seq(AllAsks)
    BY FirstAsk DEF Reply
  <1>3. /\ got' = got \cup {Ask.doc} /\ asks' = more \o rest /\ tried' = 0 /\ UNCHANGED <<outcome, faults>>
        /\ Wanted' = Wanted
    BY DEF Reply, Wanted
  <1>4. more \in Seq(Branches \cup {Acknowledge})
    <2>1. CASE Ask.doc = "password"
      <3>1. <<Acknowledge>> \in Seq({Acknowledge})
        BY InTuples
      <3>2. QED
        BY <2>1, <3>1
    <2>2. CASE Ask.doc # "password"
      <3>1. Below(Ask.doc) \in Seq(Branches)
        BY BelowAre
      <3>2. QED
        BY <2>2, <3>1
    <2>3. QED
      BY <2>1, <2>2
  <1> HIDE DEF more, rest
  <1>5. DocsOf(rest) \subseteq DocsOf(asks')
    <2> DEFINE X == Branches \cup {Acknowledge} \cup AllAsks
    <2>1. more \in Seq(X) /\ rest \in Seq(X)
      BY <1>2, <1>4
    <2> HIDE DEF X
    <2>2. ToSet(asks') = ToSet(more) \cup ToSet(rest)
      BY <1>3, <2>1, InConcat
    <2>3. DocsOf(asks') = {a.doc : a \in ToSet(asks')} /\ DocsOf(rest) = {a.doc : a \in ToSet(rest)}
      BY DocsAre
    <2>4. QED
      BY <2>2, <2>3
  <1>6. Len(faults') \in Nat
    BY <1>3, LenProperties DEF FewInv
  <1>7. QED
    BY <1>1, <1>2, <1>3, <1>5, <1>6 DEF ReadInv, TriedInv

LEMMA NotFoundReads == ASSUME CrawlInv, FewInv, NotFound, Few' PROVE ReadInv' /\ TriedInv'
  <1>1. Few /\ ReadInv /\ TriedInv /\ Len(faults) \in Nat
    <2>1. Few' = Few
      BY DEF NotFound, Few, Patience
    <2>2. QED
      BY <2>1, LenProperties DEF FewInv
  <1>2. Asking /\ ~Serves(Ask.doc) /\ UNCHANGED <<crawler, published, clock, faults>> /\ Again("404", Ask.gone)
    BY DEF NotFound
  <1>3. CASE "404" \notin Ask.stop /\ UNCHANGED <<asks, got, outcome>>
    <2>1. Wanted' = Wanted /\ Ask' = Ask /\ Asking' = Asking /\ (Serves(Ask.doc))' = Serves(Ask.doc)
      BY <1>2, <1>3 DEF Wanted, Ask, Asking, Serves
    <2>2. QED
      BY <1>1, <1>2, <1>3, <2>1 DEF ReadInv, TriedInv
  <1>4. CASE Dispose(Ask.gone)
    <2>1. Ask.doc \notin Wanted
      BY <1>2, WantedIs
    <2>2. Ask.gone \in {"skip", "forget"}
      <3>1. Minded(crawler, Ask)
        BY <1>2, FirstAsk
      <3>2. QED
        BY <1>2, <3>1, RequiredIs DEF Minded
    <2>3. Ask.gone = "forget" => Wanted \cap UnitOf(Ask.doc) = {}
      BY <1>2, UnitUnwanted DEF Serves, Root
    <2>4. QED
      BY <1>1, <1>2, <1>4, <2>1, <2>2, <2>3, DoneWithout
  <1>5. QED
    BY <1>2, <1>3, <1>4 DEF Again

LEMMA FaultReads == ASSUME CrawlInv, ClockInv, FewInv, Fault, Few' PROVE ReadInv' /\ TriedInv'
  <1>a. PICK fault \in FaultsOf : Again(fault, Ask.fails) /\ faults' = Append(faults, fault)
    BY DEF Fault
  <1>2. Asking /\ clock # "wrong" /\ UNCHANGED <<crawler, published, clock>>
    BY DEF Fault
  <1>b. crawler # "SmartOS"
    <2> SUFFICES ASSUME crawler = "SmartOS" PROVE FALSE
      OBVIOUS
    <2> DEFINE K == FaultKinds \cup {fault}
    <2>1. crawler \in Crawlers /\ faults \in Seq(K) /\ fault \in K
      BY DEF CrawlInv, FewInv
    <2> HIDE DEF K
    <2>2. Len(faults) + 1 <= PatienceOf(crawler, published) /\ Len(faults) \in Nat
      BY <1>a, <1>2, <2>1, FewBefore, LenProperties
    <2>3. PatienceOf(crawler, published) = 0
      BY DEF PatienceOf
    <2> QED BY <2>2, <2>3
  <1>1. PICK kind \in {"error", "timeout"} : Again(kind, Ask.fails) /\ faults' = Append(faults, kind)
    BY <1>a, <1>b DEF FaultsOf
  <1>3. crawler \in Crawlers /\ faults \in Seq(FaultKinds) /\ kind \in FaultKinds
    BY DEF CrawlInv, FewInv, FaultKinds
  <1>4. /\ Few /\ Len(faults') = Len(faults) + 1 /\ Len(faults') \in Nat
        /\ Len(faults) + 1 <= PatienceOf(crawler, published)
        /\ kind = "timeout" => crawler # "OpenStack"
    BY <1>1, <1>2, <1>3, FewBefore
  <1>5. ReadInv /\ TriedInv /\ tried \in Nat /\ Len(faults) \in Nat
    BY <1>3, <1>4, LenProperties DEF FewInv
  <1>6. CASE kind \notin Ask.stop /\ tried + 1 < Ask.tries
    <2>1. tried' = tried + 1 /\ UNCHANGED <<asks, got, outcome>>
      BY <1>1, <1>6 DEF Again
    <2>2. QED
      BY <1>2, <1>4, <1>5, <2>1, TriedAgain
  <1>7. CASE ~(kind \notin Ask.stop /\ tried + 1 < Ask.tries)
    <2>1. Dispose(Ask.fails)
      BY <1>1, <1>7 DEF Again
    <2>2. /\ Ask.fails \in {"skip", "forget"} /\ Ask.doc \notin Wanted
          /\ Ask.doc \in TreeDocs => Root \notin published
      BY <1>2, <1>4, <1>7, Harmless
    <2>3. Ask.fails = "forget" => Wanted \cap UnitOf(Ask.doc) = {}
      BY <1>2, <2>2, UnitUnwanted
    <2>4. QED
      BY <1>2, <1>4, <1>5, <2>1, <2>2, <2>3, DoneWithout
  <1>8. QED
    BY <1>6, <1>7

\* A clock that is wrong costs an attempt of the first request, which has them.
LEMMA RefusedReads == ASSUME CrawlInv, ClockInv, FewInv, Refused, Few' PROVE ReadInv' /\ TriedInv'
  <1>1. /\ Asking /\ clock = "wrong" /\ outcome = "crawling"
        /\ UNCHANGED <<crawler, published>> /\ Again("401", Ask.fails)
        /\ (clock' = "known" /\ faults' = faults) \/ (clock' = "wrong" /\ faults' = Append(faults, "undated"))
    BY DEF Refused, Asking
  <1>2. crawler = "MAAS" /\ crawler \in Crawlers /\ asks = Requests("MAAS", published)
        /\ faults \in Seq(FaultKinds) /\ tried \in Nat /\ "undated" \in FaultKinds
    BY <1>1 DEF ClockInv, CrawlInv, FewInv, FaultKinds
  <1>3. Few /\ Len(faults') \in Nat /\ (faults' = faults \/ Len(faults') = Len(faults) + 1)
    BY <1>1, <1>2, FewBefore
  <1>4. ReadInv /\ TriedInv /\ Len(faults) \in Nat
    BY <1>2, <1>3, LenProperties DEF FewInv
  <1>5. Ask.tries = Retries + 1 /\ Ask.stop = NoCodes /\ Ask.gone = "no" /\ Ask.fails = "no"
    BY <1>2, MaasFirst DEF Ask
  <1>6. Serves(Ask.doc)
    BY <1>1, <1>5, RequiredIs
  <1>7. tried <= Len(faults)
    BY <1>1, <1>4, <1>6 DEF TriedInv
  <1>8. Len(faults) <= 1
    <2>1. Patience = PatienceOf(crawler, published)
      BY <1>2 DEF Patience
    <2>2. PatienceOf(crawler, published) <= 1 /\ PatienceOf(crawler, published) \in Nat
      BY <1>2, PatienceIs
    <2>3. QED
      BY <1>3, <1>4, <2>1, <2>2 DEF Few
  <1>9. "401" \notin Ask.stop /\ tried + 1 < Ask.tries
    BY <1>2, <1>4, <1>5, <1>7, <1>8, Numbered DEF NoCodes
  <1>10. tried' = tried + 1 /\ UNCHANGED <<asks, got, outcome>>
    BY <1>1, <1>9 DEF Again
  <1>11. Wanted' = Wanted /\ Ask' = Ask /\ Asking' /\ Requests(crawler, published)' = Requests(crawler, published)
         /\ asks' = Requests(crawler, published)
    BY <1>1, <1>2, <1>10 DEF Wanted, Ask, Asking
  <1>12. ReadInv'
    BY <1>4, <1>10, <1>11 DEF ReadInv
  <1>13. TriedInv'
    <2>1. CASE clock' = "known" /\ faults' = faults
      BY <1>2, <1>4, <1>7, <1>10, <1>11, <2>1 DEF TriedInv
    <2>2. CASE Len(faults') = Len(faults) + 1
      BY <1>2, <1>4, <1>7, <1>10, <1>11, <2>2 DEF TriedInv
    <2>3. QED
      BY <1>1, <1>3, <1>2, FewBefore, <2>1, <2>2
  <1>14. QED
    BY <1>12, <1>13

\* What GCE and SmartOS must have to end well.
LEMMA NotVersions == ToSet(OsVersions) \cap {"user-data", "sdc:uuid", Root} = {}
  <1> DEFINE v1 == "2012-08-10"
             v2 == "2013-04-04"
             v3 == "2013-10-17"
             v4 == "2015-10-15"
  <1>1. {v1, v2, v3, v4} \cap {"user-data", "sdc:uuid", Root} = {}
    BY DEF Root
  <1>2. OsVersions = <<v1, v2, v3, v4>>
    BY DEF OsVersions
  <1> HIDE DEF v1, v2, v3, v4
  <1>3. ToSet(OsVersions) = {v1, v2, v3, v4}
    BY <1>2, Four
  <1>4. QED
    BY <1>1, <1>3

LEMMA EncodingAsked == "user-data-encoding" \in DocsOf(GceCrawl)
  <1> DEFINE a1 == Must(Get("instance-id"), "no")
             a2 == Must(Get("zone"), "no")
             a3 == Must(Get("hostname"), "no")
             a4 == Get("project sshKeys")
             a5 == Get("instance ssh-keys")
             a6 == Get("user-data")
             a7 == Get("user-data-encoding")
  <1>1. GceCrawl = <<a1, a2, a3, a4, a5, a6, a7>>
    BY DEF GceCrawl
  <1>2. a7.doc = "user-data-encoding"
    BY GetAsks DEF AsksFor
  <1> HIDE DEF a1, a2, a3, a4, a5, a6, a7
  <1>3. a7 \in ToSet(GceCrawl)
    BY <1>1, Seven
  <1>4. QED
    BY <1>2, <1>3, DocIn

LEMMA EndReads == ASSUME CrawlInv, FewInv, EndOfCrawl, Few' PROVE ReadInv' /\ TriedInv'
  <1>1. UNCHANGED <<crawler, published, asks, tried, got, clock, faults>> /\ asks = <<>>
        /\ outcome' = IF EndRaises THEN "raised" ELSE "found"
    BY DEF EndOfCrawl
  <1>2. Few /\ ReadInv
    <2>1. Few' = Few
      BY <1>1 DEF Few, Patience
    <2>2. QED
      BY <2>1 DEF FewInv
  <1>3. DocsOf(asks) = {}
    BY <1>1 DEF DocsOf
  <1>4. Wanted \subseteq got
    BY <1>2, <1>3 DEF ReadInv
  <1>5. crawler \in Crawlers /\ published \in Offers[crawler] /\ got \subseteq published \cup TreeDocs
    BY DEF CrawlInv, FewInv
  <1>6. ~EndRaises
    <2>1. ASSUME crawler = "GCE", "user-data-encoding" \in got PROVE "user-data" \in got
      <3>1. Requests(crawler, published) = GceCrawl
        BY <2>1 DEF Requests
      <3>2. "user-data-encoding" \notin TreeDocs
        BY <1>5, <3>1, EncodingAsked, CrawlAssumption DEF Root
      <3>3. "user-data" \in published
        BY <1>5, <2>1, <3>2, OffersAssumption
      <3>4. "user-data" \notin AskedOnce(crawler)
        BY <2>1, OnceIs
      <3>5. QED
        BY <1>4, <3>3, <3>4, NotVersions DEF Wanted
    <2>2. ASSUME crawler = "SmartOS" PROVE "sdc:uuid" \in got
      <3>1. "sdc:uuid" \in published
        BY <1>5, <2>2, OffersAssumption
      <3>2. "sdc:uuid" \notin AskedOnce(crawler)
        BY <2>2, OnceIs
      <3>3. QED
        BY <1>4, <3>1, <3>2, NotVersions DEF Wanted
    <2>3. QED
      BY <2>1, <2>2 DEF EndRaises
  <1>7. Wanted' = Wanted /\ ~Asking'
    BY <1>1 DEF Wanted, Asking
  <1>8. QED
    BY <1>1, <1>4, <1>6, <1>7 DEF ReadInv, TriedInv

\* SmartOS asks for its keys only.
LEMMA SmartOSAsks ==
  ASSUME crawler = "SmartOS", crawler \in Crawlers, published \in Offers[crawler], NEW a \in AllAsks
  PROVE  a.doc \in DocsOf(SmartOSCrawl)
  <1>1. Requests(crawler, published) = SmartOSCrawl
    BY DEF Requests
  <1>2. Minded(crawler, a)
    BY AsksMinded
  <1>3. a.doc \notin TreeDocs \cup {"saved_password"}
    BY <1>2 DEF Minded, Strict
  <1>4. a \in ToSet(SmartOSCrawl)
    <2>1. \A d \in TreeDocs : Branch(d).doc \in TreeDocs
      BY BranchAsks DEF AsksFor
    <2>2. Acknowledge.doc = "saved_password"
      BY AcknowledgeAsks DEF AsksFor
    <2> QED BY <1>1, <1>3, <2>1, <2>2 DEF AllAsks
  <1> QED BY <1>4, DocIn

\* What is so of a crawl however many faults it meets.
LEMMA AnyKept ==
  ASSUME CrawlInv, ClockInv, FewInv, CrawlStep
  PROVE  /\ faults' \in Seq(FaultKinds) /\ tried' \in Nat /\ got' \subseteq published' \cup TreeDocs
         /\ clock' = "wrong" /\ outcome' = "crawling" => asks' = Requests(crawler, published)'
  <1>1. faults' \in Seq(FaultKinds)
    <2>1. \/ faults' = faults
          \/ \E kind \in {"error", "timeout", "hang", "bad", "undated"} : faults' = Append(faults, kind)
          \/ crawler = "SmartOS" /\ Asking /\ faults' = Append(faults, Ask.doc)
      BY DEF CrawlStep, Reply, NotFound, Fault, FaultsOf, Hang, BadContent, Refused, EndOfCrawl
    <2>a. crawler = "SmartOS" /\ Asking => Ask.doc \in FaultKinds
      BY SmartOSAsks, FirstAsk DEF FaultKinds, CrawlInv
    <2>2. \A kind \in FaultKinds : Append(faults, kind) \in Seq(FaultKinds)
      BY AppendProperties DEF FewInv
    <2>3. QED
      BY <2>1, <2>2, <2>a DEF FewInv, FaultKinds
  <1>2. published' = published /\ crawler' = crawler
    BY DEF CrawlStep, Reply, NotFound, Fault, Hang, BadContent, Refused, EndOfCrawl
  <1>3. tried' \in {0, tried + 1, tried}
    BY DEF CrawlStep, Reply, NotFound, Fault, Hang, BadContent, Refused, EndOfCrawl, Again, Dispose
  <1>4. got' \subseteq got \/ (Reply /\ got' = got \cup {Ask.doc})
    BY DEF CrawlStep, Reply, NotFound, Fault, Hang, BadContent, Refused, EndOfCrawl, Again, Dispose
  <1>5. Reply => Ask.doc \in published \cup TreeDocs
    BY DEF Reply, Serves
  <1>6. ASSUME clock' = "wrong", outcome' = "crawling" PROVE asks' = Requests(crawler, published)'
    <2>1. Refused
      BY <1>6 DEF CrawlStep, Reply, NotFound, Fault, Hang, BadContent, EndOfCrawl
    <2>2. Asking /\ crawler = "MAAS" /\ asks = Requests(crawler, published) /\ Again("401", Ask.fails)
      BY <2>1 DEF Refused, ClockInv, FewInv, Asking
    <2>3. Minded(crawler, Ask)
      BY <2>2, FirstAsk
    <2>4. Ask.fails \in {"no", "raise"}
      BY <2>2, <2>3 DEF Minded, Strict
    <2>5. UNCHANGED <<asks, got, outcome>>
      BY <1>6, <2>2, <2>4 DEF Again, Dispose
    <2>6. QED
      BY <1>2, <2>2, <2>5
  <1>7. QED
    BY <1>1, <1>2, <1>3, <1>4, <1>5, <1>6 DEF FewInv

LEMMA FewKept == ASSUME CrawlInv, ClockInv, FewInv, CrawlStep PROVE FewInv'
  <1>1. ASSUME Few' PROVE ReadInv' /\ TriedInv'
    <2>1. CASE Reply BY <1>1, <2>1, ReplyReads
    <2>2. CASE NotFound BY <1>1, <2>2, NotFoundReads
    <2>3. CASE Fault BY <1>1, <2>3, FaultReads
    <2>4. CASE BadContent \/ Hang
      <3>1. /\ \E kind \in {"bad", "hang"} : faults' = Append(faults, kind)
            /\ faults \in Seq(FaultKinds) /\ {"bad", "hang"} \subseteq FaultKinds
            /\ crawler \in Crawlers /\ UNCHANGED <<crawler, published>>
        BY <2>4 DEF BadContent, Hang, FewInv, FaultKinds, CrawlInv
      <3>2. QED
        BY <1>1, <3>1, FewBefore
    <2>5. CASE Refused BY <1>1, <2>5, RefusedReads
    <2>6. CASE EndOfCrawl BY <1>1, <2>6, EndReads
    <2>7. QED
      BY <2>1, <2>2, <2>3, <2>4, <2>5, <2>6 DEF CrawlStep
  <1>2. QED
    BY <1>1, AnyKept DEF FewInv

LEMMA FewStart == ASSUME CrawlInit PROVE FewInv
  <1>1. /\ crawler \in Crawlers /\ published \in Offers[crawler] /\ asks = Requests(crawler, published)
        /\ tried = 0 /\ got = {} /\ outcome = "crawling" /\ faults = <<>>
    BY DEF CrawlInit
  <1>2. faults \in Seq(FaultKinds) /\ Len(faults) = 0
    BY <1>1
  <1>3. Wanted \subseteq DocsOf(asks)
    BY <1>1, WantedAre
  <1>4. QED
    BY <1>1, <1>2, <1>3 DEF FewInv, ReadInv, TriedInv

\* What a crawl with few faults that is over has found is all there is.
LEMMA FewCostNothing == ASSUME CrawlInv, FewInv PROVE FewFaultsCostNothing
  <1> SUFFICES ASSUME outcome # "crawling", Few
               PROVE  /\ outcome = "found" /\ Wanted \subseteq got
                      /\ "meta-data/" \in published => TheTree \subseteq got
    BY DEF FewFaultsCostNothing
  <1>1. outcome = "found" /\ Wanted \subseteq got \cup DocsOf(asks)
    BY DEF FewInv, ReadInv
  <1>2. asks = <<>> /\ TreeInv
    BY <1>1 DEF CrawlInv
  <1>3. Wanted \subseteq got
    BY <1>1, <1>2 DEF DocsOf
  <1>4. ASSUME Root \in published PROVE TheTree \subseteq got
    <2>1. crawler \in Crawlers /\ published \in Offers[crawler]
      BY DEF CrawlInv
    <2>2. Root \notin AskedOnce(crawler)
      BY <2>1, WantedAre, TreeApart
    <2>3. Root \in got
      BY <1>3, <1>4, <2>2, NotVersions DEF Wanted
    <2>4. got \cap TreeDocs # {}
      BY <2>3, TreeApart
    <2>5. QED
      BY <1>1, <2>4, NothingInPart DEF NeverInPart
  <1>5. QED
    BY <1>1, <1>3, <1>4 DEF Root

----------------------------------------------------------------------------
\* The steps of the three keep to themselves.
ServicesInv == WaitInv /\ FabricInv /\ ReadingInv

LEMMA ReadingUnchanged == ASSUME ReadingInv, UNCHANGED crawling PROVE ReadingInv'
  <1>1. UNCHANGED <<crawler, published, asks, tried, got, outcome, clock, faults>>
    BY DEF crawling
  <1>2. NoCrawler' = NoCrawler /\ ClockInv' = ClockInv
    BY <1>1 DEF NoCrawler, ClockInv
  <1>3. CrawlInv' = CrawlInv
    BY <1>1 DEF CrawlInv, AllAsks, TreeInv, Have, Pending, NothingLost, TakenForAbsent, PasswordInv, TheTree, Reached,
                LeftOut
  <1>4. FewInv' = FewInv
    <2>1. Few' = Few /\ ReadInv' = ReadInv
      BY <1>1 DEF Few, Patience, ReadInv, Wanted
    <2>2. TriedInv' = TriedInv
      BY <1>1 DEF TriedInv, Asking, Ask, Serves
    <2>3. QED
      BY <1>1, <2>1, <2>2 DEF FewInv
  <1> QED BY <1>2, <1>3, <1>4 DEF ReadingInv

LEMMA ReadingKept == ASSUME ReadingInv, CrawlStep PROVE ReadingInv'
  <1>1. ~NoCrawler
    BY DEF CrawlStep, Reply, NotFound, Fault, Hang, BadContent, Refused, EndOfCrawl, Asking, NoCrawler
  <1> QED BY <1>1, CrawlKept, FewKept DEF ReadingInv

LEMMA ServicesStart == ASSUME ServicesInit PROVE ServicesInv
  <1>1. ASSUME NoWaiting PROVE WaitInv
    BY <1>1 DEF NoWaiting, WaitInv, Idle
  <1>2. ASSUME NoAzure PROVE FabricInv
    BY <1>2, FabricAssumption
    DEF NoAzure, FabricInv, KeptInv, RestIsKept, ReadyHasKeys, NameInv, NameIsRestored, KeyNotMade
  <1>3. ASSUME Init PROVE WaitInv
    BY <1>3, InitHolds DEF WaitInv
  <1>4. ASSUME NoCrawl PROVE ReadingInv
    BY <1>4 DEF NoCrawl, NoCrawler, ReadingInv, ClockInv
  <1>5. ASSUME CrawlInit PROVE ReadingInv
    <2>1. ClockInv
      BY <1>5 DEF CrawlInit, ClockInv
    <2> QED BY <1>5, <2>1, CrawlStart, FewStart DEF ReadingInv
  <1> QED BY <1>1, <1>2, <1>3, <1>4, <1>5, FabricInit DEF ServicesInit, ServicesInv

LEMMA ServicesKept == ASSUME ServicesInv, [ServicesNext]_services PROVE ServicesInv'
  <1>1. ASSUME WaitStep PROVE ServicesInv'
    BY <1>1, WaitKept, FabricUnchanged, ReadingUnchanged DEF WaitStep, ServicesInv, WaitInv
  <1>2. ASSUME ReadStep PROVE ServicesInv'
    BY <1>2, WaitUnchanged, FabricUnchanged, ReadingKept DEF ReadStep, ServicesInv
  <1>3. ASSUME FabricStep \/ PlatformStep PROVE ServicesInv'
    BY <1>3, WaitUnchanged, FabricStepKeeps, ReadingUnchanged DEF FabricStep, PlatformStep, ServicesInv
  <1>4. ASSUME UNCHANGED services PROVE ServicesInv'
    BY <1>4, WaitUnchanged, FabricUnchanged, ReadingUnchanged DEF services, ServicesInv
  <1> QED BY <1>1, <1>2, <1>3, <1>4 DEF ServicesNext, Rest

THEOREM ServicesInvariant == ServicesSpec => []ServicesInv
  <1>1. ServicesInit => ServicesInv
    BY ServicesStart
  <1>2. ServicesInv /\ [ServicesNext]_services => ServicesInv'
    BY ServicesKept
  <1> QED BY <1>1, <1>2, PTL DEF ServicesSpec

\* Neither the address nor the route of a lease, nor a temporary host name, nor the private
\* key of the fabric's certificates stays behind (EphemeralIPv4Network, temporary_hostname,
\* WALinuxAgentShim.clean_up), unless the command that would have undone it failed or was
\* to come after one that did - or there was nothing to leave: an address stays where the
\* link or the route of its network could not be set, and what there is of a key where its
\* certificate could not be made.
THEOREM NothingStaysAlways == ServicesSpec => []NothingStays
  <1>1. ServicesInv => NothingStays
    <2>1. ASSUME Idle PROVE NothingLeftBehind
      BY <2>1 DEF Idle, NothingLeftBehind
    <2>2. ASSUME TypeOK, LeaseInv PROVE NothingLeftBehind
      BY <2>2, DifferencesAreLeft
    <2> QED BY <2>1, <2>2 DEF ServicesInv, WaitInv, MetadataInv, FabricInv, NothingStays
  <1> QED BY <1>1, ServicesInvariant, PTL

\* wait_for_url gives up in time, for any urls and timeout, and has asked a service that
\* answers: its timeout, cut for good, does not matter.
THEOREM WaitIsFairAlways == ServicesSpec => []WaitIsFair
  <1>1. ServicesInv => WaitIsFair
    <2>1. ASSUME Idle PROVE GivesUpInTime /\ ServiceIsFound
      BY <2>1 DEF Idle, GivesUpInTime, ServiceIsFound
    <2> QED BY <2>1 DEF ServicesInv, WaitInv, MetadataInv, WaitIsFair
  <1> QED BY <1>1, ServicesInvariant, PTL

\* What DataSourceAzure keeps of its environment says the same in later boots, without
\* the password, and the fabric hears of a goal only when its keys are there.
THEOREM AzureIsServedAlways == ServicesSpec => []AzureIsServed
  <1>1. ServicesInv => AzureIsServed
    BY DEF ServicesInv, FabricInv, AzureIsServed
  <1> QED BY <1>1, ServicesInvariant, PTL

\* What a datasource has read when get_data succeeds is whole, whatever failed and came
\* too late: the tree of MetadataMaterializer as its root and its listings have it, what a
\* datasource that does not take a failure for an absence must have - of SmartOS, but for
\* the keys whose frames lost their SUCCESS - the files read_v2 finds named, and a password
\* together with its acknowledgement.
THEOREM NeverInPartAlways == ServicesSpec => []NeverInPart
  <1>1. ServicesInv => NeverInPart
    <2>1. ASSUME NoCrawler PROVE NeverInPart
      BY <2>1 DEF NoCrawler, NeverInPart, Strict
    <2> QED BY <2>1, NothingInPart DEF ServicesInv, ReadingInv
  <1> QED BY <1>1, ServicesInvariant, PTL

\* As long as no more requests fail than readurl and its callers are to try again, each is
\* answered, and nothing comes broken, get_data succeeds and has read all the service has.
THEOREM FewFaultsCostNothingAlways == ServicesSpec => []FewFaultsCostNothing
  <1>1. ServicesInv => FewFaultsCostNothing
    <2>1. ASSUME NoCrawler PROVE FewFaultsCostNothing
      BY <2>1 DEF NoCrawler, FewFaultsCostNothing, Wanted
    <2> QED BY <2>1, FewCostNothing DEF ServicesInv, ReadingInv
  <1> QED BY <1>1, ServicesInvariant, PTL
=============================================================================
