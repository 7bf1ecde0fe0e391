------------------------------ MODULE MCBoot ------------------------------
(***************************************************************************)
(* Boot for TLC: machines of the kinds the datasource classes come in.     *)
(***************************************************************************)
EXTENDS Boot, FiniteSets

M(i, c, d, n, k) == [iid |-> i, class |-> c, dsmode |-> d, netcfg |-> n, check |-> k]

\* ConfigDrive in dsmode local, which does everything in the local stage; EC2,
\* found in the network stage, with a network config and no check.
LocalAndNetwork == {M("a", "local", "local", TRUE, TRUE), M("b", "network", "network", TRUE, FALSE)}

\* Azure: found in the local stage, finished in the network stage; and the same
\* without a check (OVF).
LocalFinishedLater == {M("a", "local", "network", TRUE, TRUE), M("b", "local", "network", FALSE, FALSE)}

\* A NoCloud seed on a server that says dsmode local, with those two.
AndForgotten == LocalAndNetwork \cup {M("c", "network", "local", FALSE, FALSE)}

FourIids == {"a", "b", "c", "iid-datasource-none"}
ThreeIids == {"a", "b", "iid-datasource-none"}
\* Bound: the image has been on two instances at most, DataSourceNone's counted.
Visited == {i \in Iids : i \in {link, iidFile} \cup sem \/ pkl[i] # None}
TwoInstances == Cardinality(Visited) <= 2

NeverManual == {FALSE}
MaybeManual == BOOLEAN
===========================================================================
