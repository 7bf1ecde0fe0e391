--------------------------- MODULE MCPartHandlers ---------------------------
(***************************************************************************)
(* PartHandlers for TLC.                                                   *)
(***************************************************************************)
EXTENDS PartHandlers

H(n, ts, f, l) == [name |-> n, types |-> ts, freq |-> f, lists |-> l]

\* Code for a type of its own and for one of the cloud-config handler's, in
\* either frequency; code for a script; code whose list_types raises.
Own == H("own", {"own", "jsonp"}, "instance", TRUE)
Always == H("always", {"own"}, "always", TRUE)
Takes == H("takes", {"script"}, "always", TRUE)
Broken == H("broken", {"own"}, "always", FALSE)

AllCode == {Own, Always, Takes, Broken}
InCloudDir == {Takes}

P(t, b) == [type |-> t, body |-> b, code |-> None]
C(h) == [type |-> "handler", body |-> "good", code |-> h]
Code == {C(h) : h \in {Own, Always, Broken}}
Other == {P("cc", "good"), P("cc", "bad"), P("jsonp", "good"), P("own", "good"), P("script", "garbled")}

UpTo(n, ps) == UNION {[1..k -> ps] : k \in 0..n}
Streams3 == UpTo(2, Code \cup Other) \cup [1..3 -> Code \cup {P("cc", "good"), P("own", "good")}]
CodeOnly == UpTo(2, {C(Own), C(Always)})

NoTypes == {}
NoJsonp == {"jsonp"}
=============================================================================
