----------------------------- MODULE AtMostOnce -----------------------------
(***************************************************************************)
(* What cloud-init promises of everything it calls "per instance" or       *)
(* "per once": each item - a functor and the instance or the machine it is *)
(* guarded for - is carried out at most once.  An item that was carried    *)
(* out before the history begins counts.                                   *)
(***************************************************************************)
EXTENDS Naturals

CONSTANT Items

VARIABLE count

Init == count \in [Items -> 0..1]

Perform(i) ==
    /\ count[i] = 0
    /\ count' = [count EXCEPT ![i] = 1]

Next == \E i \in Items : Perform(i)

Spec == Init /\ [][Next]_count
=============================================================================
