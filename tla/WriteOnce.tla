----------------------------- MODULE WriteOnce ------------------------------
(***************************************************************************)
(* What a store of results promises its readers: for each key one value is *)
(* written, it never changes, and whoever is answered is answered with it. *)
(***************************************************************************)
CONSTANTS Keys, Nothing

VARIABLES value, served

Init ==
    /\ value = [k \in Keys |-> Nothing]
    /\ served = [k \in Keys |-> {}]

Write(k) ==
    /\ value[k] = Nothing
    /\ value' = [value EXCEPT ![k] = value'[k]]
    /\ UNCHANGED served

Serve(k) ==
    /\ value[k] # Nothing
    /\ served' = [served EXCEPT ![k] = @ \cup {value[k]}]
    /\ UNCHANGED value

Next == \E k \in Keys : Serve(k) \/ Write(k)

Spec == Init /\ [][Next]_<<value, served>>
=============================================================================
