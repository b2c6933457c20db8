-------------------------- MODULE OrderedChannel --------------------------
(***************************************************************************)
(* What an error-correcting link promises its two terminals even when it   *)
(* may have to give data up: each end receives some of the items the other *)
(* end wrote, each at most once, in the order in which they were written.  *)
(* The n-th item that an end writes is the number n.                       *)
(***************************************************************************)
EXTENDS Integers, Sequences

CONSTANTS End,     \* the two ends
          Other    \* Other[e]: the end across

VARIABLES accepted,  \* accepted[e]: how many items e wrote
          got        \* got[e]: the items handed to e, in order

LastGot(e) == IF got[e] = <<>> THEN 0 ELSE got[e][Len(got[e])]

Init == /\ accepted = [e \in End |-> 0]
        /\ got = [e \in End |-> <<>>]

Accept(e) == /\ accepted' = [accepted EXCEPT ![e] = @ + 1]
             /\ UNCHANGED got

Deliver(e) ==
    /\ \E n \in LastGot(e) + 1 .. accepted[Other[e]] :
          got' = [got EXCEPT ![e] = Append(@, n)]
    /\ UNCHANGED accepted

Next == \E e \in End : Accept(e) \/ Deliver(e)

Spec == Init /\ [][Next]_<<accepted, got>>

=============================================================================
