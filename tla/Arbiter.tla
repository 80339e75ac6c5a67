------------------------------ MODULE Arbiter ------------------------------
(***************************************************************************)
(* What the service promises: a single arbiter that grants a set of        *)
(* resources to one principal or to nobody, takes them back on request of  *)
(* the holder or of an operator, and forgets nothing when it restarts.     *)
(* ResourceManager implements it.                                          *)
(***************************************************************************)
CONSTANTS Resource, Principal, Operator, None

VARIABLE holder      \* holder[r]: the principal r is granted to, or None

Init == holder = [r \in Resource |-> None]

Grant(p, S) ==
    /\ \A r \in S : holder[r] = None
    /\ holder' = [r \in Resource |-> IF r \in S THEN p ELSE holder[r]]

Release(p, S) ==
    /\ \A r \in S : holder[r] # None /\ (holder[r] = p \/ p \in Operator)
    /\ holder' = [r \in Resource |-> IF r \in S THEN None ELSE holder[r]]

ReleaseAll(p, t) ==
    /\ p = t \/ p \in Operator
    /\ holder' = [r \in Resource |-> IF holder[r] = t THEN None ELSE holder[r]]

Next == \E p \in Principal :
            \/ \E S \in (SUBSET Resource) \ {{}} : Grant(p, S) \/ Release(p, S)
            \/ \E t \in Principal : ReleaseAll(p, t)

Spec == Init /\ [][Next]_holder
=============================================================================
