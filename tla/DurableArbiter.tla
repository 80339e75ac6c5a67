--------------------------- MODULE DurableArbiter ---------------------------
(***************************************************************************)
(* What the service promises when its file system fails and its            *)
(* configuration changes, where Arbiter is too much to ask: an arbiter     *)
(* that serves one request after the other, grants a list whole or not at  *)
(* all, keeps a record that is always what it had granted at the end of    *)
(* some change, and confirms a change only when the record has it.         *)
(* ResourceManager implements it.                                          *)
(***************************************************************************)
CONSTANTS Resource, Principal, Operator, Configs, None

VARIABLES
    running,     \* does the arbiter run?
    granted,     \* granted[r]: the principal r is granted to, or None
    saved,       \* the record, which outlives it
    request      \* whom it serves, and the resources whose change it is to confirm

vars == <<running, granted, saved, request>>

Nothing == [r \in {} |-> None]

Nobody == [by |-> None, changed |-> {}]

Init == running = FALSE /\ granted = Nothing /\ saved = Nothing /\ request = Nobody

\* What the record says of the resources it is given; of new ones it knows nothing.
Start(config) ==
    /\ ~running
    /\ running' = TRUE
    /\ granted' = [r \in config |-> IF r \in DOMAIN saved THEN saved[r] ELSE None]
    /\ UNCHANGED <<saved, request>>

\* The end of the process, in the middle of a request or between two.
Stop ==
    /\ running' = FALSE
    /\ granted' = Nothing
    /\ request' = Nobody
    /\ UNCHANGED saved

\* p asks for a change of S to holder: all of it, or none if it is not allowed.
Ask(p, S, holder, allowed) ==
    /\ running /\ request = Nobody
    /\ granted' = [r \in DOMAIN granted |-> IF allowed /\ r \in S THEN holder ELSE granted[r]]
    /\ request' = [by |-> p, changed |-> IF allowed THEN S ELSE {}]
    /\ UNCHANGED <<running, saved>>

Reserve(p, S) == Ask(p, S, p, \A r \in S : r \in DOMAIN granted /\ granted[r] = None)

Release(p, S) ==
    Ask(p, S, None, \A r \in S : /\ r \in DOMAIN granted /\ granted[r] # None
                                 /\ granted[r] = p \/ p \in Operator)

ReleaseAll(p, t) ==
    Ask(p, {r \in DOMAIN granted : granted[r] = t}, None, p = t \/ p \in Operator)

Save ==
    /\ request.changed # {}
    /\ saved' = granted
    /\ UNCHANGED <<running, granted, request>>

\* The change stays, but nothing is confirmed.
Fail ==
    /\ request # Nobody
    /\ request' = [request EXCEPT !.changed = {}]
    /\ UNCHANGED <<running, granted, saved>>

Answer ==
    /\ request # Nobody
    /\ request.changed # {} => saved = granted
    /\ request' = Nobody
    /\ UNCHANGED <<running, granted, saved>>

Next == \/ \E config \in Configs : Start(config)
        \/ \E p \in Principal :
              \/ \E S \in (SUBSET Resource) \ {{}} : Reserve(p, S) \/ Release(p, S)
              \/ \E t \in Principal : ReleaseAll(p, t)
        \/ Stop \/ Save \/ Fail \/ Answer

Spec == Init /\ [][Next]_vars
=============================================================================
