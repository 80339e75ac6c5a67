------------------------- MODULE ResourceManagerMC -------------------------
(***************************************************************************)
(* Small instances of ResourceManager for TLC.                             *)
(***************************************************************************)
EXTENDS ResourceManager, TLC

\* Clients without a role are interchangeable, resources are too when every
\* configuration with one of them exists with the other.
Symmetric == Permutations(Principal \ Operator) \cup Permutations(Resource)

\* Every configuration an administrator may leave.
AnyConfig == SUBSET Resource

\* The configuration never changes.
OneConfig == {Resource}
=============================================================================
