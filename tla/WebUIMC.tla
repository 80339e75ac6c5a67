------------------------------ MODULE WebUIMC ------------------------------
(***************************************************************************)
(* Small instances of WebUI for TLC.                                       *)
(***************************************************************************)
EXTENDS WebUI

CONSTANTS a, o, ta, to, bad

\* A client and an operator; the token bad is not in the file.
Entries == <<[token |-> ta, principal |-> a, role |-> "client"],
             [token |-> to, principal |-> o, role |-> "operator"]>>
=============================================================================
