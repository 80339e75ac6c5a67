-------------------------------- MODULE Auth --------------------------------
(***************************************************************************)
(* server/auth.py: who a request is from.  The backend reads its token     *)
(* file once, before the server listens, so the file is a constant here.   *)
(*                                                                         *)
(* A header is what _extract_bearer makes of it: the bearer token, or None *)
(* for a header that is absent, of another scheme or without a token.      *)
(***************************************************************************)
EXTENDS FiniteSetsExt

CONSTANTS
    TokenEntries,   \* the auth.tokens list: records token, principal, role
    AuthDisabled,   \* --no-auth, RM_AUTH_DISABLED
    Anonymous,      \* the name of the caller when authentication is off
    None

\* _load skips an entry without a token or a principal.
Usable(e) == e.token # None /\ e.principal # None

EntriesOf(token) ==
    {i \in DOMAIN TokenEntries : Usable(TokenEntries[i]) /\ TokenEntries[i].token = token}

\* The entries are read into a dictionary in order: the last of a token counts.
PrincipalFor(token) ==
    IF EntriesOf(token) = {} THEN None
    ELSE LET e == TokenEntries[Max(EntriesOf(token))]
         IN  [name |-> e.principal, role |-> e.role]

IsOperator(principal) == principal.role = "operator"

\* require_principal: None stands for its 401.
RequirePrincipal(header) ==
    IF AuthDisabled THEN [name |-> Anonymous, role |-> "operator"]
    ELSE IF header = None THEN None
    ELSE PrincipalFor(header)
=============================================================================
