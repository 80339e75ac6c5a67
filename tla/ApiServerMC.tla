---------------------------- MODULE ApiServerMC ----------------------------
(***************************************************************************)
(* Small instances of ApiServer for TLC.                                   *)
(***************************************************************************)
EXTENDS ApiServer, TLC

CONSTANTS r1, r2, r3, a, b, o, ta, tb, to, term1, term2

\* A token file with an entry that is skipped and a token listed twice.
Entries == <<[token |-> ta, principal |-> b,    role |-> "operator"],
             [token |-> tb, principal |-> b,    role |-> "client"],
             [token |-> to, principal |-> None, role |-> "operator"],
             [token |-> ta, principal |-> a,    role |-> "client"],
             [token |-> to, principal |-> o,    role |-> "operator"]>>

Job(tool, op, ids, client, token) ==
    [tool |-> tool, op |-> op, ids |-> ids, client |-> client, token |-> token]

\* Two clients that overlap, one that names another, an operator that
\* clears up, a resource the server does not have, and the demos, one without a token.
MixedJobs ==
    {Job("rm-cli", "reserve", {r1, r2}, a, ta),
     Job("rm_cli.py", "reserve", {r2}, a, tb),
     Job("rm_cli.py", "release", {r1, r2}, a, ta),
     Job("rm-cli", "release", {r1, r2}, b, tb),
     Job("rm_cli.py", "release_all", {}, a, tb),
     Job("rm_cli.py", "release_all", {}, a, to),
     Job("rm_cli.py", "get", {r3}, a, None),
     Job("rm-demo", "list", {}, DemoId, ta),
     Job("demo_client.py", "list", {}, DemoId, None)}

\* The C++ tool asks for the release of another client's resources.
CppReleaseAll ==
    {Job("rm-cli", "reserve", {r1}, a, ta), Job("rm-cli", "release_all", {}, a, tb)}

\* The README's C++ example: no token, one client id from reserve to releaseAll.
\* rm-cli makes the library calls of the example, a command for each.
ReadmeExample ==
    {Job("rm-cli", "reserve", {r1}, a, None), Job("rm-cli", "release_all", {}, a, None)}

\* Terminals are interchangeable.
Symmetric == Permutations(Command)
=============================================================================
