---------------------------- MODULE DiscoveryMC ----------------------------
(***************************************************************************)
(* Small instances of Discovery for TLC.                                   *)
(***************************************************************************)
EXTENDS Discovery

CONSTANTS m1, m2

At(home, bind, port, advertise, lan) ==
    [home |-> home, bind |-> bind, port |-> port, advertise |-> advertise, lan |-> lan]

User(machine, lang, host, port, discover) ==
    [machine |-> machine, lang |-> lang, host |-> host, port |-> port, discover |-> discover]

\* Two servers that want one port of their machine, on all interfaces and on one,
\* and a server on all interfaces of a machine whose route comes and goes.
Servers == {At(m1, AnyAddress, 8081, None, {m1}), At(m1, m1, 8081, None, {m1}),
            At(m2, AnyAddress, 8080, None, {m2, Loopback})}

\* Tools that search, from both machines, and one that is told where to go.
Tools == {User(m2, "python", None, None, TRUE), User(m1, "c++", None, None, TRUE),
          User(m2, "c++", m1, 8081, TRUE)}
=============================================================================
