--------------------------- MODULE ResourceTable ---------------------------
(***************************************************************************)
(* The table of resources of server/resource_manager.py: what its entries  *)
(* are, the checks its operations make before they touch any entry, and    *)
(* what they leave.  No state: ResourceManager, ApiServer and Daemon keep   *)
(* tables and move them with these operators.                              *)
(*                                                                         *)
(* A resource stands for its key "class:name:enumerator"; its location and *)
(* ports are never written after the configuration is read, so they are    *)
(* left out.  A request's list of identifiers is a SET: both loops of an   *)
(* operation do the same thing to a key however often it is listed.        *)
(***************************************************************************)
CONSTANTS
    Resource,      \* every key a configuration or a request may name
    Principal,     \* authenticated names
    Who,           \* free-text annotations a reservation may carry
    None           \* Python's None

ASSUME NoneAssumption == None \notin Principal /\ None \notin Who

Entry == [status : {"available", "reserved"},
          owner  : Principal \cup {None},
          who    : Who \cup {None}]

\* Slip: the owner is cleared to an empty string.
FreeEntryUnowned == [status |-> "available", owner |-> "", who |-> None]

FreeEntry == [status |-> "available", owner |-> None, who |-> None]

ReservedEntry(p, w) == [status |-> "reserved", owner |-> p, who |-> w]

\* A table maps the configured keys, and no others, to their entries.
IsTable(t) == DOMAIN t \subseteq Resource /\ t \in [DOMAIN t -> Entry]

EmptyTable == [r \in {} |-> FreeEntry]

\* Slip: one available key is enough.
CanReserveAny(t, ids) == \E r \in ids : r \in DOMAIN t /\ t[r].status # "reserved"

\* Validation of reserve_resources: every key is configured and not reserved.
CanReserve(t, ids) == \A r \in ids : r \in DOMAIN t /\ t[r].status # "reserved"

Reserved(t, ids, p, w) ==
    [r \in DOMAIN t |-> IF r \in ids THEN ReservedEntry(p, w) ELSE t[r]]

\* Slip: ownership is not checked.
CanReleaseUnowned(t, ids, p, override) ==
    \A r \in ids : r \in DOMAIN t /\ t[r].status # "available"

\* Validation of release_resources: every key is configured, not available,
\* and owned by the caller unless an operator overrides ownership.
CanRelease(t, ids, p, override) ==
    \A r \in ids : /\ r \in DOMAIN t
                   /\ t[r].status # "available"
                   /\ t[r].owner = p \/ override

\* Slip: the status goes back to available and the owner stays.
FreedOwned(t, ids) ==
    [r \in DOMAIN t |-> IF r \in ids THEN [t[r] EXCEPT !.status = "available"] ELSE t[r]]

Freed(t, ids) == [r \in DOMAIN t |-> IF r \in ids THEN FreeEntry ELSE t[r]]

\* What release_all_for_client frees: it looks at the owner, not at the status.
OwnedBy(t, p) == {r \in DOMAIN t : t[r].owner = p}

(***************************************************************************)
(* A file of the state directory: missing, cut short by a write that did   *)
(* not end, or a whole JSON table.                                         *)
(***************************************************************************)
NoFile == [form |-> "absent", table |-> EmptyTable]
TornFile == [form |-> "torn", table |-> EmptyTable]
WholeFile(t) == [form |-> "whole", table |-> t]

IsFile(f) == \/ f \in {NoFile, TornFile}
             \/ f = WholeFile(f.table) /\ IsTable(f.table)

\* Slip: the state file is not read.
LoadedFresh(config, file) == [r \in config |-> FreeEntry]

\* __init__: the configuration's resources, all available, overlaid with the
\* entries of the state file for the keys that are configured.  A missing or
\* an unreadable file overlays nothing.
Loaded(config, file) ==
    [r \in config |-> IF file.form = "whole" /\ r \in DOMAIN file.table
                      THEN file.table[r] ELSE FreeEntry]

\* status, owner and who of an entry agree; None is never a reservation's owner.
Consistent(t) ==
    \A r \in DOMAIN t : \/ t[r] = FreeEntry
                        \/ t[r].status = "reserved" /\ t[r].owner \in Principal
=============================================================================
