-------------------------- MODULE ResourceManager --------------------------
(***************************************************************************)
(* One server process: the REST handlers that change state, the            *)
(* ResourceManager object they call, and the state file it keeps.          *)
(*                                                                         *)
(* Handlers are "async def" functions that never await, so one call runs   *)
(* to its answer before the next starts; what can come between two of its  *)
(* steps is an I/O error, which the handler does not catch, or the death   *)
(* of the process.  A step is what reaches the disk on its own: the        *)
(* validation and the change of the table in memory, open(tmp, "w"),       *)
(* json.dump with the close that flushes it, os.replace, the answer.       *)
(* Files survive a death; memory does not.                                 *)
(***************************************************************************)
EXTENDS ResourceTable

CONSTANTS
    Operator,      \* the principals whose role is "operator"
    Configs,       \* the sets of keys resources.yaml may hold at a start
    SaveMayFail    \* may the file system refuse a step of _save_state?

ASSUME OperatorAssumption == Operator \subseteq Principal
ASSUME ConfigsAssumption == Configs \subseteq SUBSET Resource
ASSUME SaveMayFailAssumption == SaveMayFail \in BOOLEAN

VARIABLES
    up,            \* is a server process running?
    table,         \* its self._resources
    stateFile,     \* state.json
    tmpFile,       \* state.json.tmp
    pc,            \* where the handler stands
    call,          \* the call it serves, and the answer it is to give
    held,          \* history: held[p] is what p was told it reserved and
                   \* nobody entitled to has asked to release since
    dropped        \* history: dropped[p] is what of it was left out of the state
                   \* file by a save, because resources.yaml no longer had the key

vars == <<up, table, stateFile, tmpFile, pc, call, held, dropped>>

Calls == [op : {"none", "reserve", "release", "release_all"},
          caller : Principal \cup {None},
          target : Principal \cup {None},
          ids : SUBSET Resource,
          code : {0, 200, 400, 403, 409, 500}]

NoCall == [op |-> "none", caller |-> None, target |-> None, ids |-> {}, code |-> 0]

\* What the history loses when c is granted the release of ids: an operator
\* takes them from anyone, another caller only from itself.
HeldAfterRelease(c, ids) ==
    [p \in Principal |-> IF p = c \/ c \in Operator THEN held[p] \ ids ELSE held[p]]

HeldAfterReleaseAll(t) == [held EXCEPT ![t] = {}]

\* What is not held any more is not missed any more.
DroppedOfHeld == dropped' = [p \in Principal |-> dropped[p] \cap held'[p]]

TypeOK ==
    /\ up \in BOOLEAN
    /\ IsTable(table)
    /\ IsFile(stateFile)
    /\ IsFile(tmpFile)
    /\ pc \in {"idle", "save", "dump", "replace", "answer"}
    /\ call \in Calls
    /\ held \in [Principal -> SUBSET Resource]
    /\ dropped \in [Principal -> SUBSET Resource]

Init ==
    /\ up = FALSE
    /\ table = EmptyTable
    /\ stateFile = NoFile
    /\ tmpFile = NoFile
    /\ pc = "idle"
    /\ call = NoCall
    /\ held = [p \in Principal |-> {}]
    /\ dropped = [p \in Principal |-> {}]

-----------------------------------------------------------------------------
(* The process.                                                            *)

Start(config) ==
    /\ ~up
    /\ up' = TRUE
    /\ table' = Loaded(config, stateFile)
    /\ UNCHANGED <<stateFile, tmpFile, pc, call, held, dropped>>

\* The process ends, at any step of a handler.
Crash ==
    /\ up
    /\ up' = FALSE
    /\ table' = EmptyTable
    /\ pc' = "idle"
    /\ call' = NoCall
    /\ UNCHANGED <<stateFile, tmpFile, held, dropped>>

-----------------------------------------------------------------------------
(* The handlers up to the first write, with the code they answer if every  *)
(* write succeeds.                                                         *)

Called(op, c, t, ids, code) ==
    call' = [op |-> op, caller |-> c, target |-> t, ids |-> ids, code |-> code]

\* Slip: keys are marked while they are checked, so a refusal leaves the first ones.
ReserveAsChecked(c, ids, w) ==
    /\ up /\ pc = "idle"
    /\ table' = Reserved(table, {r \in ids : CanReserve(table, {r})}, c, w)
    /\ IF CanReserve(table, ids)
       THEN pc' = "save" /\ Called("reserve", c, None, ids, 200)
       ELSE pc' = "answer" /\ Called("reserve", c, None, ids, 409)
    /\ UNCHANGED <<up, stateFile, tmpFile, held, dropped>>

Reserve(c, ids, w) ==
    /\ up /\ pc = "idle"
    /\ \/ /\ CanReserve(table, ids)
          /\ table' = Reserved(table, ids, c, w)
          /\ pc' = "save"
          /\ Called("reserve", c, None, ids, 200)
       \/ /\ ~CanReserve(table, ids)
          /\ pc' = "answer"
          /\ Called("reserve", c, None, ids, 409)
          /\ UNCHANGED table
    /\ UNCHANGED <<up, stateFile, tmpFile, held, dropped>>

Release(c, ids) ==
    /\ up /\ pc = "idle"
    /\ \/ /\ CanRelease(table, ids, c, c \in Operator)
          /\ table' = Freed(table, ids)
          /\ held' = HeldAfterRelease(c, ids)
          /\ DroppedOfHeld
          /\ pc' = "save"
          /\ Called("release", c, None, ids, 200)
       \/ /\ ~CanRelease(table, ids, c, c \in Operator)
          /\ pc' = "answer"
          /\ Called("release", c, None, ids, 400)
          /\ UNCHANGED <<table, held, dropped>>
    /\ UNCHANGED <<up, stateFile, tmpFile>>

\* Slip: the freed entries are not saved.
ReleaseAllUnsaved(c, t) ==
    /\ up /\ pc = "idle"
    /\ c \in Operator \/ t = c
    /\ table' = Freed(table, OwnedBy(table, t))
    /\ held' = HeldAfterReleaseAll(t)
    /\ DroppedOfHeld
    /\ pc' = "answer"
    /\ Called("release_all", c, t, OwnedBy(table, t), 200)
    /\ UNCHANGED <<up, stateFile, tmpFile>>

\* c asks to release all that t owns; the table is saved only if t owned any.
ReleaseAll(c, t) ==
    /\ up /\ pc = "idle"
    /\ \/ /\ c \in Operator \/ t = c
          /\ table' = Freed(table, OwnedBy(table, t))
          /\ held' = HeldAfterReleaseAll(t)
          /\ DroppedOfHeld
          /\ pc' = IF OwnedBy(table, t) # {} THEN "save" ELSE "answer"
          /\ Called("release_all", c, t, OwnedBy(table, t), 200)
       \/ /\ c \notin Operator /\ t # c
          /\ pc' = "answer"
          /\ Called("release_all", c, t, {}, 403)
          /\ UNCHANGED <<table, held, dropped>>
    /\ UNCHANGED <<up, stateFile, tmpFile>>

-----------------------------------------------------------------------------
(* _save_state, step by step, and the answer.                              *)

\* Slip: the state file itself is opened for writing.
OpenInPlace ==
    /\ pc = "save"
    /\ stateFile' = TornFile
    /\ pc' = "dump"
    /\ UNCHANGED <<up, table, tmpFile, call, held, dropped>>

OpenTmp ==
    /\ pc = "save"
    /\ tmpFile' = TornFile
    /\ pc' = "dump"
    /\ UNCHANGED <<up, table, stateFile, call, held, dropped>>

\* Slip: the write is started over, for ever.
DumpAgain ==
    /\ pc = "dump"
    /\ tmpFile' = WholeFile(table)
    /\ pc' = "save"
    /\ UNCHANGED <<up, table, stateFile, call, held, dropped>>

DumpTmp ==
    /\ pc = "dump"
    /\ tmpFile' = WholeFile(table)
    /\ pc' = "replace"
    /\ UNCHANGED <<up, table, stateFile, call, held, dropped>>

\* The file loses the entries of keys that are not configured, reserved or not.
ReplaceState ==
    /\ pc = "replace"
    /\ stateFile' = tmpFile
    /\ tmpFile' = NoFile
    /\ dropped' = [p \in Principal |-> dropped[p] \cup (held[p] \ DOMAIN table)]
    /\ pc' = "answer"
    /\ UNCHANGED <<up, table, call, held>>

\* An OSError leaves the handler: the client gets a 500, and the change made
\* in memory stays.
SaveFails ==
    /\ SaveMayFail
    /\ pc \in {"save", "dump", "replace"}
    /\ pc' = "answer"
    /\ call' = [call EXCEPT !.code = 500]
    /\ UNCHANGED <<up, table, stateFile, tmpFile, held, dropped>>

Answer ==
    /\ pc = "answer"
    /\ pc' = "idle"
    /\ IF call.op = "reserve" /\ call.code = 200
       THEN /\ held' = [held EXCEPT ![call.caller] = @ \cup call.ids]
            /\ dropped' = [dropped EXCEPT ![call.caller] = @ \ call.ids]
       ELSE UNCHANGED <<held, dropped>>
    /\ call' = NoCall
    /\ UNCHANGED <<up, table, stateFile, tmpFile>>

-----------------------------------------------------------------------------
ServerStep == OpenTmp \/ DumpTmp \/ ReplaceState \/ SaveFails \/ Answer

ClientCall == \E c \in Principal :
                \/ \E ids \in (SUBSET Resource) \ {{}} :
                      \/ \E w \in Who \cup {None} : Reserve(c, ids, w)
                      \/ Release(c, ids)
                \/ \E t \in Principal : ReleaseAll(c, t)

Next == \/ \E config \in Configs : Start(config)
        \/ Crash
        \/ ClientCall
        \/ ServerStep

Spec == Init /\ [][Next]_vars

\* The event loop runs a handler it has started; nothing makes clients call,
\* processes die or administrators restart them.
FairSpec == Spec /\ WF_vars(ServerStep)

-----------------------------------------------------------------------------
(* Properties.                                                             *)

\* The field an operation tests always tells the truth about the fields the
\* other operations test: reserve looks at status, release at both, release-all
\* at owner only, and a file is believed as it is.  (resource_manager.py:117-187)
EntriesConsistent ==
    Consistent(table) /\ Consistent(stateFile.table) /\ Consistent(tmpFile.table)

\* Exclusive access: whatever is asked, refused, half saved or lost with the
\* process, two principals never both hold a successful reservation of one
\* resource, with one exception.  A reservation that a save dropped with its key
\* is forgotten by the server and not by its holder: when the key is configured
\* again, another client is told that it has the resource too.
\* (README: the server "grants or denies them atomically"; resource_manager.py:96-103)
NoDoubleGrant ==
    \A p, q \in Principal : p # q => held[p] \cap held[q] \subseteq dropped[p] \cup dropped[q]

\* What p was told of and no save has dropped.
Kept(p) == held[p] \ dropped[p]

\* A reservation a client was told of is in the state file, and in memory whenever
\* the server runs with its key configured, until its holder or an operator asks to
\* release it: no crash, failed save, refused call or other client's call loses it,
\* nor does a start without its key.  Only a save of a server that was started
\* without the key drops it.
HeldIsDurable ==
    \A p \in Principal :
        /\ Kept(p) \subseteq OwnedBy(stateFile.table, p)
        /\ up => Kept(p) \cap DOMAIN table \subseteq OwnedBy(table, p)

\* Wherever the process dies, the state file is whole or was never written, so
\* _load_state's "corrupt state file - start fresh" cannot discard reservations.
StateFileNeverTorn == stateFile.form # "torn"

\* A resource changes hands only through a release: while the server runs no
\* step turns one owner into another, and an owner loses a resource only in a
\* call of its own or an operator's.
OwnerYields ==
    up /\ up' => \A r \in DOMAIN table :
        table[r].owner # None /\ table'[r].owner # table[r].owner =>
            /\ table'[r] = FreeEntry
            /\ call'.caller = table[r].owner \/ call'.caller \in Operator

OwnersYield == [][OwnerYields]_vars

\* When a change is answered as done, it is on disk: the next start finds what
\* the clients were told.  (README: "reservations persist across server
\* restarts via a state file")
AnsweredIsOnDisk ==
    pc = "answer" /\ call.code = 200 => Loaded(DOMAIN table, stateFile) = table

\* A client told that all its reservations are released owns none in the state
\* file, so that none comes back with the next start.
ReleasedAllStaysReleased ==
    pc = "answer" /\ call.op = "release_all" /\ call.code = 200
        => OwnedBy(stateFile.table, call.target) = {}

\* A call that reached the handler is answered, or the process dies first.
CallAnswered == (pc = "save") ~> (pc = "answer" \/ ~up)

-----------------------------------------------------------------------------
(* Refinement.  The abstract holder of a resource is its owner in the state *)
(* file: os.replace is the moment a call takes effect.                      *)

Disk == Loaded(Resource, stateFile)

Holder == [r \in Resource |-> Disk[r].owner]

Abstract == INSTANCE Arbiter WITH holder <- Holder

\* Every behaviour of the server, crashes included, is one of the arbiter, if
\* the configuration stays and the file system does not fail.
ImplementsArbiter == Abstract!Spec

\* What is left of it otherwise.  Memory and file are two records here, and an
\* answer with 200 confirms the change of its list.
Owners(t) == [r \in DOMAIN t |-> t[r].owner]

Confirmed == [by |-> call.caller, changed |-> IF call.code = 200 THEN call.ids ELSE {}]

Durable == INSTANCE DurableArbiter
           WITH running <- up, granted <- Owners(table), saved <- Owners(stateFile.table),
                request <- Confirmed

\* Every behaviour of the server is one of the durable arbiter, whatever saves fail
\* and whatever configuration a start finds: a list is changed whole or left alone,
\* the file is what memory was at the end of some change, whoever has the right to
\* a change gets it, and a change that is answered with 200 is on disk with all that
\* earlier calls failed to save.  (mu2e-resource-manager.py:93, "All-or-nothing")
ImplementsDurableArbiter == Durable!Spec
=============================================================================
