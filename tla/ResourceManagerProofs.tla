----------------------- MODULE ResourceManagerProofs -----------------------
(***************************************************************************)
(* Proofs about ResourceManager for every set of resources, principals,    *)
(* operators and configurations, with saves that may fail and processes    *)
(* that may die at any step.                                               *)
(***************************************************************************)
EXTENDS ResourceManager, TLAPS

USE NoneAssumption, OperatorAssumption

(***************************************************************************)
(* The operators of ResourceTable build tables from tables.                *)
(***************************************************************************)

\* The empty table, which a process that does not run stands for, is a table.
LEMMA EmptyTableIsTable ==
    IsTable(EmptyTable) /\ Consistent(EmptyTable)
BY DEF IsTable, EmptyTable, Consistent

\* reserve_resources leaves a table, whose entries stay consistent.
LEMMA ReservedTable ==
    ASSUME NEW t, IsTable(t), NEW ids, NEW p \in Principal, NEW w \in Who \cup {None}
    PROVE  /\ IsTable(Reserved(t, ids, p, w))
           /\ Consistent(t) => Consistent(Reserved(t, ids, p, w))
BY DEF IsTable, Entry, Reserved, ReservedEntry, Consistent

\* A release leaves a table, whose entries stay consistent.
LEMMA FreedTable ==
    ASSUME NEW t, IsTable(t), NEW ids
    PROVE  /\ IsTable(Freed(t, ids))
           /\ Consistent(t) => Consistent(Freed(t, ids))
BY DEF IsTable, Entry, Freed, FreeEntry, Consistent

\* __init__ builds a consistent table from any file a process can have left.
LEMMA LoadedTable ==
    ASSUME NEW config \in SUBSET Resource, NEW f, IsFile(f)
    PROVE  /\ IsTable(Loaded(config, f))
           /\ Consistent(f.table) => Consistent(Loaded(config, f))
BY DEF IsTable, IsFile, NoFile, TornFile, WholeFile, Entry, Loaded, FreeEntry, Consistent

\* Files are files.
LEMMA FilesAreFiles ==
    /\ IsFile(NoFile) /\ IsFile(TornFile)
    /\ \A t : IsTable(t) => IsFile(WholeFile(t))
BY EmptyTableIsTable DEF IsFile, NoFile, TornFile, WholeFile

-----------------------------------------------------------------------------
(***************************************************************************)
(* Type correctness.                                                       *)
(***************************************************************************)
\* The idle handler's call is a call.
LEMMA NoCallIsCall == NoCall \in Calls
BY DEF NoCall, Calls

\* Before the first start every variable has its type.
LEMMA TypeInit == Init => TypeOK
<1> SUFFICES ASSUME Init PROVE TypeOK
  OBVIOUS
<1>1. IsTable(table) /\ IsFile(stateFile) /\ IsFile(tmpFile)
  BY EmptyTableIsTable, FilesAreFiles DEF Init
<1>2. up \in BOOLEAN /\ pc \in {"idle", "save", "dump", "replace", "answer"}
  BY DEF Init
<1>3. /\ call \in Calls
      /\ held \in [Principal -> SUBSET Resource]
      /\ dropped \in [Principal -> SUBSET Resource]
  BY NoCallIsCall DEF Init
<1> QED
  BY <1>1, <1>2, <1>3 DEF TypeOK

\* Every step of the handlers, the saves and the process keeps the types.
LEMMA TypeStep == TypeOK /\ [Next]_vars => TypeOK'
<1> SUFFICES ASSUME TypeOK, [Next]_vars PROVE TypeOK'
  OBVIOUS
<1> USE DEF TypeOK
<1>1. ASSUME NEW config \in Configs, Start(config) PROVE TypeOK'
  BY <1>1, ConfigsAssumption, LoadedTable DEF Start
<1>2. CASE Crash
  BY <1>2, EmptyTableIsTable, NoCallIsCall DEF Crash
<1>3. ASSUME NEW c \in Principal, NEW ids \in SUBSET Resource,
             NEW w \in Who \cup {None}, Reserve(c, ids, w)
      PROVE  TypeOK'
  BY <1>3, ReservedTable DEF Reserve, Called, Calls
<1>4. ASSUME NEW c \in Principal, NEW ids \in SUBSET Resource, Release(c, ids)
      PROVE  TypeOK'
  BY <1>4, FreedTable DEF Release, Called, Calls, HeldAfterRelease, DroppedOfHeld
<1>5. ASSUME NEW c \in Principal, NEW t \in Principal, ReleaseAll(c, t)
      PROVE  TypeOK'
  <2>1. OwnedBy(table, t) \in SUBSET Resource
    BY DEF OwnedBy, IsTable
  <2> QED
    BY <1>5, <2>1, FreedTable DEF ReleaseAll, Called, Calls, HeldAfterReleaseAll, DroppedOfHeld
<1>6. CASE OpenTmp
  BY <1>6, FilesAreFiles DEF OpenTmp
<1>7. CASE DumpTmp
  BY <1>7, FilesAreFiles DEF DumpTmp
<1>8. CASE ReplaceState
  BY <1>8, FilesAreFiles DEF ReplaceState
<1>9. CASE SaveFails
  BY <1>9 DEF SaveFails, Calls
<1>10. CASE Answer
  <2>1. call.ids \in SUBSET Resource
    BY DEF Calls
  <2>2. held' \in [Principal -> SUBSET Resource] /\ dropped' \in [Principal -> SUBSET Resource]
    <3>1. CASE call.op = "reserve" /\ call.code = 200
      <4>1. /\ held' = [held EXCEPT ![call.caller] = @ \cup call.ids]
            /\ dropped' = [dropped EXCEPT ![call.caller] = @ \ call.ids]
        BY <1>10, <3>1 DEF Answer
      <4> QED
        BY <4>1, <2>1
    <3>2. CASE ~(call.op = "reserve" /\ call.code = 200)
      <4>1. held' = held /\ dropped' = dropped
        BY <1>10, <3>2 DEF Answer
      <4> QED
        BY <4>1
    <3> QED
      BY <3>1, <3>2
  <2> QED
    BY <1>10, <2>2, NoCallIsCall DEF Answer
<1>11. CASE UNCHANGED vars
  BY <1>11 DEF vars
<1> QED
  BY <1>1, <1>2, <1>3, <1>4, <1>5, <1>6, <1>7, <1>8, <1>9, <1>10, <1>11
  DEF Next, ClientCall, ServerStep

\* Every variable keeps its type: the tables are tables over configured keys,
\* the files are files, whatever step of a save fails or is the last one.
THEOREM TypeCorrect == Spec => []TypeOK
BY TypeInit, TypeStep, PTL DEF Spec
-----------------------------------------------------------------------------
(***************************************************************************)
(* What an operation does to the resources a principal owns.               *)
(***************************************************************************)

\* A reservation that passed its checks takes nothing from any owner and gives
\* the caller every key it asked for.
LEMMA ReservedOwners ==
    ASSUME NEW t, IsTable(t), Consistent(t), NEW ids, CanReserve(t, ids),
           NEW p \in Principal, NEW w
    PROVE  /\ ids \subseteq OwnedBy(Reserved(t, ids, p, w), p)
           /\ \A q \in Principal : OwnedBy(t, q) \subseteq OwnedBy(Reserved(t, ids, p, w), q)
BY DEF IsTable, Entry, Reserved, ReservedEntry, FreeEntry, Consistent, CanReserve, OwnedBy

\* A release takes from each owner exactly the freed keys it had.
LEMMA FreedOwners ==
    ASSUME NEW t, NEW ids, NEW q \in Principal
    PROVE  OwnedBy(Freed(t, ids), q) = OwnedBy(t, q) \ ids
BY DEF Freed, FreeEntry, OwnedBy

\* A start finds every owner of a configured key in a file that is not torn.
LEMMA LoadedOwners ==
    ASSUME NEW config, NEW f, IsFile(f), NEW q \in Principal
    PROVE  OwnedBy(f.table, q) \cap config \subseteq OwnedBy(Loaded(config, f), q)
BY DEF IsFile, NoFile, TornFile, WholeFile, EmptyTable, Loaded, OwnedBy

\* No resource has two owners.
LEMMA OneOwner ==
    ASSUME NEW t, NEW p, NEW q, p # q
    PROVE  OwnedBy(t, p) \cap OwnedBy(t, q) = {}
BY DEF OwnedBy

-----------------------------------------------------------------------------
(***************************************************************************)
(* The inductive invariant.  HeldIsDurable is not inductive: between the   *)
(* change in memory and os.replace the file is behind the table, so one    *)
(* must know what the temporary file holds before it becomes the state     *)
(* file, and that a successful reservation about to be answered is in both.*)
(***************************************************************************)

\* Only a running process is inside a handler.
HandlerRuns == ~up => pc = "idle"

\* The file about to replace the state file is the table in memory.
TmpIsTable == pc = "replace" => tmpFile = WholeFile(table)

\* A reservation on its way to a 200.
Granting == pc # "idle" /\ call.op = "reserve" /\ call.code = 200

\* Its caller owns what it asked for, in memory at once and on disk when the
\* answer is due.
GrantIsOwned ==
    Granting => /\ call.caller \in Principal
                /\ call.ids \subseteq OwnedBy(table, call.caller)
                /\ pc = "answer" => call.ids \subseteq OwnedBy(stateFile.table, call.caller)

IInv == /\ TypeOK
        /\ EntriesConsistent
        /\ HandlerRuns
        /\ StateFileNeverTorn
        /\ TmpIsTable
        /\ GrantIsOwned
        /\ HeldIsDurable

\* The inductive invariant holds before the first start.
LEMMA InvInit == Init => IInv
<1> SUFFICES ASSUME Init PROVE IInv
  OBVIOUS
<1>1. EntriesConsistent
  BY EmptyTableIsTable DEF Init, EntriesConsistent, NoFile
<1>2. StateFileNeverTorn
  BY DEF Init, StateFileNeverTorn, NoFile
<1>3. HandlerRuns /\ TmpIsTable /\ GrantIsOwned
  BY DEF Init, HandlerRuns, TmpIsTable, GrantIsOwned, Granting
<1>4. HeldIsDurable
  BY DEF Init, HeldIsDurable, Kept
<1> QED
  BY <1>1, <1>2, <1>3, <1>4, TypeInit DEF IInv

\* A start finds what is kept in the file, under the keys it is configured with.
LEMMA StartKeeps ==
    ASSUME IInv, NEW config \in Configs, Start(config)
    PROVE  EntriesConsistent' /\ HeldIsDurable'
<1>1. IsFile(stateFile)
  BY DEF IInv, TypeOK
<1>2. EntriesConsistent'
  BY <1>1, LoadedTable, ConfigsAssumption DEF IInv, EntriesConsistent, Start
<1>3. ASSUME NEW p \in Principal
      PROVE  /\ Kept(p) \subseteq OwnedBy(stateFile.table, p)
             /\ Kept(p) \cap DOMAIN table' \subseteq OwnedBy(table', p)
  <2>1. table' = Loaded(config, stateFile) /\ DOMAIN table' = config
    BY DEF Start, Loaded
  <2>2. Kept(p) \subseteq OwnedBy(stateFile.table, p)
    BY DEF IInv, HeldIsDurable
  <2>3. OwnedBy(stateFile.table, p) \cap config \subseteq OwnedBy(Loaded(config, stateFile), p)
    BY <1>1, LoadedOwners
  <2> QED
    BY <2>1, <2>2, <2>3
<1>4. UNCHANGED <<stateFile, held, dropped>>
  BY DEF Start
<1> QED
  BY <1>2, <1>3, <1>4 DEF HeldIsDurable, Kept

\* reserve_resources takes nothing from a holder, granted or refused.
LEMMA ReserveKeeps ==
    ASSUME IInv, NEW c \in Principal, NEW ids \in SUBSET Resource,
           NEW w \in Who \cup {None}, Reserve(c, ids, w)
    PROVE  EntriesConsistent' /\ GrantIsOwned' /\ HeldIsDurable'
<1>1. IsTable(table) /\ Consistent(table) /\ up
  BY DEF IInv, TypeOK, EntriesConsistent, Reserve
<1>2. CASE CanReserve(table, ids)
  <2>1. table' = Reserved(table, ids, c, w) /\ pc' = "save"
          /\ call'.caller = c /\ call'.ids = ids
    BY <1>2 DEF Reserve, Called
  <2>2. UNCHANGED <<up, stateFile, tmpFile, held, dropped>>
    BY DEF Reserve
  <2>3. EntriesConsistent'
    BY <1>1, <2>1, <2>2, ReservedTable DEF IInv, EntriesConsistent
  <2>4. GrantIsOwned'
    BY <1>1, <1>2, <2>1, ReservedOwners DEF GrantIsOwned, Granting
  <2>5. HeldIsDurable'
    <3>1. ASSUME NEW p \in Principal
          PROVE  /\ Kept(p) \subseteq OwnedBy(stateFile.table, p)
                 /\ Kept(p) \cap DOMAIN table \subseteq OwnedBy(table', p)
      <4>1. /\ Kept(p) \subseteq OwnedBy(stateFile.table, p)
            /\ Kept(p) \cap DOMAIN table \subseteq OwnedBy(table, p)
        BY <1>1 DEF IInv, HeldIsDurable
      <4>2. OwnedBy(table, p) \subseteq OwnedBy(table', p)
        BY <1>1, <1>2, <2>1, ReservedOwners
      <4> QED
        BY <4>1, <4>2
    <3>2. DOMAIN table' = DOMAIN table
      BY <2>1 DEF Reserved
    <3> QED
      BY <3>1, <3>2, <2>2 DEF HeldIsDurable, Kept
  <2> QED
    BY <2>3, <2>4, <2>5
<1>3. CASE ~CanReserve(table, ids)
  <2>1. UNCHANGED <<up, table, stateFile, tmpFile, held, dropped>> /\ call'.code = 409
    BY <1>3 DEF Reserve, Called
  <2> QED
    BY <2>1 DEF IInv, EntriesConsistent, GrantIsOwned, Granting, HeldIsDurable, Kept
<1> QED
  BY <1>2, <1>3

\* Releases, of a list or of everything an owner has: the table loses ids, and the
\* history has lost what the caller was entitled to give back.
LEMMA FreeingKeeps ==
    ASSUME IInv, up, NEW ids,
           table' = Freed(table, ids),
           UNCHANGED <<up, stateFile, tmpFile>>,
           DroppedOfHeld,
           \A p \in Principal : held'[p] \subseteq held[p] \ (ids \cap OwnedBy(table, p))
    PROVE  EntriesConsistent' /\ HeldIsDurable'
<1>1. IsTable(table) /\ Consistent(table)
  BY DEF IInv, TypeOK, EntriesConsistent
<1>2. EntriesConsistent'
  BY <1>1, FreedTable DEF IInv, EntriesConsistent
<1>3. DOMAIN table' = DOMAIN table
  BY DEF Freed
<1>4. ASSUME NEW p \in Principal
      PROVE  /\ Kept(p)' \subseteq OwnedBy(stateFile'.table, p)
             /\ Kept(p)' \cap DOMAIN table' \subseteq OwnedBy(table', p)
  <2>1. /\ Kept(p) \subseteq OwnedBy(stateFile.table, p)
        /\ Kept(p) \cap DOMAIN table \subseteq OwnedBy(table, p)
    BY DEF IInv, HeldIsDurable
  <2>2. OwnedBy(table', p) = OwnedBy(table, p) \ ids
    BY FreedOwners
  <2>3. Kept(p)' \subseteq Kept(p) \ (ids \cap OwnedBy(table, p))
    <3>1. dropped'[p] = dropped[p] \cap held'[p]
      BY DEF DroppedOfHeld
    <3> QED
      BY <3>1 DEF Kept
  <2> QED
    BY <1>3, <2>1, <2>2, <2>3
<1> QED
  BY <1>2, <1>4 DEF HeldIsDurable

\* release_resources takes only what the history has given back.
LEMMA ReleaseKeeps ==
    ASSUME IInv, NEW c \in Principal, NEW ids \in SUBSET Resource, Release(c, ids)
    PROVE  EntriesConsistent' /\ GrantIsOwned' /\ HeldIsDurable'
<1>1. GrantIsOwned'
  BY DEF Release, Called, GrantIsOwned, Granting
<1>2. CASE CanRelease(table, ids, c, c \in Operator)
  <2>1. table' = Freed(table, ids) /\ up /\ UNCHANGED <<up, stateFile, tmpFile>> /\ DroppedOfHeld
    BY <1>2 DEF Release
  <2>2. held \in [Principal -> SUBSET Resource] /\ held' = HeldAfterRelease(c, ids)
    BY <1>2 DEF Release, IInv, TypeOK
  <2>4. ASSUME NEW p \in Principal
        PROVE  held'[p] \subseteq held[p] \ (ids \cap OwnedBy(table, p))
    <3>1. CASE p = c \/ c \in Operator
      BY <2>2, <3>1 DEF HeldAfterRelease
    <3>2. CASE ~(p = c \/ c \in Operator)
      <4>1. ids \cap OwnedBy(table, p) = {}
        BY <1>2, <3>2 DEF CanRelease, OwnedBy
      <4> QED
        BY <2>2, <3>2, <4>1 DEF HeldAfterRelease
    <3> QED
      BY <3>1, <3>2
  <2> QED
    BY <1>1, <2>1, <2>4, FreeingKeeps
<1>3. CASE ~CanRelease(table, ids, c, c \in Operator)
  BY <1>1, <1>3 DEF Release, IInv, EntriesConsistent, HeldIsDurable, Kept
<1> QED
  BY <1>2, <1>3

\* release_all_for_client takes from its target only.
LEMMA ReleaseAllKeeps ==
    ASSUME IInv, NEW c \in Principal, NEW t \in Principal, ReleaseAll(c, t)
    PROVE  EntriesConsistent' /\ GrantIsOwned' /\ HeldIsDurable'
<1>1. GrantIsOwned'
  BY DEF ReleaseAll, Called, GrantIsOwned, Granting
<1>2. CASE c \in Operator \/ t = c
  <2> DEFINE ids == OwnedBy(table, t)
  <2>1. table' = Freed(table, ids) /\ up /\ UNCHANGED <<up, stateFile, tmpFile>> /\ DroppedOfHeld
    BY <1>2 DEF ReleaseAll
  <2>2. held \in [Principal -> SUBSET Resource] /\ held' = HeldAfterReleaseAll(t)
    BY <1>2 DEF ReleaseAll, IInv, TypeOK
  <2>4. ASSUME NEW p \in Principal
        PROVE  held'[p] \subseteq held[p] \ (ids \cap OwnedBy(table, p))
    BY <2>2, OneOwner DEF HeldAfterReleaseAll
  <2> QED
    BY <1>1, <2>1, <2>4, FreeingKeeps
<1>3. CASE c \notin Operator /\ t # c
  BY <1>1, <1>3 DEF ReleaseAll, IInv, EntriesConsistent, HeldIsDurable, Kept
<1> QED
  BY <1>2, <1>3

\* os.replace puts a table on disk that has all that is kept: what it has not is
\* dropped.
LEMMA ReplaceKeeps ==
    ASSUME IInv, ReplaceState
    PROVE  EntriesConsistent' /\ GrantIsOwned' /\ HeldIsDurable'
<1>1. stateFile' = WholeFile(table) /\ UNCHANGED <<up, table, call>> /\ pc # "idle"
  BY DEF ReplaceState, IInv, TmpIsTable
<1>2. tmpFile' = NoFile /\ stateFile'.table = table
  BY <1>1 DEF ReplaceState, WholeFile
<1>3. EntriesConsistent'
  BY <1>1, <1>2, EmptyTableIsTable DEF IInv, EntriesConsistent, NoFile
<1>4. GrantIsOwned'
  BY <1>1, <1>2 DEF IInv, GrantIsOwned, Granting
<1>5. up
  BY <1>1 DEF IInv, HandlerRuns
<1>6. HeldIsDurable'
  <2>1. ASSUME NEW p \in Principal
        PROVE  Kept(p)' \subseteq OwnedBy(table, p)
    <3>1. Kept(p) \cap DOMAIN table \subseteq OwnedBy(table, p)
      BY <1>5 DEF IInv, HeldIsDurable
    <3>2. held' = held /\ dropped'[p] = dropped[p] \cup (held[p] \ DOMAIN table)
      BY DEF ReplaceState
    <3> QED
      BY <3>1, <3>2 DEF Kept
  <2> QED
    BY <1>1, <1>2, <2>1 DEF HeldIsDurable
<1> QED
  BY <1>3, <1>4, <1>6

\* A reservation is entered in the history when it is in memory and on disk.
LEMMA AnswerKeeps ==
    ASSUME IInv, Answer
    PROVE  EntriesConsistent' /\ GrantIsOwned' /\ HeldIsDurable'
<1>1. UNCHANGED <<up, table, stateFile, tmpFile>> /\ pc = "answer" /\ pc' = "idle"
  BY DEF Answer
<1>2. EntriesConsistent' /\ GrantIsOwned'
  BY <1>1 DEF IInv, EntriesConsistent, GrantIsOwned, Granting
<1>3. CASE call.op = "reserve" /\ call.code = 200
  <2>1. /\ held' = [held EXCEPT ![call.caller] = @ \cup call.ids]
        /\ dropped' = [dropped EXCEPT ![call.caller] = @ \ call.ids]
    BY <1>3 DEF Answer
  <2>2. /\ call.ids \subseteq OwnedBy(table, call.caller)
        /\ call.ids \subseteq OwnedBy(stateFile.table, call.caller)
    BY <1>1, <1>3 DEF IInv, GrantIsOwned, Granting
  <2>3. ASSUME NEW p \in Principal
        PROVE  Kept(p)' \subseteq Kept(p) \cup (IF p = call.caller THEN call.ids ELSE {})
    BY <2>1 DEF IInv, TypeOK, Kept
  <2> QED
    BY <1>1, <1>2, <2>2, <2>3 DEF IInv, HeldIsDurable
<1>4. CASE ~(call.op = "reserve" /\ call.code = 200)
  BY <1>1, <1>2, <1>4 DEF Answer, IInv, HeldIsDurable, Kept
<1> QED
  BY <1>3, <1>4

\* Every step keeps the inductive invariant, one case per action.
LEMMA InvStep == IInv /\ [Next]_vars => IInv'
<1> SUFFICES ASSUME IInv, [Next]_vars PROVE IInv'
  OBVIOUS
<1>0. TypeOK'
  BY TypeStep DEF IInv
<1>1. ASSUME NEW config \in Configs, Start(config) PROVE IInv'
  <2>1. UNCHANGED <<stateFile, tmpFile, pc, call>> /\ pc = "idle"
    BY <1>1 DEF Start, IInv, HandlerRuns
  <2>2. HandlerRuns' /\ StateFileNeverTorn' /\ TmpIsTable' /\ GrantIsOwned'
    BY <2>1 DEF IInv, HandlerRuns, StateFileNeverTorn, TmpIsTable, GrantIsOwned, Granting
  <2> QED
    BY <1>0, <1>1, <2>2, StartKeeps DEF IInv
<1>2. CASE Crash
  <2>1. HandlerRuns' /\ StateFileNeverTorn' /\ TmpIsTable' /\ GrantIsOwned'
    BY <1>2 DEF Crash, IInv, HandlerRuns, StateFileNeverTorn, TmpIsTable, GrantIsOwned, Granting
  <2>2. EntriesConsistent'
    BY <1>2, EmptyTableIsTable DEF Crash, IInv, EntriesConsistent
  <2>3. HeldIsDurable'
    BY <1>2 DEF Crash, IInv, HeldIsDurable, Kept
  <2> QED
    BY <1>0, <2>1, <2>2, <2>3 DEF IInv
<1>3. ASSUME NEW c \in Principal, NEW ids \in SUBSET Resource,
             NEW w \in Who \cup {None}, Reserve(c, ids, w)
      PROVE  IInv'
  <2>1. HandlerRuns' /\ StateFileNeverTorn' /\ TmpIsTable'
    BY <1>3 DEF Reserve, IInv, HandlerRuns, StateFileNeverTorn, TmpIsTable
  <2> QED
    BY <1>0, <1>3, <2>1, ReserveKeeps DEF IInv
<1>4. ASSUME NEW c \in Principal, NEW ids \in SUBSET Resource, Release(c, ids)
      PROVE  IInv'
  <2>1. HandlerRuns' /\ StateFileNeverTorn' /\ TmpIsTable'
    BY <1>4 DEF Release, IInv, HandlerRuns, StateFileNeverTorn, TmpIsTable
  <2> QED
    BY <1>0, <1>4, <2>1, ReleaseKeeps DEF IInv
<1>5. ASSUME NEW c \in Principal, NEW t \in Principal, ReleaseAll(c, t)
      PROVE  IInv'
  <2>1. HandlerRuns' /\ StateFileNeverTorn' /\ TmpIsTable'
    BY <1>5 DEF ReleaseAll, IInv, HandlerRuns, StateFileNeverTorn, TmpIsTable
  <2> QED
    BY <1>0, <1>5, <2>1, ReleaseAllKeeps DEF IInv
<1>6. CASE OpenTmp
  <2>1. UNCHANGED <<up, table, stateFile, call, held, dropped>> /\ tmpFile' = TornFile
          /\ pc = "save" /\ pc' = "dump"
    BY <1>6 DEF OpenTmp
  <2>2. EntriesConsistent'
    BY <2>1, EmptyTableIsTable DEF IInv, EntriesConsistent, TornFile
  <2>3. GrantIsOwned' /\ HeldIsDurable'
    BY <2>1 DEF IInv, GrantIsOwned, Granting, HeldIsDurable, Kept
  <2>4. HandlerRuns' /\ StateFileNeverTorn' /\ TmpIsTable'
    BY <2>1 DEF IInv, HandlerRuns, StateFileNeverTorn, TmpIsTable
  <2> QED
    BY <1>0, <2>2, <2>3, <2>4 DEF IInv
<1>7. CASE DumpTmp
  <2>1. UNCHANGED <<up, table, stateFile, call, held, dropped>> /\ tmpFile' = WholeFile(table)
          /\ pc = "dump" /\ pc' = "replace"
    BY <1>7 DEF DumpTmp
  <2>2. EntriesConsistent'
    BY <2>1 DEF IInv, EntriesConsistent, WholeFile
  <2>3. GrantIsOwned' /\ HeldIsDurable'
    BY <2>1 DEF IInv, GrantIsOwned, Granting, HeldIsDurable, Kept
  <2>4. HandlerRuns' /\ StateFileNeverTorn' /\ TmpIsTable'
    BY <2>1 DEF IInv, HandlerRuns, StateFileNeverTorn, TmpIsTable
  <2> QED
    BY <1>0, <2>2, <2>3, <2>4 DEF IInv
<1>8. CASE ReplaceState
  <2>1. HandlerRuns' /\ StateFileNeverTorn' /\ TmpIsTable'
    BY <1>8 DEF ReplaceState, IInv, HandlerRuns, StateFileNeverTorn, TmpIsTable, WholeFile
  <2> QED
    BY <1>0, <1>8, <2>1, ReplaceKeeps DEF IInv
<1>9. CASE SaveFails
  <2>1. UNCHANGED <<up, table, stateFile, tmpFile, held, dropped>> /\ pc # "idle" /\ pc' = "answer"
    BY <1>9 DEF SaveFails
  <2>2. call'.code = 500
    BY <1>9 DEF SaveFails, IInv, TypeOK, Calls
  <2>3. GrantIsOwned'
    BY <2>2 DEF GrantIsOwned, Granting
  <2>4. EntriesConsistent' /\ HeldIsDurable'
    BY <2>1 DEF IInv, EntriesConsistent, HeldIsDurable, Kept
  <2>5. HandlerRuns' /\ StateFileNeverTorn' /\ TmpIsTable'
    BY <2>1 DEF IInv, HandlerRuns, StateFileNeverTorn, TmpIsTable
  <2> QED
    BY <1>0, <2>3, <2>4, <2>5 DEF IInv
<1>10. CASE Answer
  <2>1. HandlerRuns' /\ StateFileNeverTorn' /\ TmpIsTable'
    BY <1>10 DEF Answer, IInv, HandlerRuns, StateFileNeverTorn, TmpIsTable
  <2> QED
    BY <1>0, <1>10, <2>1, AnswerKeeps DEF IInv
<1>11. CASE UNCHANGED vars
  BY <1>0, <1>11 DEF vars, IInv, EntriesConsistent, HandlerRuns, StateFileNeverTorn,
     TmpIsTable, GrantIsOwned, Granting, HeldIsDurable, Kept
<1> QED
  BY <1>1, <1>2, <1>3, <1>4, <1>5, <1>6, <1>7, <1>8, <1>9, <1>10, <1>11
  DEF Next, ClientCall, ServerStep

\* The inductive invariant holds in every reachable state.
LEMMA Invariant == Spec => []IInv
BY InvInit, InvStep, PTL DEF Spec

-----------------------------------------------------------------------------
(***************************************************************************)
(* The safety properties.                                                  *)
(***************************************************************************)

\* status, owner and who of every entry agree, in memory and in both files.
THEOREM AlwaysConsistent == Spec => []EntriesConsistent
<1>1. IInv => EntriesConsistent
  BY DEF IInv
<1> QED
  BY <1>1, Invariant, PTL

\* A reservation a client was told of survives crashes, failed saves, refused
\* calls, the calls of other clients and starts on any configuration; only a save
\* of a server whose configuration has lost the key drops it from the file.
THEOREM Durability == Spec => []HeldIsDurable
<1>1. IInv => HeldIsDurable
  BY DEF IInv
<1> QED
  BY <1>1, Invariant, PTL

\* Two principals never both hold one resource, unless a save has dropped the
\* reservation of one of them with its key.
THEOREM MutualExclusion == Spec => []NoDoubleGrant
<1>1. IInv => NoDoubleGrant
  <2> SUFFICES ASSUME IInv, NEW p \in Principal, NEW q \in Principal, p # q
               PROVE  held[p] \cap held[q] \subseteq dropped[p] \cup dropped[q]
    BY DEF NoDoubleGrant
  <2>1. /\ Kept(p) \subseteq OwnedBy(stateFile.table, p)
        /\ Kept(q) \subseteq OwnedBy(stateFile.table, q)
    BY DEF IInv, HeldIsDurable
  <2>2. OwnedBy(stateFile.table, p) \cap OwnedBy(stateFile.table, q) = {}
    BY OneOwner
  <2> QED
    BY <2>1, <2>2 DEF Kept
<1> QED
  BY <1>1, Invariant, PTL

\* No death of the process leaves a state file that _load_state would discard.
THEOREM NeverTorn == Spec => []StateFileNeverTorn
<1>1. IInv => StateFileNeverTorn
  BY DEF IInv
<1> QED
  BY <1>1, Invariant, PTL

-----------------------------------------------------------------------------
(***************************************************************************)
(* Ownership moves only through releases.                                  *)
(***************************************************************************)

\* Under the invariant no step takes a resource from an owner who has not released it.
LEMMA YieldStep == IInv /\ [Next]_vars => [OwnerYields]_vars
<1> SUFFICES ASSUME IInv, Next, up, up', NEW r \in DOMAIN table,
                    table[r].owner # None, table'[r].owner # table[r].owner
             PROVE  /\ table'[r] = FreeEntry
                    /\ call'.caller = table[r].owner \/ call'.caller \in Operator
  BY DEF OwnerYields
<1>1. ASSUME NEW config \in Configs, Start(config) PROVE FALSE
  BY <1>1 DEF Start
<1>2. CASE Crash
  BY <1>2 DEF Crash
<1>3. ASSUME NEW c \in Principal, NEW ids \in SUBSET Resource,
             NEW w \in Who \cup {None}, Reserve(c, ids, w)
      PROVE  FALSE
  <2>1. table[r].status = "reserved"
    BY DEF IInv, EntriesConsistent, Consistent, FreeEntry
  <2>2. CASE CanReserve(table, ids)
    BY <1>3, <2>1, <2>2 DEF Reserve, Reserved, CanReserve
  <2>3. CASE ~CanReserve(table, ids)
    BY <1>3, <2>3 DEF Reserve
  <2> QED
    BY <2>2, <2>3
<1>4. ASSUME NEW c \in Principal, NEW ids \in SUBSET Resource, Release(c, ids)
      PROVE  /\ table'[r] = FreeEntry
             /\ call'.caller = table[r].owner \/ call'.caller \in Operator
  <2>1. CanRelease(table, ids, c, c \in Operator) /\ table' = Freed(table, ids)
          /\ call'.caller = c
    BY <1>4 DEF Release, Called
  <2>2. r \in ids /\ table'[r] = FreeEntry
    BY <2>1 DEF Freed
  <2> QED
    BY <2>1, <2>2 DEF CanRelease
<1>5. ASSUME NEW c \in Principal, NEW t \in Principal, ReleaseAll(c, t)
      PROVE  /\ table'[r] = FreeEntry
             /\ call'.caller = table[r].owner \/ call'.caller \in Operator
  <2>1. /\ c \in Operator \/ t = c
        /\ table' = Freed(table, OwnedBy(table, t))
        /\ call'.caller = c
    BY <1>5 DEF ReleaseAll, Called
  <2>2. r \in OwnedBy(table, t) /\ table'[r] = FreeEntry
    BY <2>1 DEF Freed
  <2> QED
    BY <2>1, <2>2 DEF OwnedBy
<1>6. CASE ServerStep
  BY <1>6 DEF ServerStep, OpenTmp, DumpTmp, ReplaceState, SaveFails, Answer
<1> QED
  BY <1>1, <1>2, <1>3, <1>4, <1>5, <1>6 DEF Next, ClientCall

\* While the server runs, a resource changes hands only through a release by its
\* owner or by an operator.
THEOREM Ownership == Spec => OwnersYield
BY Invariant, YieldStep, PTL DEF Spec, OwnersYield

-----------------------------------------------------------------------------
(***************************************************************************)
(* Refinement of Arbiter, when the configuration stays and saves succeed.  *)
(* The state file is behind the table from the change in memory to         *)
(* os.replace; until then the call is pending, and replacing the file is   *)
(* the arbiter's step.                                                     *)
(***************************************************************************)
Reliable == Configs \subseteq {Resource} /\ SaveMayFail = FALSE

Pending ==
    \/ /\ call.op = "reserve" /\ call.ids # {}
       /\ CanReserve(Disk, call.ids)
       /\ \E w \in Who \cup {None} : table = Reserved(Disk, call.ids, call.caller, w)
    \/ /\ call.op = "release" /\ call.ids # {}
       /\ CanRelease(Disk, call.ids, call.caller, call.caller \in Operator)
       /\ table = Freed(Disk, call.ids)
    \/ /\ call.op = "release_all" /\ call.target \in Principal
       /\ call.caller \in Operator \/ call.target = call.caller
       /\ table = Freed(Disk, OwnedBy(Disk, call.target))

InMemory ==
    up => /\ DOMAIN table = Resource
          /\ IF pc \in {"save", "dump", "replace"}
             THEN Pending /\ call.caller \in Principal
             ELSE table = Disk

RInv == IInv /\ InMemory

\* A file written from a complete table is read back as that table.
LEMMA WrittenIsRead ==
    ASSUME NEW t, IsTable(t), DOMAIN t = Resource
    PROVE  Loaded(Resource, WholeFile(t)) = t
BY DEF IsTable, Loaded, WholeFile

\* The arbiter's table has every resource.
LEMMA DiskDomain == DOMAIN Disk = Resource
BY DEF Disk, Loaded

\* Releasing nothing changes nothing.
LEMMA FreedNothing ==
    ASSUME NEW t, IsTable(t)
    PROVE  Freed(t, {}) = t
BY DEF IsTable, Freed

\* The server starts as the arbiter does.
LEMMA RefineInit == Init => RInv /\ Abstract!Init
<1> SUFFICES ASSUME Init PROVE RInv /\ Abstract!Init
  OBVIOUS
<1>1. InMemory
  BY DEF Init, InMemory
<1>2. Abstract!Init
  BY DEF Init, Abstract!Init, Holder, Disk, Loaded, NoFile, FreeEntry
<1> QED
  BY <1>1, <1>2, InvInit DEF RInv

\* A step that leaves the state file alone leaves the abstract holder alone.
LEMMA SameFileSameHolder == stateFile' = stateFile => Holder' = Holder /\ Disk' = Disk
BY DEF Holder, Disk

\* Replacing the state file is the arbiter's step for the pending call.
LEMMA ReplaceIsArbiterStep ==
    ASSUME RInv, up, ReplaceState
    PROVE  /\ Disk' = table
           /\ Abstract!Next
<1>1. DOMAIN table = Resource /\ Pending /\ call.caller \in Principal
  BY DEF RInv, InMemory, ReplaceState
<1>2. IsTable(table) /\ tmpFile = WholeFile(table) /\ call \in Calls
  BY DEF RInv, IInv, TypeOK, TmpIsTable, ReplaceState
<1>3. Disk' = table
  BY <1>1, <1>2, WrittenIsRead DEF ReplaceState, Disk
<1>4. Holder' = [r \in Resource |-> table[r].owner]
  BY <1>3 DEF Holder
<1>5. Consistent(Disk)
  BY LoadedTable DEF RInv, IInv, TypeOK, EntriesConsistent, Disk
<1>6. call.ids \in SUBSET Resource
  BY <1>2 DEF Calls
<1>7. ASSUME NEW w \in Who \cup {None}, call.op = "reserve", call.ids # {},
             CanReserve(Disk, call.ids), table = Reserved(Disk, call.ids, call.caller, w)
      PROVE  Abstract!Next
  <2>1. \A r \in call.ids : Holder[r] = None
    BY <1>5, <1>6, <1>7 DEF Consistent, CanReserve, Holder, FreeEntry
  <2>2. Holder' = [r \in Resource |-> IF r \in call.ids THEN call.caller ELSE Holder[r]]
    BY <1>4, <1>7, DiskDomain DEF Reserved, ReservedEntry, Holder
  <2>3. Abstract!Grant(call.caller, call.ids)
    BY <2>1, <2>2 DEF Abstract!Grant
  <2> QED
    BY <1>1, <1>6, <1>7, <2>3 DEF Abstract!Next
<1>8. ASSUME call.op = "release", call.ids # {},
             CanRelease(Disk, call.ids, call.caller, call.caller \in Operator),
             table = Freed(Disk, call.ids)
      PROVE  Abstract!Next
  <2>1. \A r \in call.ids : /\ Holder[r] # None
                            /\ Holder[r] = call.caller \/ call.caller \in Operator
    BY <1>5, <1>6, <1>8 DEF Consistent, CanRelease, Holder, FreeEntry
  <2>2. Holder' = [r \in Resource |-> IF r \in call.ids THEN None ELSE Holder[r]]
    BY <1>4, <1>8, DiskDomain DEF Freed, FreeEntry, Holder
  <2>3. Abstract!Release(call.caller, call.ids)
    BY <2>1, <2>2 DEF Abstract!Release
  <2> QED
    BY <1>1, <1>6, <1>8, <2>3 DEF Abstract!Next
<1>9. ASSUME call.op = "release_all", call.target \in Principal,
             call.caller \in Operator \/ call.target = call.caller,
             table = Freed(Disk, OwnedBy(Disk, call.target))
      PROVE  Abstract!Next
  <2>1. Holder' = [r \in Resource |-> IF Holder[r] = call.target THEN None ELSE Holder[r]]
    BY <1>4, <1>9, DiskDomain DEF Freed, FreeEntry, OwnedBy, Holder
  <2>2. Abstract!ReleaseAll(call.caller, call.target)
    BY <1>9, <2>1 DEF Abstract!ReleaseAll
  <2> QED
    BY <1>1, <1>9, <2>2 DEF Abstract!Next
<1> QED
  BY <1>1, <1>3, <1>7, <1>8, <1>9 DEF Pending

\* A call that changes the table is pending until its save ends, one that does
\* not leaves memory and disk alike.
LEMMA CallsArePending ==
    ASSUME RInv, up, pc = "idle", stateFile' = stateFile,
           ClientCall
    PROVE  InMemory'
<1>1. DOMAIN table = Resource /\ table = Disk /\ Disk' = Disk /\ IsTable(table)
  BY SameFileSameHolder DEF RInv, IInv, TypeOK, InMemory
<1>2. ASSUME NEW c \in Principal, NEW ids \in (SUBSET Resource) \ {{}},
             NEW w \in Who \cup {None}, Reserve(c, ids, w)
      PROVE  InMemory'
  <2>1. CASE CanReserve(table, ids)
    <3>1. /\ table' = Reserved(table, ids, c, w) /\ pc' = "save"
          /\ call'.op = "reserve" /\ call'.ids = ids /\ call'.caller = c
      BY <1>2, <2>1 DEF Reserve, Called
    <3>2. DOMAIN table' = Resource
      BY <1>1, <3>1 DEF Reserved
    <3> QED
      BY <1>1, <2>1, <3>1, <3>2 DEF InMemory, Pending
  <2>2. CASE ~CanReserve(table, ids)
    BY <1>1, <1>2, <2>2 DEF Reserve, InMemory
  <2> QED
    BY <2>1, <2>2
<1>3. ASSUME NEW c \in Principal, NEW ids \in (SUBSET Resource) \ {{}}, Release(c, ids)
      PROVE  InMemory'
  <2>1. CASE CanRelease(table, ids, c, c \in Operator)
    <3>1. /\ table' = Freed(table, ids) /\ pc' = "save"
          /\ call'.op = "release" /\ call'.ids = ids /\ call'.caller = c
      BY <1>3, <2>1 DEF Release, Called
    <3>2. DOMAIN table' = Resource
      BY <1>1, <3>1 DEF Freed
    <3> QED
      BY <1>1, <2>1, <3>1, <3>2 DEF InMemory, Pending
  <2>2. CASE ~CanRelease(table, ids, c, c \in Operator)
    BY <1>1, <1>3, <2>2 DEF Release, InMemory
  <2> QED
    BY <2>1, <2>2
<1>4. ASSUME NEW c \in Principal, NEW t \in Principal, ReleaseAll(c, t)
      PROVE  InMemory'
  <2>1. CASE (c \in Operator \/ t = c) /\ OwnedBy(table, t) # {}
    <3>1. /\ table' = Freed(table, OwnedBy(table, t)) /\ pc' = "save"
          /\ call'.op = "release_all" /\ call'.target = t /\ call'.caller = c
      BY <1>4, <2>1 DEF ReleaseAll, Called
    <3>2. DOMAIN table' = Resource
      BY <1>1, <3>1 DEF Freed
    <3> QED
      BY <1>1, <2>1, <3>1, <3>2 DEF InMemory, Pending
  <2>2. CASE (c \in Operator \/ t = c) /\ OwnedBy(table, t) = {}
    <3>1. table' = table /\ pc' = "answer"
      BY <1>1, <1>4, <2>2, FreedNothing DEF ReleaseAll
    <3> QED
      BY <1>1, <3>1 DEF InMemory
  <2>3. CASE c \notin Operator /\ t # c
    BY <1>1, <1>4, <2>3 DEF ReleaseAll, InMemory
  <2> QED
    BY <2>1, <2>2, <2>3
<1> QED
  BY <1>2, <1>3, <1>4 DEF ClientCall

\* Every step is a step of the arbiter or leaves it alone, one case per action.
LEMMA RefineStep ==
    ASSUME Reliable
    PROVE  RInv /\ [Next]_vars => RInv' /\ [Abstract!Next]_Holder
<1> SUFFICES ASSUME RInv, [Next]_vars PROVE InMemory' /\ [Abstract!Next]_Holder
  BY InvStep DEF RInv
<1>1. ASSUME NEW config \in Configs, Start(config)
      PROVE  InMemory' /\ [Abstract!Next]_Holder
  <2>1. config = Resource /\ stateFile' = stateFile /\ table' = Disk /\ pc' = "idle"
    BY <1>1 DEF Start, Reliable, Disk, RInv, IInv, HandlerRuns
  <2> QED
    BY <2>1, SameFileSameHolder, DiskDomain DEF InMemory
<1>2. CASE Crash
  BY <1>2, SameFileSameHolder DEF Crash, InMemory
<1>3. CASE ClientCall
  <2>1. up /\ pc = "idle" /\ stateFile' = stateFile
    BY <1>3 DEF ClientCall, Reserve, Release, ReleaseAll
  <2> QED
    BY <1>3, <2>1, CallsArePending, SameFileSameHolder
<1>4. CASE OpenTmp \/ DumpTmp
  <2>1. UNCHANGED <<up, table, stateFile, call>> /\ pc \in {"save", "dump"}
          /\ pc' \in {"dump", "replace"}
    BY <1>4 DEF OpenTmp, DumpTmp
  <2> QED
    BY <2>1, SameFileSameHolder DEF RInv, InMemory, Pending
<1>5. CASE ReplaceState
  <2>1. up
    BY <1>5 DEF ReplaceState, RInv, IInv, HandlerRuns
  <2>2. Disk' = table /\ Abstract!Next
    BY <1>5, <2>1, ReplaceIsArbiterStep
  <2>3. UNCHANGED <<up, table>> /\ pc' = "answer" /\ DOMAIN table = Resource
    BY <1>5, <2>1 DEF ReplaceState, RInv, InMemory
  <2> QED
    BY <2>2, <2>3 DEF InMemory
<1>6. CASE SaveFails
  BY <1>6 DEF SaveFails, Reliable
<1>7. CASE Answer
  BY <1>7, SameFileSameHolder DEF Answer, RInv, InMemory
<1>8. CASE UNCHANGED vars
  BY <1>8, SameFileSameHolder DEF vars, RInv, InMemory, Pending
<1> QED
  BY <1>1, <1>2, <1>3, <1>4, <1>5, <1>6, <1>7, <1>8 DEF Next, ServerStep

\* The server implements the arbiter: every change of the state file is one
\* grant or release of a whole request, crashes at any step included.
THEOREM Refinement == ASSUME Reliable PROVE Spec => ImplementsArbiter
<1>1. Init => RInv /\ Abstract!Init
  BY RefineInit
<1>2. RInv /\ [Next]_vars => RInv' /\ [Abstract!Next]_Holder
  BY RefineStep
<1> QED
  BY <1>1, <1>2, PTL DEF Spec, ImplementsArbiter, Abstract!Spec

\* In the same circumstances a change answered as done is what the next start
\* will load, release-all without a save included.
THEOREM AnsweredPersists == ASSUME Reliable PROVE Spec => []AnsweredIsOnDisk
<1>1. Init => RInv
  BY RefineInit
<1>2. RInv /\ [Next]_vars => RInv'
  BY RefineStep
<1>3. RInv => AnsweredIsOnDisk
  BY DEF RInv, IInv, HandlerRuns, InMemory, AnsweredIsOnDisk, Disk
<1> QED
  BY <1>1, <1>2, <1>3, PTL DEF Spec

-----------------------------------------------------------------------------
(***************************************************************************)
(* Release-all.  Its target owns nothing in memory from the change on;     *)
(* that the file agrees when the answer is due is AnsweredIsOnDisk.        *)
(***************************************************************************)
ReleasedInMemory ==
    pc # "idle" /\ call.op = "release_all" /\ call.code = 200 =>
        call.target \in Principal /\ OwnedBy(table, call.target) = {}

\* Nothing but a reservation, which waits for the answer, gives the target anything.
LEMMA ReleasedStep == IInv /\ ReleasedInMemory /\ [Next]_vars => ReleasedInMemory'
<1> SUFFICES ASSUME IInv, ReleasedInMemory, [Next]_vars PROVE ReleasedInMemory'
  OBVIOUS
<1>1. ASSUME NEW config \in Configs, Start(config) PROVE pc' = "idle"
  BY <1>1 DEF Start, IInv, HandlerRuns
<1>2. CASE Crash \/ Answer
  BY <1>2 DEF Crash, Answer, ReleasedInMemory
<1>3. ASSUME NEW c \in Principal, NEW ids \in SUBSET Resource,
             NEW w \in Who \cup {None}, Reserve(c, ids, w) \/ Release(c, ids)
      PROVE  ReleasedInMemory'
  <2>1. call'.op # "release_all"
    BY <1>3 DEF Reserve, Release, Called
  <2> QED
    BY <2>1 DEF ReleasedInMemory
<1>4. ASSUME NEW c \in Principal, NEW t \in Principal, ReleaseAll(c, t)
      PROVE  ReleasedInMemory'
  <2>1. CASE c \in Operator \/ t = c
    <3>1. table' = Freed(table, OwnedBy(table, t)) /\ call'.target = t
      BY <1>4, <2>1 DEF ReleaseAll, Called
    <3>2. OwnedBy(table', t) = {}
      BY <3>1, FreedOwners
    <3> QED
      BY <3>1, <3>2 DEF ReleasedInMemory
  <2>2. CASE c \notin Operator /\ t # c
    <3>1. call'.code = 403
      BY <1>4, <2>2 DEF ReleaseAll, Called
    <3> QED
      BY <3>1 DEF ReleasedInMemory
  <2> QED
    BY <2>1, <2>2
<1>5. CASE OpenTmp \/ DumpTmp \/ ReplaceState
  BY <1>5 DEF OpenTmp, DumpTmp, ReplaceState, ReleasedInMemory
<1>6. CASE SaveFails
  <2>1. call'.code = 500
    BY <1>6 DEF SaveFails, IInv, TypeOK, Calls
  <2> QED
    BY <2>1 DEF ReleasedInMemory
<1>7. CASE UNCHANGED vars
  BY <1>7 DEF vars, ReleasedInMemory
<1>8. ASSUME pc' = "idle" PROVE ReleasedInMemory'
  BY <1>8 DEF ReleasedInMemory
<1> QED
  BY <1>1, <1>2, <1>3, <1>4, <1>5, <1>6, <1>7, <1>8 DEF Next, ClientCall, ServerStep

\* The ghost of an earlier reservation needs a save that failed or a configuration
\* that changed: without them, whoever was told that all its reservations are
\* released has none in the state file.
THEOREM ReleaseAllLasts == ASSUME Reliable PROVE Spec => []ReleasedAllStaysReleased
<1>1. Init => RInv /\ ReleasedInMemory
  BY RefineInit DEF Init, ReleasedInMemory
<1>2. RInv /\ ReleasedInMemory /\ [Next]_vars => RInv' /\ ReleasedInMemory'
  BY RefineStep, ReleasedStep DEF RInv
<1>3. RInv /\ ReleasedInMemory => ReleasedAllStaysReleased
  <2> SUFFICES ASSUME RInv, ReleasedInMemory, pc = "answer", call.op = "release_all",
                      call.code = 200
               PROVE  OwnedBy(stateFile.table, call.target) = {}
    BY DEF ReleasedAllStaysReleased
  <2>1. table = Loaded(Resource, stateFile)
    BY DEF RInv, IInv, HandlerRuns, InMemory, Disk
  <2>2. OwnedBy(stateFile.table, call.target) \cap Resource \subseteq OwnedBy(table, call.target)
    BY <2>1, LoadedOwners DEF RInv, IInv, TypeOK, ReleasedInMemory
  <2>3. DOMAIN stateFile.table \subseteq Resource
    BY EmptyTableIsTable DEF RInv, IInv, TypeOK, IsFile, IsTable, NoFile, TornFile
  <2>4. OwnedBy(stateFile.table, call.target) \subseteq Resource
    BY <2>3 DEF OwnedBy
  <2> QED
    BY <2>2, <2>4 DEF ReleasedInMemory
<1> QED
  BY <1>1, <1>2, <1>3, PTL DEF Spec
=============================================================================
