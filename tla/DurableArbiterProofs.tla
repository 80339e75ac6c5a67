------------------------ MODULE DurableArbiterProofs ------------------------
(***************************************************************************)
(* ResourceManager implements DurableArbiter, for every set of resources,  *)
(* principals, operators and configurations, with saves that may fail and  *)
(* processes that may die at any step.                                     *)
(***************************************************************************)
EXTENDS ResourceManagerProofs

USE NoneAssumption, OperatorAssumption

(***************************************************************************)
(* The inductive invariant.  To see that os.replace saves what the abstract *)
(* arbiter has granted, and that a 200 confirms only that, one must know    *)
(* that the handler serves one call from its check to its answer, and that  *)
(* between os.replace and the answer the file is the table.                 *)
(***************************************************************************)
ServesOne ==
    /\ pc = "idle" <=> call = NoCall
    /\ pc # "idle" => call.caller \in Principal
    /\ pc \in {"save", "dump", "replace"} => call.code = 200 /\ call.ids # {}

ConfirmedIsSaved ==
    pc = "answer" /\ call.code = 200 /\ call.ids # {} => stateFile = WholeFile(table)

DInv == IInv /\ ServesOne /\ ConfirmedIsSaved

\* Before the first start nobody is served and nothing is saved.
LEMMA DInit == Init => DInv /\ Durable!Init
<1> SUFFICES ASSUME Init PROVE DInv /\ Durable!Init
  OBVIOUS
<1>1. ServesOne /\ ConfirmedIsSaved
  BY DEF Init, ServesOne, ConfirmedIsSaved
<1>2. Owners(EmptyTable) = Durable!Nothing
  BY DEF Owners, EmptyTable, Durable!Nothing
<1>3. stateFile.table = EmptyTable /\ Confirmed = Durable!Nobody
  BY DEF Init, NoFile, NoCall, Confirmed, Durable!Nobody
<1> QED
  BY <1>1, <1>2, <1>3, InvInit DEF Init, DInv, Durable!Init

-----------------------------------------------------------------------------
(* What the operators of the table do to the owners.                       *)

LEMMA OwnersReserved ==
    ASSUME NEW t, NEW ids, NEW p, NEW w
    PROVE  Owners(Reserved(t, ids, p, w)) =
               [r \in DOMAIN Owners(t) |-> IF r \in ids THEN p ELSE Owners(t)[r]]
BY DEF Owners, Reserved, ReservedEntry

LEMMA OwnersFreed ==
    ASSUME NEW t, NEW ids
    PROVE  Owners(Freed(t, ids)) =
               [r \in DOMAIN Owners(t) |-> IF r \in ids THEN None ELSE Owners(t)[r]]
BY DEF Owners, Freed, FreeEntry

\* A start recalls what the file says, whatever its form: only a whole one has entries.
LEMMA OwnersLoaded ==
    ASSUME NEW config, NEW f, IsFile(f)
    PROVE  Owners(Loaded(config, f)) =
               [r \in config |-> IF r \in DOMAIN Owners(f.table) THEN Owners(f.table)[r] ELSE None]
<1>1. DOMAIN Owners(f.table) = DOMAIN f.table
  BY DEF Owners
<1>2. f.form # "whole" => DOMAIN f.table = {}
  BY DEF IsFile, NoFile, TornFile, WholeFile, EmptyTable
<1> QED
  BY <1>1, <1>2 DEF Owners, Loaded, FreeEntry

\* The status says what the owner says.
LEMMA StatusIsOwner ==
    ASSUME NEW t, Consistent(t), NEW r \in DOMAIN t
    PROVE  /\ t[r].status # "reserved" <=> Owners(t)[r] = None
           /\ t[r].status # "available" <=> Owners(t)[r] # None
           /\ Owners(t)[r] = t[r].owner
BY DEF Consistent, FreeEntry, Owners

-----------------------------------------------------------------------------
(* One lemma for each action that is more than a stutter.                  *)

\* reserve_resources is Reserve, granted or refused.
LEMMA ReserveImplements ==
    ASSUME DInv, NEW c \in Principal, NEW ids \in (SUBSET Resource) \ {{}},
           NEW w \in Who \cup {None}, Reserve(c, ids, w)
    PROVE  ServesOne' /\ ConfirmedIsSaved' /\ Durable!Reserve(c, ids)
<1>1. up /\ Confirmed = Durable!Nobody /\ Consistent(table)
  BY DEF DInv, IInv, EntriesConsistent, ServesOne, Reserve, NoCall, Confirmed, Durable!Nobody
<1>2. DOMAIN Owners(table) = DOMAIN table
  BY DEF Owners
<1>3. CanReserve(table, ids) <=> \A r \in ids : r \in DOMAIN Owners(table) /\ Owners(table)[r] = None
  BY <1>1, <1>2, StatusIsOwner DEF CanReserve
<1>4. up' = up /\ Owners(stateFile.table)' = Owners(stateFile.table)
  BY DEF Reserve, Owners
<1>5. CASE CanReserve(table, ids)
  <2>1. table' = Reserved(table, ids, c, w) /\ pc' = "save" /\ Called("reserve", c, None, ids, 200)
    BY <1>5 DEF Reserve
  <2>2. Owners(table)' = [r \in DOMAIN Owners(table) |-> IF r \in ids THEN c ELSE Owners(table)[r]]
    BY <2>1, OwnersReserved DEF Owners
  <2>3. /\ call' # NoCall /\ call'.caller = c /\ call'.ids = ids /\ call'.code = 200
        /\ Confirmed' = [by |-> c, changed |-> ids]
    BY <2>1 DEF Called, NoCall, Confirmed
  <2>4. ServesOne' /\ ConfirmedIsSaved'
    BY <2>1, <2>3 DEF ServesOne, ConfirmedIsSaved
  <2> QED
    BY <1>1, <1>3, <1>4, <1>5, <2>2, <2>3, <2>4 DEF Durable!Reserve, Durable!Ask
<1>6. CASE ~CanReserve(table, ids)
  <2>1. table' = table /\ pc' = "answer" /\ Called("reserve", c, None, ids, 409)
    BY <1>6 DEF Reserve
  <2>2. Owners(table)' = [r \in DOMAIN Owners(table) |-> Owners(table)[r]]
    BY <2>1 DEF Owners
  <2>3. call' # NoCall /\ call'.caller = c /\ Confirmed' = [by |-> c, changed |-> {}]
        /\ call'.code # 200
    BY <2>1 DEF Called, NoCall, Confirmed
  <2>4. ServesOne' /\ ConfirmedIsSaved'
    BY <2>1, <2>3 DEF ServesOne, ConfirmedIsSaved
  <2> QED
    BY <1>1, <1>3, <1>4, <1>6, <2>2, <2>3, <2>4 DEF Durable!Reserve, Durable!Ask
<1> QED
  BY <1>5, <1>6

\* release_resources is Release.
LEMMA ReleaseImplements ==
    ASSUME DInv, NEW c \in Principal, NEW ids \in (SUBSET Resource) \ {{}}, Release(c, ids)
    PROVE  ServesOne' /\ ConfirmedIsSaved' /\ Durable!Release(c, ids)
<1>0. up /\ pc = "idle"
  BY DEF Release
<1>1. up /\ Confirmed = Durable!Nobody /\ Consistent(table)
  BY <1>0 DEF DInv, IInv, EntriesConsistent, ServesOne, NoCall, Confirmed, Durable!Nobody
<1>2. DOMAIN Owners(table) = DOMAIN table
  BY DEF Owners
<1>3. CanRelease(table, ids, c, c \in Operator) <=>
          \A r \in ids : /\ r \in DOMAIN Owners(table)
                         /\ Owners(table)[r] # None
                         /\ Owners(table)[r] = c \/ c \in Operator
  BY <1>1, <1>2, StatusIsOwner DEF CanRelease
<1>4. up' = up /\ Owners(stateFile.table)' = Owners(stateFile.table)
  BY DEF Release, Owners
<1>5. CASE CanRelease(table, ids, c, c \in Operator)
  <2>1. table' = Freed(table, ids) /\ pc' = "save" /\ Called("release", c, None, ids, 200)
    BY <1>5 DEF Release
  <2>2. Owners(table)' = [r \in DOMAIN Owners(table) |-> IF r \in ids THEN None ELSE Owners(table)[r]]
    BY <2>1, OwnersFreed DEF Owners
  <2>3. /\ call' # NoCall /\ call'.caller = c /\ call'.ids = ids /\ call'.code = 200
        /\ Confirmed' = [by |-> c, changed |-> ids]
    BY <2>1 DEF Called, NoCall, Confirmed
  <2>4. ServesOne' /\ ConfirmedIsSaved'
    BY <2>1, <2>3 DEF ServesOne, ConfirmedIsSaved
  <2> QED
    BY <1>1, <1>3, <1>4, <1>5, <2>2, <2>3, <2>4 DEF Durable!Release, Durable!Ask
<1>6. CASE ~CanRelease(table, ids, c, c \in Operator)
  <2>1. table' = table /\ pc' = "answer" /\ Called("release", c, None, ids, 400)
    BY <1>6 DEF Release
  <2>2. Owners(table)' = [r \in DOMAIN Owners(table) |-> Owners(table)[r]]
    BY <2>1 DEF Owners
  <2>3. call' # NoCall /\ call'.caller = c /\ Confirmed' = [by |-> c, changed |-> {}]
        /\ call'.code # 200
    BY <2>1 DEF Called, NoCall, Confirmed
  <2>4. ServesOne' /\ ConfirmedIsSaved'
    BY <2>1, <2>3 DEF ServesOne, ConfirmedIsSaved
  <2> QED
    BY <1>1, <1>3, <1>4, <1>6, <2>2, <2>3, <2>4 DEF Durable!Release, Durable!Ask
<1> QED
  BY <1>5, <1>6

\* release_all_for_client is ReleaseAll; with nothing to free there is nothing to save.
LEMMA ReleaseAllImplements ==
    ASSUME DInv, NEW c \in Principal, NEW t \in Principal, ReleaseAll(c, t)
    PROVE  ServesOne' /\ ConfirmedIsSaved' /\ Durable!ReleaseAll(c, t)
<1> DEFINE ids == OwnedBy(table, t)
<1>1. up /\ Confirmed = Durable!Nobody
  BY DEF DInv, ServesOne, ReleaseAll, NoCall, Confirmed, Durable!Nobody
<1>2. ids = {r \in DOMAIN Owners(table) : Owners(table)[r] = t}
  BY DEF Owners, OwnedBy
<1>3. up' = up /\ Owners(stateFile.table)' = Owners(stateFile.table)
  BY DEF ReleaseAll, Owners
<1> HIDE DEF ids
<1>4. CASE c \in Operator \/ t = c
  <2>1. /\ table' = Freed(table, ids) /\ pc' = (IF ids # {} THEN "save" ELSE "answer")
        /\ Called("release_all", c, t, ids, 200)
    BY <1>4 DEF ReleaseAll, ids
  <2>2. Owners(table)' = [r \in DOMAIN Owners(table) |-> IF r \in ids THEN None ELSE Owners(table)[r]]
    BY <2>1, OwnersFreed DEF Owners
  <2>3. /\ call' # NoCall /\ call'.caller = c /\ call'.ids = ids /\ call'.code = 200
        /\ Confirmed' = [by |-> c, changed |-> ids]
    BY <2>1 DEF Called, NoCall, Confirmed
  <2>4. ServesOne' /\ ConfirmedIsSaved'
    BY <2>1, <2>3 DEF ServesOne, ConfirmedIsSaved
  <2> QED
    BY <1>1, <1>2, <1>3, <1>4, <2>2, <2>3, <2>4 DEF Durable!ReleaseAll, Durable!Ask
<1>5. CASE c \notin Operator /\ t # c
  <2>1. table' = table /\ pc' = "answer" /\ Called("release_all", c, t, {}, 403)
    BY <1>5 DEF ReleaseAll
  <2>2. Owners(table)' = [r \in DOMAIN Owners(table) |-> Owners(table)[r]]
    BY <2>1 DEF Owners
  <2>3. call' # NoCall /\ call'.caller = c /\ Confirmed' = [by |-> c, changed |-> {}]
        /\ call'.code # 200
    BY <2>1 DEF Called, NoCall, Confirmed
  <2>4. ServesOne' /\ ConfirmedIsSaved'
    BY <2>1, <2>3 DEF ServesOne, ConfirmedIsSaved
  <2> QED
    BY <1>1, <1>2, <1>3, <1>5, <2>2, <2>3, <2>4 DEF Durable!ReleaseAll, Durable!Ask
<1> QED
  BY <1>4, <1>5

\* A start on any configuration is Start.
LEMMA StartImplements ==
    ASSUME DInv, NEW config \in Configs, Start(config)
    PROVE  ServesOne' /\ ConfirmedIsSaved' /\ Durable!Start(config)
<1>1. ~up /\ up' = TRUE /\ table' = Loaded(config, stateFile) /\ UNCHANGED <<stateFile, pc, call>>
  BY DEF Start
<1>2. IsFile(stateFile) /\ pc = "idle"
  BY <1>1 DEF DInv, IInv, TypeOK, HandlerRuns
<1>3. Owners(table)' = Owners(Loaded(config, stateFile))
  BY <1>1 DEF Owners
<1>4. UNCHANGED <<Owners(stateFile.table), Confirmed>>
  BY <1>1 DEF Owners, Confirmed
<1>5. ServesOne' /\ ConfirmedIsSaved'
  BY <1>1, <1>2 DEF DInv, ServesOne, ConfirmedIsSaved
<1> QED
  BY <1>1, <1>2, <1>3, <1>4, <1>5, OwnersLoaded DEF Durable!Start

\* The death of the process is Stop: of the handler nothing is left but the files.
LEMMA CrashImplements ==
    ASSUME Crash
    PROVE  ServesOne' /\ ConfirmedIsSaved' /\ Durable!Stop
<1>1. up' = FALSE /\ table' = EmptyTable /\ pc' = "idle" /\ call' = NoCall /\ stateFile' = stateFile
  BY DEF Crash
<1>2. Owners(table)' = Durable!Nothing /\ Owners(stateFile.table)' = Owners(stateFile.table)
  BY <1>1 DEF Owners, EmptyTable, Durable!Nothing
<1>3. Confirmed' = Durable!Nobody
  BY <1>1 DEF Confirmed, NoCall, Durable!Nobody
<1> QED
  BY <1>1, <1>2, <1>3 DEF ServesOne, ConfirmedIsSaved, Durable!Stop

\* os.replace is Save: the temporary file has been the table since it was written.
LEMMA ReplaceImplements ==
    ASSUME DInv, ReplaceState
    PROVE  ServesOne' /\ ConfirmedIsSaved' /\ Durable!Save
<1>1. stateFile' = WholeFile(table) /\ UNCHANGED <<up, table, call>> /\ pc = "replace" /\ pc' = "answer"
  BY DEF ReplaceState, DInv, IInv, TmpIsTable
<1>2. Confirmed.changed # {}
  BY <1>1 DEF DInv, ServesOne, Confirmed
<1>3. /\ Owners(table)' = Owners(table) /\ Confirmed' = Confirmed
      /\ Owners(stateFile.table)' = Owners(table)
  BY <1>1 DEF Owners, Confirmed, WholeFile
<1>4. ServesOne' /\ ConfirmedIsSaved'
  BY <1>1 DEF DInv, ServesOne, ConfirmedIsSaved
<1> QED
  BY <1>1, <1>2, <1>3, <1>4 DEF Durable!Save

\* An OSError is Fail: the change stays in memory, and the 500 confirms nothing.
LEMMA FailureImplements ==
    ASSUME DInv, SaveFails
    PROVE  ServesOne' /\ ConfirmedIsSaved' /\ Durable!Fail
<1>1. /\ call' = [call EXCEPT !.code = 500] /\ UNCHANGED <<up, table, stateFile>>
      /\ pc # "idle" /\ pc' = "answer"
  BY DEF SaveFails
<1>2. call \in Calls /\ call.caller \in Principal
  BY <1>1 DEF DInv, IInv, TypeOK, ServesOne
<1>3. call'.code = 500 /\ call'.caller = call.caller
  BY <1>1, <1>2 DEF Calls
<1>4. Confirmed' = [Confirmed EXCEPT !.changed = {}] /\ Confirmed # Durable!Nobody
  BY <1>2, <1>3 DEF Confirmed, Durable!Nobody
<1>5. UNCHANGED <<Owners(table), Owners(stateFile.table)>>
  BY <1>1 DEF Owners
<1>6. ServesOne' /\ ConfirmedIsSaved'
  BY <1>1, <1>2, <1>3 DEF ServesOne, ConfirmedIsSaved, NoCall
<1> QED
  BY <1>1, <1>4, <1>5, <1>6 DEF Durable!Fail

\* The answer is Answer: with a 200 for a change, the file is the table.
LEMMA AnswerImplements ==
    ASSUME DInv, Answer
    PROVE  ServesOne' /\ ConfirmedIsSaved' /\ Durable!Answer
<1>1. pc = "answer" /\ pc' = "idle" /\ call' = NoCall /\ UNCHANGED <<up, table, stateFile>>
  BY DEF Answer
<1>2. Confirmed # Durable!Nobody
  BY <1>1 DEF DInv, ServesOne, Confirmed, Durable!Nobody
<1>3. Confirmed.changed # {} => Owners(stateFile.table) = Owners(table)
  BY <1>1 DEF DInv, ConfirmedIsSaved, Confirmed, WholeFile
<1>4. Confirmed' = Durable!Nobody /\ UNCHANGED <<Owners(table), Owners(stateFile.table)>>
  BY <1>1 DEF Confirmed, NoCall, Durable!Nobody, Owners
<1>5. ServesOne' /\ ConfirmedIsSaved'
  BY <1>1 DEF ServesOne, ConfirmedIsSaved
<1> QED
  BY <1>1, <1>2, <1>3, <1>4, <1>5 DEF Durable!Answer

-----------------------------------------------------------------------------
(* The refinement.                                                         *)

\* Every step is one of the durable arbiter or leaves it alone, one case per action.
LEMMA DStep == DInv /\ [Next]_vars => DInv' /\ [Durable!Next]_(Durable!vars)
<1> SUFFICES ASSUME DInv, [Next]_vars
             PROVE  ServesOne' /\ ConfirmedIsSaved' /\ [Durable!Next]_(Durable!vars)
  BY InvStep DEF DInv
<1>1. ASSUME NEW config \in Configs, Start(config)
      PROVE  ServesOne' /\ ConfirmedIsSaved' /\ Durable!Next
  BY <1>1, StartImplements DEF Durable!Next
<1>2. CASE Crash
  BY <1>2, CrashImplements DEF Durable!Next
<1>3. CASE ClientCall
  <2>1. ASSUME NEW c \in Principal, NEW ids \in (SUBSET Resource) \ {{}},
               NEW w \in Who \cup {None}, Reserve(c, ids, w)
        PROVE  ServesOne' /\ ConfirmedIsSaved' /\ Durable!Next
    BY <2>1, ReserveImplements DEF Durable!Next
  <2>2. ASSUME NEW c \in Principal, NEW ids \in (SUBSET Resource) \ {{}}, Release(c, ids)
        PROVE  ServesOne' /\ ConfirmedIsSaved' /\ Durable!Next
    BY <2>2, ReleaseImplements DEF Durable!Next
  <2>3. ASSUME NEW c \in Principal, NEW t \in Principal, ReleaseAll(c, t)
        PROVE  ServesOne' /\ ConfirmedIsSaved' /\ Durable!Next
    BY <2>3, ReleaseAllImplements DEF Durable!Next
  <2> QED
    BY <1>3, <2>1, <2>2, <2>3 DEF ClientCall
<1>4. CASE OpenTmp \/ DumpTmp
  <2>1. /\ UNCHANGED <<up, table, stateFile, call>>
        /\ pc \in {"save", "dump"} /\ pc' \in {"dump", "replace"}
    BY <1>4 DEF OpenTmp, DumpTmp
  <2>2. ServesOne' /\ ConfirmedIsSaved'
    BY <2>1 DEF DInv, ServesOne, ConfirmedIsSaved
  <2> QED
    BY <2>1, <2>2 DEF Durable!vars, Owners, Confirmed
<1>5. CASE ReplaceState
  BY <1>5, ReplaceImplements DEF Durable!Next
<1>6. CASE SaveFails
  BY <1>6, FailureImplements DEF Durable!Next
<1>7. CASE Answer
  BY <1>7, AnswerImplements DEF Durable!Next
<1>8. CASE UNCHANGED vars
  BY <1>8 DEF vars, DInv, ServesOne, ConfirmedIsSaved, Durable!vars, Owners, Confirmed
<1> QED
  BY <1>1, <1>2, <1>3, <1>4, <1>5, <1>6, <1>7, <1>8 DEF Next, ServerStep

\* The server implements the durable arbiter, without any hypothesis: lists are
\* changed whole or not at all, the file is always a table that memory had after a
\* change, and a change that is answered with 200 is on disk, together with every
\* earlier one whose save failed.
THEOREM DurableRefinement == Spec => ImplementsDurableArbiter
<1>1. Init => DInv /\ Durable!Init
  BY DInit
<1>2. DInv /\ [Next]_vars => DInv' /\ [Durable!Next]_(Durable!vars)
  BY DStep
<1> QED
  BY <1>1, <1>2, PTL DEF Spec, ImplementsDurableArbiter, Durable!Spec
=============================================================================
