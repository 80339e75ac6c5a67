---------------------------- MODULE WebUIProofs ----------------------------
(***************************************************************************)
(* Proofs about WebUI, for any resources, tokens, token file and number of *)
(* requests in flight.                                                     *)
(***************************************************************************)
EXTENDS WebUI, TLAPS

-----------------------------------------------------------------------------
(* Types.                                                                  *)

AskType == [phase : {"free", "out"}, token : Token \cup {None}]

ListType == [phase : {"free", "out", "back"}, filter : Filter, rows : Rows]

PostType == [phase : {"free", "out", "left", "accepted", "refused"}, op : {"reserve", "release"},
             id : Resource \cup {None}, token : Token \cup {None}]

ShownType == [what : {"nothing", "table"}, rows : Rows,
              reserve : SUBSET Resource, release : SUBSET Resource]

Identity == {Nobody} \cup {RequirePrincipal(t) : t \in Token \cup {None}}

LEMMA BoundKnown == MaxMoves \in Nat /\ "all" \in Filter
BY PageAssumption

LEMMA EntriesTyped ==
    /\ FreeEntry \in Entry
    /\ \A p \in Principal : ReservedEntry(p, None) \in Entry
BY DEF FreeEntry, ReservedEntry, Entry

LEMMA RowsTyped ==
    /\ EmptyTable \in Rows
    /\ \A ids \in SUBSET Resource : [ids -> Entry] \subseteq Rows
PROOF
<1>1. EmptyTable \in [{} -> Entry]
  BY DEF EmptyTable
<1> QED
  BY <1>1 DEF Rows

LEMMA FreshTyped == NoAsk \in AskType /\ NoList \in ListType /\ NoPost \in PostType
                       /\ NothingShown \in ShownType
BY RowsTyped, BoundKnown DEF NoAsk, NoList, NoPost, NothingShown, AskType, ListType, PostType,
   ShownType

\* A list request leaves: its slot is taken.
LEMMA LoadTyped ==
    ASSUME TypeOK, NEW f \in Filter, LoadResources(f)
    PROVE  lists' \in [Slot -> ListType] /\ \E s \in Slot : lists'[s].phase = "out"
PROOF
<1> DEFINE new == [NoList EXCEPT !.phase = "out", !.filter = f]
<1>1. lists \in [Slot -> ListType]
  BY DEF TypeOK, ListType
<1>2. new \in ListType /\ new.phase = "out"
  <2>1. NoList \in ListType
    BY FreshTyped
  <2> QED
    BY <2>1 DEF ListType
<1>3. PICK s \in Slot : lists' = [lists EXCEPT ![s] = new]
  BY DEF LoadResources
<1> HIDE DEF new
<1> QED
  BY <1>1, <1>2, <1>3 DEF ListType

LEMMA SelectTyped ==
    ASSUME TypeOK, NEW f
    PROVE  Select(f) \in Rows
PROOF
<1> DEFINE ids == {q \in Resource : f \in {"all", table[q].status}}
<1>1. Select(f) \in [ids -> Entry]
  BY DEF Select, TypeOK
<1> QED
  BY <1>1, RowsTyped

LEMMA DrawnTyped ==
    ASSUME NEW rows \in Rows
    PROVE  Drawn(rows) \in ShownType
PROOF
<1>1. PICK ids \in SUBSET Resource : rows \in [ids -> Entry]
  BY DEF Rows
<1>2. DOMAIN rows \subseteq Resource
  BY <1>1
<1>3. /\ {r \in DOMAIN rows : rows[r].status = "available"} \in SUBSET Resource
      /\ {r \in DOMAIN rows : rows[r].status # "available" /\ MayRelease(rows[r])}
            \in SUBSET Resource
  BY <1>2
<1> QED
  BY <1>3 DEF Drawn, ShownType

\* What the server may make of its table.
LEMMA TableTyped ==
    ASSUME TypeOK, NEW ids
    PROVE  /\ \A p \in Principal : Reserved(table, ids, p, None) \in [Resource -> Entry]
           /\ Freed(table, ids) \in [Resource -> Entry]
PROOF
<1>1. table \in [Resource -> Entry]
  BY DEF TypeOK
<1> HIDE DEF Entry
<1> QED
  BY <1>1, EntriesTyped DEF Reserved, Freed

-----------------------------------------------------------------------------
(* The inductive invariant is the property itself with the types: every    *)
(* event that changes the identity puts a list on its way.                 *)

IInv == TypeOK /\ ButtonsMatchIdentity

\* The requests of the load event.
LEMMA OpeningTyped ==
    /\ \A slots : OpeningLists(slots) \in [Slot -> ListType]
    /\ \A slot : \A t \in Token \cup {None} : OpeningAsks(slot, t) \in [Slot -> AskType]
PROOF
<1>1. NoList \in ListType /\ NoAsk \in AskType
  BY FreshTyped
<1>2. [NoList EXCEPT !.phase = "out"] \in ListType
  BY <1>1 DEF ListType
<1>3. \A t \in Token \cup {None} : [phase |-> "out", token |-> t] \in AskType
  BY DEF AskType
<1> QED
  BY <1>1, <1>2, <1>3 DEF OpeningLists, OpeningAsks

LEMMA InitIInv == Init => IInv
PROOF
<1> SUFFICES ASSUME Init PROVE IInv
  OBVIOUS
<1>1. asks \in [Slot -> AskType]
  <2>1. token \in Token \cup {None} /\ \E slot \in Slot : asks = OpeningAsks(slot, token)
    BY DEF Init
  <2> QED
    BY <2>1, OpeningTyped
<1>2. lists \in [Slot -> ListType]
  BY OpeningTyped DEF Init
<1>3. posts \in [Slot -> PostType] /\ shown \in ShownType /\ shown = NothingShown
  BY FreshTyped DEF Init
<1>4. TypeOK
  <2>1. /\ table \in [Resource -> Entry]
        /\ token \in Token \cup {None} /\ identity = Nobody
        /\ filter \in Filter /\ auto \in BOOLEAN /\ moves \in 0..MaxMoves
    BY BoundKnown, EntriesTyped DEF Init
  <2> QED
    BY <1>1, <1>2, <1>3, <2>1 DEF TypeOK, AskType, ListType, PostType, ShownType
<1>5. ButtonsMatchIdentity
  BY <1>3 DEF ButtonsMatchIdentity, NothingShown, EmptyTable
<1> QED
  BY <1>4, <1>5 DEF IInv

LEMMA MoveTyped == TypeOK /\ (Move \/ UNCHANGED moves) => moves' \in 0..MaxMoves
PROOF
<1> SUFFICES ASSUME TypeOK, Move \/ UNCHANGED moves PROVE moves' \in 0..MaxMoves
  OBVIOUS
<1>1. moves \in 0..MaxMoves
  BY DEF TypeOK
<1> QED
  BY <1>1, BoundKnown DEF Move

\* A step after which a list is on its way has no buttons to match.
LEMMA OutKeeps == (\E s \in Slot : lists'[s].phase # "free") => ButtonsMatchIdentity'
BY DEF ButtonsMatchIdentity

\* A step that asks for the list keeps the types of lists, and the invariant.
LEMMA LoadKeeps ==
    ASSUME TypeOK, NEW f \in Filter, LoadResources(f)
    PROVE  lists' \in [Slot -> ListType] /\ ButtonsMatchIdentity'
PROOF
<1>1. lists' \in [Slot -> ListType] /\ \E s \in Slot : lists'[s].phase = "out"
  BY LoadTyped
<1>2. \E s \in Slot : lists'[s].phase # "free"
  BY <1>1
<1> QED
  BY <1>1, <1>2, OutKeeps

\* A step that leaves lists, the page and the identity alone.
LEMMA StillKeeps ==
    ASSUME ButtonsMatchIdentity, UNCHANGED <<lists, shown, identity>>
    PROVE  ButtonsMatchIdentity'
BY DEF ButtonsMatchIdentity, MayRelease

\* TypeOK with the types named.
LEMMA Types == TypeOK <=>
    /\ table \in [Resource -> Entry]
    /\ token \in Token \cup {None}
    /\ identity \in Identity
    /\ filter \in Filter
    /\ auto \in BOOLEAN
    /\ asks \in [Slot -> AskType]
    /\ lists \in [Slot -> ListType]
    /\ posts \in [Slot -> PostType]
    /\ shown \in ShownType
    /\ moves \in 0..MaxMoves
BY DEF TypeOK, Identity, AskType, ListType, PostType, ShownType

LEMMA TypesAfter == TypeOK' <=>
    /\ table' \in [Resource -> Entry]
    /\ token' \in Token \cup {None}
    /\ identity' \in Identity
    /\ filter' \in Filter
    /\ auto' \in BOOLEAN
    /\ asks' \in [Slot -> AskType]
    /\ lists' \in [Slot -> ListType]
    /\ posts' \in [Slot -> PostType]
    /\ shown' \in ShownType
    /\ moves' \in 0..MaxMoves
BY DEF TypeOK, Identity, AskType, ListType, PostType, ShownType

LEMMA ReloadKeeps ==
    ASSUME IInv, Reload
    PROVE  IInv'
PROOF
<1>1. TypeOK /\ token \in Token \cup {None} /\ UNCHANGED <<table, token>>
  BY Types DEF IInv, Reload
<1>2. moves' \in 0..MaxMoves
  BY <1>1, MoveTyped DEF Reload
<1>3. lists' \in [Slot -> ListType] /\ asks' \in [Slot -> AskType]
  BY <1>1, OpeningTyped DEF Reload
<1>4. posts' \in [Slot -> PostType]
  <2>1. \A s \in Slot : [posts[s] EXCEPT !.phase = "left"] \in PostType
    BY <1>1, Types DEF PostType
  <2> QED
    BY <2>1, FreshTyped DEF Reload
<1>5. filter' \in Filter /\ identity' \in Identity /\ auto' \in BOOLEAN
  BY <1>1, Types, BoundKnown DEF Reload, Identity
<1>6. shown' = NothingShown /\ shown' \in ShownType
  BY FreshTyped DEF Reload
<1>7. TypeOK'
  BY <1>1, <1>2, <1>3, <1>4, <1>5, <1>6, Types, TypesAfter
<1>8. ButtonsMatchIdentity'
  BY <1>6 DEF ButtonsMatchIdentity, NothingShown, EmptyTable
<1> QED
  BY <1>7, <1>8 DEF IInv

-----------------------------------------------------------------------------
(* Identity.                                                               *)

LEMMA TypeTokenKeeps ==
    ASSUME IInv, NEW t \in Token \cup {None}, TypeToken(t)
    PROVE  IInv'
PROOF
<1>1. TypeOK /\ ButtonsMatchIdentity
  BY DEF IInv
<1>2. moves' \in 0..MaxMoves
  BY <1>1, MoveTyped DEF TypeToken
<1>3. CASE t = None
  <2>1. LoadResources(filter) /\ identity' = Nobody /\ UNCHANGED asks
    BY <1>3 DEF TypeToken
  <2>2. filter \in Filter
    BY <1>1, Types
  <2>3. lists' \in [Slot -> ListType] /\ ButtonsMatchIdentity'
    BY <1>1, <2>1, <2>2, LoadKeeps
  <2>4. TypeOK'
    BY <1>1, <1>2, <2>1, <2>3, Types, TypesAfter DEF TypeToken, Identity
  <2> QED
    BY <2>3, <2>4 DEF IInv
<1>4. CASE t # None
  <2>1. PICK s \in Slot : asks' = [asks EXCEPT ![s] = [phase |-> "out", token |-> t]]
    BY <1>4 DEF TypeToken
  <2>2. UNCHANGED <<identity, lists, shown>>
    BY <1>4 DEF TypeToken
  <2>3. [phase |-> "out", token |-> t] \in AskType
    BY DEF AskType
  <2>4. asks' \in [Slot -> AskType]
    BY <1>1, <2>1, <2>3, Types
  <2>5. TypeOK'
    BY <1>1, <1>2, <2>2, <2>4, Types, TypesAfter DEF TypeToken
  <2> QED
    BY <1>1, <2>2, <2>5, StillKeeps DEF IInv
<1> QED
  BY <1>3, <1>4

LEMMA WhoamiAnswersKeeps ==
    ASSUME IInv, NEW s \in Slot, WhoamiAnswers(s)
    PROVE  IInv'
PROOF
<1>1. TypeOK
  BY DEF IInv
<1>2. filter \in Filter /\ asks[s].token \in Token \cup {None}
  BY <1>1, Types DEF AskType
<1>3. lists' \in [Slot -> ListType] /\ ButtonsMatchIdentity'
  BY <1>1, <1>2, LoadKeeps DEF WhoamiAnswers
<1>4. identity' \in Identity
  BY <1>2 DEF WhoamiAnswers, Identity
<1>5. asks' \in [Slot -> AskType]
  BY <1>1, Types, FreshTyped DEF WhoamiAnswers
<1>6. TypeOK'
  BY <1>1, <1>3, <1>4, <1>5, Types, TypesAfter DEF WhoamiAnswers
<1> QED
  BY <1>3, <1>6 DEF IInv

-----------------------------------------------------------------------------
(* The table.                                                              *)

LEMMA TickKeeps ==
    ASSUME IInv, Tick
    PROVE  IInv'
PROOF
<1>1. TypeOK /\ filter \in Filter
  BY Types DEF IInv
<1>2. lists' \in [Slot -> ListType] /\ ButtonsMatchIdentity'
  BY <1>1, LoadKeeps DEF Tick
<1>3. TypeOK'
  BY <1>1, <1>2, Types, TypesAfter DEF Tick
<1> QED
  BY <1>2, <1>3 DEF IInv

LEMMA ClickRefreshKeeps ==
    ASSUME IInv, ClickRefresh
    PROVE  IInv'
PROOF
<1>1. TypeOK /\ filter \in Filter
  BY Types DEF IInv
<1>2. lists' \in [Slot -> ListType] /\ ButtonsMatchIdentity'
  BY <1>1, LoadKeeps DEF ClickRefresh
<1>3. moves' \in 0..MaxMoves
  BY <1>1, MoveTyped DEF ClickRefresh
<1>4. TypeOK'
  BY <1>1, <1>2, <1>3, Types, TypesAfter DEF ClickRefresh
<1> QED
  BY <1>2, <1>4 DEF IInv

LEMMA ChooseFilterKeeps ==
    ASSUME IInv, NEW f \in Filter, ChooseFilter(f)
    PROVE  IInv'
PROOF
<1>1. TypeOK
  BY DEF IInv
<1>2. lists' \in [Slot -> ListType] /\ ButtonsMatchIdentity'
  BY <1>1, LoadKeeps DEF ChooseFilter
<1>3. moves' \in 0..MaxMoves
  BY <1>1, MoveTyped DEF ChooseFilter
<1>4. TypeOK'
  BY <1>1, <1>2, <1>3, Types, TypesAfter DEF ChooseFilter
<1> QED
  BY <1>2, <1>4 DEF IInv

LEMMA ToggleAutoRefreshKeeps ==
    ASSUME IInv, ToggleAutoRefresh
    PROVE  IInv'
PROOF
<1>1. TypeOK /\ ButtonsMatchIdentity
  BY DEF IInv
<1>2. moves' \in 0..MaxMoves
  BY <1>1, MoveTyped DEF ToggleAutoRefresh
<1>3. TypeOK'
  BY <1>1, <1>2, Types, TypesAfter DEF ToggleAutoRefresh
<1>4. ButtonsMatchIdentity'
  BY <1>1, StillKeeps DEF ToggleAutoRefresh
<1> QED
  BY <1>3, <1>4 DEF IInv

LEMMA ServeListKeeps ==
    ASSUME IInv, NEW s \in Slot, ServeList(s)
    PROVE  IInv'
PROOF
<1>1. TypeOK /\ lists \in [Slot -> ListType]
  BY Types DEF IInv
<1> DEFINE answer == [lists[s] EXCEPT !.phase = "back", !.rows = Select(lists[s].filter)]
<1>2. answer \in ListType /\ answer.phase = "back"
  <2>1. Select(lists[s].filter) \in Rows
    BY <1>1, SelectTyped
  <2>2. lists[s] \in ListType
    BY <1>1
  <2> HIDE DEF Rows
  <2> QED
    BY <2>1, <2>2 DEF ListType
<1>3. lists' = [lists EXCEPT ![s] = answer]
  BY DEF ServeList
<1> HIDE DEF answer
<1>4. lists' \in [Slot -> ListType] /\ lists'[s].phase # "free"
  BY <1>1, <1>2, <1>3
<1>5. TypeOK'
  BY <1>1, <1>4, Types, TypesAfter DEF ServeList
<1> QED
  BY <1>4, <1>5, OutKeeps DEF IInv

LEMMA DrawKeeps ==
    ASSUME IInv, NEW s \in Slot, Draw(s)
    PROVE  IInv'
PROOF
<1>1. TypeOK /\ lists \in [Slot -> ListType]
  BY Types DEF IInv
<1>2. lists[s].rows \in Rows
  BY <1>1 DEF ListType
<1>3. shown' = Drawn(lists[s].rows) /\ UNCHANGED identity
  BY DEF Draw
<1>4. shown' \in ShownType
  BY <1>2, <1>3, DrawnTyped
<1>5. lists' \in [Slot -> ListType]
  BY <1>1, FreshTyped DEF Draw
<1>6. TypeOK'
  BY <1>1, <1>4, <1>5, Types, TypesAfter DEF Draw
<1>7. ButtonsMatchIdentity'
  BY <1>3 DEF ButtonsMatchIdentity, Drawn, MayRelease
<1> QED
  BY <1>6, <1>7 DEF IInv

LEMMA DrawFailureKeeps ==
    ASSUME IInv, NEW s \in Slot, DrawFailure(s)
    PROVE  IInv'
PROOF
<1>1. TypeOK /\ lists \in [Slot -> ListType]
  BY Types DEF IInv
<1>2. shown' = NothingShown /\ shown' \in ShownType
  BY FreshTyped DEF DrawFailure
<1>3. lists' \in [Slot -> ListType]
  BY <1>1, FreshTyped DEF DrawFailure
<1>4. TypeOK'
  BY <1>1, <1>2, <1>3, Types, TypesAfter DEF DrawFailure
<1>5. ButtonsMatchIdentity'
  BY <1>2 DEF ButtonsMatchIdentity, NothingShown, EmptyTable
<1> QED
  BY <1>4, <1>5 DEF IInv

-----------------------------------------------------------------------------
(* The buttons.                                                            *)

LEMMA ClickKeeps ==
    ASSUME IInv, NEW r \in Resource, Click(r)
    PROVE  IInv'
PROOF
<1>1. TypeOK /\ ButtonsMatchIdentity
  BY DEF IInv
<1>2. moves' \in 0..MaxMoves
  BY <1>1, MoveTyped DEF Click
<1>3. PICK op \in {"reserve", "release"} : Post(op, r)
  BY DEF Click
<1> DEFINE new == [phase |-> "out", op |-> op, id |-> r, token |-> token]
<1>4. PICK s \in Slot : posts' = [posts EXCEPT ![s] = new]
  BY <1>3 DEF Post
<1>5. new \in PostType
  BY <1>1, Types DEF PostType
<1> HIDE DEF new
<1>6. posts' \in [Slot -> PostType]
  BY <1>1, <1>4, <1>5, Types
<1>7. TypeOK'
  BY <1>1, <1>2, <1>6, Types, TypesAfter DEF Click
<1>8. ButtonsMatchIdentity'
  BY <1>1, StillKeeps DEF Click
<1> QED
  BY <1>7, <1>8 DEF IInv

LEMMA ServePostKeeps ==
    ASSUME IInv, NEW s \in Slot, ServePost(s)
    PROVE  IInv'
PROOF
<1>1. TypeOK /\ ButtonsMatchIdentity /\ posts \in [Slot -> PostType]
  BY Types DEF IInv
<1>2. posts' \in [Slot -> PostType]
  <2>1. PICK p \in {"accepted", "refused"} :
           \/ posts' = [posts EXCEPT ![s] = NoPost]
           \/ posts' = [posts EXCEPT ![s] = [posts[s] EXCEPT !.phase = p]]
    BY DEF ServePost
  <2>2. [posts[s] EXCEPT !.phase = p] \in PostType /\ NoPost \in PostType
    BY <1>1, FreshTyped DEF PostType
  <2> QED
    BY <1>1, <2>1, <2>2
<1>3. table' \in [Resource -> Entry]
  <2> DEFINE who == RequirePrincipal(posts[s].token)
  <2>1. posts[s].token \in Token \cup {None}
    BY <1>1 DEF PostType
  <2>2. who = None \/ who.name \in Principal
    BY <2>1, PageAssumption
  <2>3. \/ table' = table
        \/ who # None /\ table' = Reserved(table, {posts[s].id}, who.name, None)
        \/ table' = Freed(table, {posts[s].id})
    BY DEF ServePost
  <2> HIDE DEF who
  <2>4. who # None => Reserved(table, {posts[s].id}, who.name, None) \in [Resource -> Entry]
    BY <1>1, <2>2, TableTyped
  <2>5. Freed(table, {posts[s].id}) \in [Resource -> Entry]
    BY <1>1, TableTyped
  <2>6. table \in [Resource -> Entry]
    BY <1>1, Types
  <2> QED
    BY <2>3, <2>4, <2>5, <2>6
<1>4. UNCHANGED <<token, identity, filter, auto, asks, lists, shown, moves>>
  BY DEF ServePost
<1>5. TypeOK'
  BY <1>1, <1>2, <1>3, <1>4, Types, TypesAfter
<1> QED
  BY <1>1, <1>4, <1>5, StillKeeps DEF IInv

LEMMA PostAnswersKeeps ==
    ASSUME IInv, NEW s \in Slot, PostAnswers(s)
    PROVE  IInv'
PROOF
<1>1. TypeOK /\ ButtonsMatchIdentity /\ filter \in Filter
  BY Types DEF IInv
<1>2. posts' \in [Slot -> PostType]
  BY <1>1, Types, FreshTyped DEF PostAnswers
<1>3. lists' \in [Slot -> ListType] /\ ButtonsMatchIdentity'
  <2>1. CASE LoadResources(filter)
    BY <1>1, <2>1, LoadKeeps
  <2>2. CASE UNCHANGED lists
    BY <1>1, <2>2, Types, StillKeeps DEF PostAnswers
  <2> QED
    BY <2>1, <2>2 DEF PostAnswers
<1>4. TypeOK'
  BY <1>1, <1>2, <1>3, Types, TypesAfter DEF PostAnswers
<1> QED
  BY <1>3, <1>4 DEF IInv

LEMMA PostFailsKeeps ==
    ASSUME IInv, NEW s \in Slot, PostFails(s)
    PROVE  IInv'
PROOF
<1>1. TypeOK /\ ButtonsMatchIdentity
  BY DEF IInv
<1>2. posts' \in [Slot -> PostType]
  BY <1>1, Types, FreshTyped DEF PostFails
<1>3. TypeOK'
  BY <1>1, <1>2, Types, TypesAfter DEF PostFails
<1>4. ButtonsMatchIdentity'
  BY <1>1, StillKeeps DEF PostFails
<1> QED
  BY <1>3, <1>4 DEF IInv

LEMMA OtherClientKeeps ==
    ASSUME IInv, NEW p \in Principal, NEW r \in Resource, OtherClient(p, r)
    PROVE  IInv'
PROOF
<1>1. TypeOK /\ ButtonsMatchIdentity
  BY DEF IInv
<1>2. moves' \in 0..MaxMoves
  BY <1>1, MoveTyped DEF OtherClient
<1>3. table' \in [Resource -> Entry]
  <2>1. /\ Reserved(table, {r}, p, None) \in [Resource -> Entry]
        /\ Freed(table, {r}) \in [Resource -> Entry]
    BY <1>1, TableTyped
  <2>2. table' = Reserved(table, {r}, p, None) \/ table' = Freed(table, {r})
    BY DEF OtherClient
  <2> QED
    BY <2>1, <2>2
<1>4. TypeOK'
  BY <1>1, <1>2, <1>3, Types, TypesAfter DEF OtherClient
<1>5. ButtonsMatchIdentity'
  BY <1>1, StillKeeps DEF OtherClient
<1> QED
  BY <1>4, <1>5 DEF IInv

-----------------------------------------------------------------------------
(* All steps.                                                              *)

LEMMA NextIInv == IInv /\ [Next]_vars => IInv'
PROOF
<1> SUFFICES ASSUME IInv, [Next]_vars PROVE IInv'
  OBVIOUS
<1>1. CASE Users
  <2>1. CASE \E t \in Token \cup {None} : TypeToken(t)
    BY <2>1, TypeTokenKeeps
  <2>2. CASE \E f \in Filter : ChooseFilter(f)
    BY <2>2, ChooseFilterKeeps
  <2>3. CASE \E r \in Resource : Click(r) \/ \E p \in Principal : OtherClient(p, r)
    BY <2>3, ClickKeeps, OtherClientKeeps
  <2>4. CASE ClickRefresh \/ ToggleAutoRefresh \/ Reload
    BY <2>4, ClickRefreshKeeps, ToggleAutoRefreshKeeps, ReloadKeeps
  <2> QED
    BY <1>1, <2>1, <2>2, <2>3, <2>4 DEF Users
<1>2. CASE Tick
  BY <1>2, TickKeeps
<1>3. CASE \E s \in Slot : Answers(s)
  BY <1>3, WhoamiAnswersKeeps, ServeListKeeps, DrawKeeps, DrawFailureKeeps, ServePostKeeps,
     PostAnswersKeeps, PostFailsKeeps DEF Answers
<1>4. CASE UNCHANGED vars
  <2>1. TypeOK'
    BY <1>4, Types, TypesAfter DEF IInv, vars
  <2>2. ButtonsMatchIdentity'
    BY <1>4, StillKeeps DEF IInv, vars
  <2> QED
    BY <2>1, <2>2 DEF IInv
<1> QED
  BY <1>1, <1>2, <1>3, <1>4 DEF Next

LEMMA InvariantHolds == Spec => []IInv
PROOF
<1>1. Init => IInv
  BY InitIInv
<1>2. IInv /\ [Next]_vars => IInv'
  BY NextIInv
<1> QED
  BY <1>1, <1>2, PTL DEF Spec

-----------------------------------------------------------------------------
(* What the page shows.                                                    *)

\* Whatever the order in which answers come, the page's state has its types: every
\* row it draws is one of the server's entries and every identity one a token has.
THEOREM TypeCorrect == Spec => []TypeOK
PROOF
<1>1. IInv => TypeOK
  BY DEF IInv
<1> QED
  BY <1>1, InvariantHolds, PTL

\* When no list is on its way, the Release buttons on the screen are those of the
\* identity the page shows (app.js:92-95): every change of identity is followed by a
\* new list, and the last answer drawn is drawn for the identity of that moment.
THEOREM ButtonsMatch == Spec => []ButtonsMatchIdentity
PROOF
<1>1. IInv => ButtonsMatchIdentity
  BY DEF IInv
<1> QED
  BY <1>1, InvariantHolds, PTL

-----------------------------------------------------------------------------
(* The identity shown.  It can be another token's than the one in the      *)
(* field, as the run web_identity shows; this is the only way to it.     *)

AsksHaveTokens == \A s \in Slot : asks[s].phase = "out" => asks[s].token # None

\* The answer to a whoami that was sent for a token the field no longer holds.
LateAnswer(s) == asks[s].token # token /\ WhoamiAnswers(s)

LEMMA AsksHaveTokensStep == IInv /\ AsksHaveTokens /\ [Next]_vars => AsksHaveTokens'
PROOF
<1> SUFFICES ASSUME IInv, AsksHaveTokens, [Next]_vars PROVE AsksHaveTokens'
  OBVIOUS
<1>1. asks \in [Slot -> AskType]
  BY DEF IInv, TypeOK, AskType
<1>2. CASE asks' = asks
  BY <1>2 DEF AsksHaveTokens
<1>3. ASSUME NEW t \in Token \cup {None}, TypeToken(t) PROVE AsksHaveTokens'
  BY <1>1, <1>2, <1>3 DEF TypeToken, AsksHaveTokens
<1>4. CASE Reload
  BY <1>4 DEF Reload, OpeningAsks, NoAsk, AsksHaveTokens
<1>5. ASSUME NEW s \in Slot, WhoamiAnswers(s) PROVE AsksHaveTokens'
  BY <1>1, <1>5 DEF WhoamiAnswers, NoAsk, AsksHaveTokens
<1> QED
  BY <1>2, <1>3, <1>4, <1>5
     DEF Next, Users, Answers, vars, ClickRefresh, ChooseFilter, ToggleAutoRefresh, Click,
         OtherClient, Tick, ServeList, Draw, DrawFailure, ServePost, PostAnswers, PostFails

\* The identity shown stops being that of the token in the field only when a whoami
\* answers late, for a token that was in the field before: no other event, in no
\* order, shows one token's principal beside another (app.js:96-118).
THEOREM OnlyLateAnswersMislead ==
    Spec => [][IdentityIsOfToken => IdentityIsOfToken' \/ \E s \in Slot : LateAnswer(s)]_vars
PROOF
<1>1. Init => AsksHaveTokens
  BY DEF Init, OpeningAsks, NoAsk, AsksHaveTokens
<1>2. IInv /\ AsksHaveTokens /\ [Next]_vars =>
         [IdentityIsOfToken => IdentityIsOfToken' \/ \E s \in Slot : LateAnswer(s)]_vars
  <2> SUFFICES ASSUME IInv, AsksHaveTokens, [Next]_vars, IdentityIsOfToken,
                      \A s \in Slot : ~LateAnswer(s)
               PROVE  IdentityIsOfToken'
    OBVIOUS
  <2>1. asks \in [Slot -> AskType]
    BY DEF IInv, TypeOK, AskType
  <2>2. CASE UNCHANGED <<identity, token, asks>>
    BY <2>2 DEF IdentityIsOfToken
  <2>3. ASSUME NEW t \in Token \cup {None}, TypeToken(t) PROVE IdentityIsOfToken'
    BY <2>1, <2>3 DEF TypeToken, IdentityIsOfToken
  <2>4. CASE Reload
    BY <2>4 DEF Reload, IdentityIsOfToken
  <2>5. ASSUME NEW s \in Slot, WhoamiAnswers(s) PROVE IdentityIsOfToken'
    <3>1. asks[s].token = token /\ token # None /\ token' = token
      BY <2>5 DEF WhoamiAnswers, LateAnswer, AsksHaveTokens
    <3> QED
      BY <2>5, <3>1 DEF WhoamiAnswers, IdentityIsOfToken
  <2> QED
    BY <2>2, <2>3, <2>4, <2>5
       DEF Next, Users, Answers, vars, ClickRefresh, ChooseFilter, ToggleAutoRefresh, Click,
           OtherClient, Tick, ServeList, Draw, DrawFailure, ServePost, PostAnswers, PostFails
<1> QED
  BY <1>1, <1>2, AsksHaveTokensStep, InvariantHolds, PTL DEF Spec
=============================================================================
