------------------------------- MODULE WebUI -------------------------------
(***************************************************************************)
(* web/static/app.js in one browser tab: the token typed in, the identity  *)
(* /api/whoami resolved it to, the table of resources with its buttons,    *)
(* and the requests in between.                                            *)
(*                                                                         *)
(* An event runs to its first await; what follows runs when the answer has *)
(* come, and answers come in any order.  A request in flight occupies a    *)
(* slot.  The server is one table here: a handler is one step of it.       *)
(***************************************************************************)
EXTENDS ResourceTable, Integers

CONSTANTS
    TokenEntries, AuthDisabled, Anonymous,
    Token,          \* what the user may type in the token field
    Filter,         \* the choices of the status filter: "all" and statuses
    Slot,           \* bound: requests of one kind in flight
    MaxMoves        \* bound: what the user and other clients do altogether

INSTANCE Auth

VARIABLES
    table,          \* the server's self._resources
    token,          \* the token field
    identity,       \* _identity
    filter,         \* the status filter
    auto,           \* is the auto-refresh timer set?
    asks,           \* whoami requests in flight: the token each was sent with
    lists,          \* resource list requests in flight
    posts,          \* reserve and release requests in flight
    shown,          \* the table on the screen
    moves           \* what users have done so far

vars == <<table, token, identity, filter, auto, asks, lists, posts, shown, moves>>

Nobody == [name |-> None, role |-> None]

NoAsk == [phase |-> "free", token |-> None]
NoList == [phase |-> "free", filter |-> "all", rows |-> EmptyTable]
NoPost == [phase |-> "free", op |-> "reserve", id |-> None, token |-> None]

\* Nothing is shown before the first answer and after one that failed.
NothingShown == [what |-> "nothing", rows |-> EmptyTable, reserve |-> {}, release |-> {}]

\* The tables a list may hold.
Rows == UNION {[ids -> Entry] : ids \in SUBSET Resource}

ASSUME PageAssumption ==
    /\ "all" \in Filter /\ MaxMoves \in Nat
    /\ \A t \in Token \cup {None} :
          RequirePrincipal(t) = None \/ RequirePrincipal(t).name \in Principal

TypeOK ==
    /\ table \in [Resource -> Entry]
    /\ token \in Token \cup {None}
    /\ identity \in {Nobody} \cup {RequirePrincipal(t) : t \in Token \cup {None}}
    /\ filter \in Filter
    /\ auto \in BOOLEAN
    /\ asks \in [Slot -> [phase : {"free", "out"}, token : Token \cup {None}]]
    /\ lists \in [Slot -> [phase : {"free", "out", "back"}, filter : Filter, rows : Rows]]
    /\ posts \in [Slot -> [phase : {"free", "out", "left", "accepted", "refused"},
                           op : {"reserve", "release"}, id : Resource \cup {None},
                           token : Token \cup {None}]]
    /\ shown \in [what : {"nothing", "table"}, rows : Rows,
                  reserve : SUBSET Resource, release : SUBSET Resource]
    /\ moves \in 0..MaxMoves

\* The requests of the load event: updateRoleDisplay with the token the session has
\* kept, and refresh.
OpeningLists(slots) ==
    [s \in Slot |-> IF s \in slots THEN [NoList EXCEPT !.phase = "out"] ELSE NoList]

OpeningAsks(slot, t) ==
    [s \in Slot |-> IF s = slot /\ t # None THEN [phase |-> "out", token |-> t] ELSE NoAsk]

Init ==
    /\ table = [r \in Resource |-> FreeEntry]
    /\ token \in Token \cup {None}
    /\ identity = Nobody
    /\ filter = "all"
    /\ auto = TRUE
    /\ posts = [s \in Slot |-> NoPost]
    /\ shown = NothingShown
    /\ moves = 0
    /\ \E first, second \in Slot : /\ (first # second) = (token = None)
                                  /\ lists = OpeningLists({first, second})
                                  /\ asks = OpeningAsks(first, token)

Move == moves < MaxMoves /\ moves' = moves + 1

\* loadResources up to its await, with the filter f chosen.
LoadResources(f) ==
    \E s \in Slot : /\ lists[s].phase = "free"
                    /\ lists' = [lists EXCEPT ![s] = [NoList EXCEPT !.phase = "out",
                                                                    !.filter = f]]

\* The user loads the page again: nobody waits for what it had asked for, but the
\* server may serve a click all the same.  Some browsers keep the filter.
Reload ==
    /\ Move
    /\ identity' = Nobody
    /\ filter' \in {filter, "all"}
    /\ auto' = TRUE
    /\ posts' = [s \in Slot |-> IF posts[s].phase \in {"out", "left"}
                                THEN [posts[s] EXCEPT !.phase = "left"] ELSE NoPost]
    /\ shown' = NothingShown
    /\ \E first, second \in Slot : /\ (first # second) = (token = None)
                                  /\ lists' = OpeningLists({first, second})
                                  /\ asks' = OpeningAsks(first, token)
    /\ UNCHANGED <<table, token>>

-----------------------------------------------------------------------------
(* Identity.                                                               *)

\* The input event of the token field: updateRoleDisplay up to its await.
TypeToken(t) ==
    /\ Move
    /\ t # token
    /\ token' = t
    /\ \/ /\ t = None
          /\ identity' = Nobody
          /\ LoadResources(filter)
          /\ UNCHANGED asks
       \/ /\ t # None
          /\ \E s \in Slot : /\ asks[s].phase = "free"
                             /\ asks' = [asks EXCEPT ![s] = [phase |-> "out", token |-> t]]
          /\ UNCHANGED <<identity, lists>>
    /\ UNCHANGED <<table, filter, auto, posts, shown>>

\* Slip: the table is not drawn again.
WhoamiAnswersQuietly(s) ==
    /\ asks[s].phase = "out"
    /\ identity' \in {Nobody} \cup ({RequirePrincipal(asks[s].token)} \ {None})
    /\ asks' = [asks EXCEPT ![s] = NoAsk]
    /\ UNCHANGED <<table, token, filter, auto, lists, posts, shown, moves>>

\* The answer, or the exception that a 401 or a broken connection is.
WhoamiAnswers(s) ==
    /\ asks[s].phase = "out"
    /\ identity' \in {Nobody} \cup ({RequirePrincipal(asks[s].token)} \ {None})
    /\ asks' = [asks EXCEPT ![s] = NoAsk]
    /\ LoadResources(filter)
    /\ UNCHANGED <<table, token, filter, auto, posts, shown, moves>>

-----------------------------------------------------------------------------
(* The table.                                                              *)

\* The auto-refresh timer.
Tick ==
    /\ auto
    /\ LoadResources(filter)
    /\ UNCHANGED <<table, token, identity, filter, auto, asks, posts, shown, moves>>

ClickRefresh ==
    /\ Move
    /\ LoadResources(filter)
    /\ UNCHANGED <<table, token, identity, filter, auto, asks, posts, shown>>

ChooseFilter(f) ==
    /\ Move
    /\ f # filter
    /\ filter' = f
    /\ LoadResources(f)
    /\ UNCHANGED <<table, token, identity, auto, asks, posts, shown>>

ToggleAutoRefresh ==
    /\ Move
    /\ auto' = ~auto
    /\ UNCHANGED <<table, token, identity, filter, asks, lists, posts, shown>>

Select(f) == [r \in {q \in Resource : f \in {"all", table[q].status}} |-> table[r]]

\* GET /api/resources, at the server.
ServeList(s) ==
    /\ lists[s].phase = "out"
    /\ lists' = [lists EXCEPT ![s] = [@ EXCEPT !.phase = "back",
                                                  !.rows = Select(lists[s].filter)]]
    /\ UNCHANGED <<table, token, identity, filter, auto, asks, posts, shown, moves>>

MayRelease(e) == identity.role = "operator" \/ e.owner = identity.name

\* The buttons are those of the identity known when the answer is drawn.
Drawn(rows) ==
    [what |-> "table", rows |-> rows,
     reserve |-> {r \in DOMAIN rows : rows[r].status = "available"},
     release |-> {r \in DOMAIN rows : rows[r].status # "available" /\ MayRelease(rows[r])}]

\* Slip: only the first answer is drawn.
DrawOnce(s) ==
    /\ lists[s].phase = "back"
    /\ shown' = IF shown.what = "table" THEN shown ELSE Drawn(lists[s].rows)
    /\ lists' = [lists EXCEPT ![s] = NoList]
    /\ UNCHANGED <<table, token, identity, filter, auto, asks, posts, moves>>

Draw(s) ==
    /\ lists[s].phase = "back"
    /\ shown' = Drawn(lists[s].rows)
    /\ lists' = [lists EXCEPT ![s] = NoList]
    /\ UNCHANGED <<table, token, identity, filter, auto, asks, posts, moves>>

\* "Failed to load resources" takes the place of the table.
DrawFailure(s) ==
    /\ lists[s].phase # "free"
    /\ shown' = NothingShown
    /\ lists' = [lists EXCEPT ![s] = NoList]
    /\ UNCHANGED <<table, token, identity, filter, auto, asks, posts, moves>>

-----------------------------------------------------------------------------
(* The buttons.                                                            *)

Post(op, r) ==
    \E s \in Slot : /\ posts[s].phase = "free"
                    /\ posts' = [posts EXCEPT ![s] = [phase |-> "out", op |-> op, id |-> r,
                                                      token |-> token]]

\* A click sends the token that is in the field, whoever the row was drawn for.
Click(r) ==
    /\ Move
    /\ \/ r \in shown.reserve /\ Post("reserve", r)
       \/ r \in shown.release /\ Post("release", r)
    /\ UNCHANGED <<table, token, identity, filter, auto, asks, lists, shown>>

\* require_principal and the handler, which refuses with a 400, 401 or 409.
ServePost(s) ==
    LET q == posts[s]
        who == RequirePrincipal(q.token)
        may == /\ who # None
               /\ IF q.op = "reserve" THEN CanReserve(table, {q.id})
                  ELSE CanRelease(table, {q.id}, who.name, IsOperator(who)) IN
    /\ q.phase \in {"out", "left"}
    /\ posts' = [posts EXCEPT ![s] = IF q.phase = "left" THEN NoPost
                                     ELSE [q EXCEPT !.phase = IF may THEN "accepted"
                                                              ELSE "refused"]]
    /\ table' = IF ~may THEN table
                ELSE IF q.op = "reserve" THEN Reserved(table, {q.id}, who.name, None)
                ELSE Freed(table, {q.id})
    /\ UNCHANGED <<token, identity, filter, auto, asks, lists, shown, moves>>

\* A success is followed by a refresh, a refusal by a message only.
PostAnswers(s) ==
    /\ \/ posts[s].phase = "accepted" /\ LoadResources(filter)
       \/ posts[s].phase = "refused" /\ UNCHANGED lists
    /\ posts' = [posts EXCEPT ![s] = NoPost]
    /\ UNCHANGED <<table, token, identity, filter, auto, asks, shown, moves>>

\* The connection breaks, before or after the handler has run.
PostFails(s) ==
    /\ posts[s].phase # "free"
    /\ posts' = [posts EXCEPT ![s] = NoPost]
    /\ UNCHANGED <<table, token, identity, filter, auto, asks, lists, shown, moves>>

\* Another client reserves or releases r.
OtherClient(p, r) ==
    /\ Move
    /\ \/ CanReserve(table, {r}) /\ table' = Reserved(table, {r}, p, None)
       \/ CanRelease(table, {r}, p, FALSE) /\ table' = Freed(table, {r})
    /\ UNCHANGED <<token, identity, filter, auto, asks, lists, posts, shown>>

-----------------------------------------------------------------------------
Users == \/ \E t \in Token \cup {None} : TypeToken(t)
         \/ ClickRefresh
         \/ \E f \in Filter : ChooseFilter(f)
         \/ ToggleAutoRefresh
         \/ Reload
         \/ \E r \in Resource : Click(r) \/ \E p \in Principal : OtherClient(p, r)

Answers(s) == \/ WhoamiAnswers(s) \/ ServeList(s) \/ Draw(s) \/ DrawFailure(s)
              \/ ServePost(s) \/ PostAnswers(s) \/ PostFails(s)

Next == Users \/ Tick \/ \E s \in Slot : Answers(s)

\* The timer ticks and requests are answered, not always with an error; nothing
\* makes users act.
Spec == Init /\ [][Next]_vars
             /\ WF_vars(Tick)
             /\ \A s \in Slot : /\ WF_vars(WhoamiAnswers(s))
                                /\ SF_vars(ServeList(s))
                                /\ SF_vars(Draw(s))
                                /\ WF_vars(ServePost(s)) /\ WF_vars(PostAnswers(s))

-----------------------------------------------------------------------------
(* Properties.                                                             *)

\* When no list is on its way, the Release buttons are those of the identity the
\* page shows, though identities and rows come from requests that overtake each
\* other.  (app.js:92-95, "re-renders the table so the Release buttons reflect the
\* authenticated principal")
ButtonsMatchIdentity ==
    (\A s \in Slot : lists[s].phase = "free") =>
        shown.release = {r \in DOMAIN shown.rows : /\ shown.rows[r].status # "available"
                                                   /\ MayRelease(shown.rows[r])}

\* When no whoami is on its way, the identity shown is that of the token in the
\* field.  (app.js:5, "Authenticated identity resolved from the token")
IdentityIsOfToken ==
    (\A s \in Slot : asks[s].phase = "free") =>
        identity \in {Nobody} \cup (IF token = None THEN {} ELSE {RequirePrincipal(token)})

\* With auto-refresh on, the page keeps coming back to what the server holds, though
\* lists fail, arrive late and overtake each other.  (MaxMoves makes the users and the
\* other clients stop in the end; the timer and the requests go on.)
TableConverges == <>[]auto => []<>(shown.what = "table" /\ shown.rows = Select(filter))
=============================================================================
