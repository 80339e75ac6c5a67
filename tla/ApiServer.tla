----------------------------- MODULE ApiServer -----------------------------
(***************************************************************************)
(* The REST API and the programs that call it: cli/rm_cli.py and the C++   *)
(* rm-cli over ResourceManagerClient, and the two demo clients.            *)
(*                                                                         *)
(* A tool sends one request, waits at most ten seconds and turns the       *)
(* answer into an exit status; then its user may run another command.  A   *)
(* demo sends one request after the other.  Its requests that change no    *)
(* state and whose answers it does not use (status, list, the reservation  *)
(* of BOGUS:FAKE:99) can only fail, and count as part of the next one; of  *)
(* the last ones the exit status is left.                                  *)
(*                                                                         *)
(* The server resolves the caller in a thread pool (require_principal is   *)
(* a plain function) and only then runs the handler, so requests overtake  *)
(* each other; a request whose client has given up is served all the       *)
(* same.  A handler is one step here: ResourceManager shows that one call  *)
(* is one step of the arbiter.                                             *)
(***************************************************************************)
EXTENDS ResourceTable, Integers, Sequences, FiniteSets

CONSTANTS
    TokenEntries, AuthDisabled, Anonymous,
    Configured,     \* the resources of the server
    Command,        \* terminals: each runs one program at a time
    Jobs,           \* the first requests of the programs their users may run
    MaxPrograms,    \* bound: programs run altogether
    MaxDemos,       \* bound: demos among them
    SaveMayFail,    \* may a handler end in an I/O error after its change?
    Unreliable      \* may connections break, and answers take over ten seconds?

INSTANCE Auth

Tools == {"rm_cli.py", "rm-cli"}

Demos == {"demo_client.py", "rm-demo"}

\* The client ids of the demos; both demos have the same one here.
DemoId == "demo-client"

ConflictId == "another-client"

\* The operations without a Depends(require_principal), and the others.
Reads == {"list", "get"}

Changes == {"reserve", "release", "release_all"}

Codes == {200, 400, 401, 403, 404, 409, 500}

Request == [tool : Tools \cup Demos,
            op : Reads \cup Changes,
            ids : SUBSET Resource,
            client : {j.client : j \in Jobs} \cup {DemoId, ConflictId},
            token : {j.token : j \in Jobs}]

ASSUME JobsAssumption ==
    /\ Jobs \subseteq Request
    /\ \A j \in Jobs : j.tool \in Demos => j.op = "list" /\ j.client = DemoId

ASSUME UnreliableAssumption == Unreliable \in BOOLEAN

ASSUME ConfiguredAssumption == Configured \subseteq Resource

ASSUME TokensAssumption ==
    /\ Anonymous \in Principal
    /\ Len(TokenEntries) \in Nat /\ DOMAIN TokenEntries = 1..Len(TokenEntries)
    /\ \A i \in DOMAIN TokenEntries : Usable(TokenEntries[i]) =>
          TokenEntries[i].principal \in Principal

VARIABLES
    table,          \* the server's self._resources
    asked,          \* the requests sent so far, in order; a position is an id
    inbox,          \* requests on their way or in the server
    replies,        \* answers on their way
    cmd,            \* the terminals
    done            \* history: ids of the requests that had their effect, in order

vars == <<table, asked, inbox, replies, cmd, done>>

Role == {TokenEntries[i].role : i \in DOMAIN TokenEntries} \cup {"operator"}

Caller == [name : Principal, role : Role]

\* The caller of a request the thread pool has not looked at yet.
Unresolved == None

\* want: what a demo reserves; own: the ids of the requests of the program.
AtPrompt == [phase |-> "ready", id |-> 0, code |-> 0, exit |-> 0, want |-> {}, own |-> {}]

TypeOK ==
    /\ table \in [Configured -> Entry]
    /\ asked \in Seq(Request)
    /\ inbox \subseteq [id : DOMAIN asked, caller : Caller \cup {Unresolved}]
    /\ replies \subseteq [id : DOMAIN asked, code : Codes, free : SUBSET Configured]
    /\ cmd \in [Command -> [phase : {"ready", "waiting", "exited"}, id : 0..Len(asked),
                            code : Codes \cup {0}, exit : {0, 1},
                            want : SUBSET Configured, own : SUBSET (DOMAIN asked)]]
    /\ done \in Seq(DOMAIN asked)

Init ==
    /\ table = [r \in Configured |-> FreeEntry]
    /\ asked = <<>>
    /\ inbox = {}
    /\ replies = {}
    /\ cmd = [c \in Command |-> AtPrompt]
    /\ done = <<>>

-----------------------------------------------------------------------------
(* The tools and the demos.                                                *)

\* c's program sends a request; want is what it reserves, own its earlier requests.
Send(c, request, want, own) ==
    /\ asked' = Append(asked, request)
    /\ inbox' = inbox \cup {[id |-> Len(asked'), caller |-> Unresolved]}
    /\ cmd' = [cmd EXCEPT ![c] = [@ EXCEPT !.phase = "waiting", !.id = Len(asked'),
                                         !.want = want, !.own = own \cup {Len(asked')}]]
    /\ UNCHANGED <<table, done>>

\* The first requests of the demos, and of all programs.
DemosRun == {i \in DOMAIN asked : asked[i].tool \in Demos /\ asked[i].op = "list"}

ProgramsRun == DemosRun \cup {i \in DOMAIN asked : asked[i].tool \in Tools}

\* c's user, who may have read an exit status, runs a tool or a demo.
Run(c, job) ==
    /\ cmd[c].phase # "waiting"
    /\ Cardinality(ProgramsRun) < MaxPrograms
    /\ job.tool \in Demos => Cardinality(DemosRun) < MaxDemos
    /\ Send(c, job, {}, {})
    /\ UNCHANGED replies

\* Slip: release reports what it asked for, whatever came back.
ExitStatusHopeful(job, code) == IF job.op = "release" \/ code = 200 THEN 0 ELSE 1

\* rm_cli.py exits 1 on anything but a 200; so does rm-cli, except that its
\* releaseAll turns every refusal into a count of zero, which main prints.
ExitStatus(job, code) ==
    IF code = 200 \/ (job.tool = "rm-cli" /\ job.op = "release_all") THEN 0 ELSE 1

Exit(c, code, status) ==
    cmd' = [cmd EXCEPT ![c] = [@ EXCEPT !.phase = "exited", !.code = code, !.exit = status]]

\* The answer c's program waits for arrives.
Arrives(c, a) ==
    /\ cmd[c].phase = "waiting"
    /\ a \in replies /\ a.id = cmd[c].id
    /\ replies' = replies \ {a}

\* The program ends, and sends nothing more.
End(c, code, status) == Exit(c, code, status) /\ UNCHANGED <<table, asked, inbox, done>>

Receive(c, a) ==
    /\ Arrives(c, a)
    /\ asked[a.id].tool \in Tools
    /\ End(c, a.code, ExitStatus(asked[a.id], a.code))

\* The two demos, at the answer to the request with client id client.
AtDemo(c, a, op, client) ==
    /\ Arrives(c, a)
    /\ asked[a.id].tool \in Demos /\ asked[a.id].op = op /\ asked[a.id].client = client

\* The first two of the available resources, or the only one; with none the demo ends.
DemoLists(c, a) ==
    /\ AtDemo(c, a, "list", DemoId)
    /\ \/ a.free = {} /\ End(c, a.code, 0)
       \/ /\ a.free # {}
          /\ \E ids \in kSubset(Min({2, Cardinality(a.free)}), a.free) :
                Send(c, [asked[a.id] EXCEPT !.op = "reserve", !.ids = ids], ids, cmd[c].own)

\* The second reservation of one of them, in another client's name.
DemoReserves(c, a) ==
    /\ AtDemo(c, a, "reserve", DemoId)
    /\ \/ /\ a.code = 200
          /\ \E r \in cmd[c].want :
                Send(c, [asked[a.id] EXCEPT !.ids = {r}, !.client = ConflictId],
                     cmd[c].want, cmd[c].own)
       \/ a.code # 200 /\ End(c, a.code, 1)

\* Whatever the answer, the demo goes on and releases what it reserved.
DemoConflicts(c, a) ==
    /\ AtDemo(c, a, "reserve", ConflictId)
    /\ Send(c, [asked[a.id] EXCEPT !.op = "release", !.ids = cmd[c].want, !.client = DemoId],
            cmd[c].want, cmd[c].own)

\* Whatever the answer, the demo is complete, unless its last two reads fail.
DemoReleases(c, a) ==
    /\ AtDemo(c, a, "release", DemoId)
    /\ \E status \in {0, 1} : End(c, a.code, status)

DemoStep(c, a) == \/ DemoLists(c, a)
                  \/ DemoReserves(c, a)
                  \/ DemoConflicts(c, a)
                  \/ DemoReleases(c, a)

\* Slip: a demo goes on to the release without the answer it was waiting for.
GiveUpGoesOn(c) ==
    /\ Unreliable
    /\ cmd[c].phase = "waiting"
    /\ replies' = {a \in replies : a.id # cmd[c].id}
    /\ IF asked[cmd[c].id].client = ConflictId
       THEN Send(c, [asked[cmd[c].id] EXCEPT !.op = "release", !.ids = cmd[c].want,
                                            !.client = DemoId], cmd[c].want, cmd[c].own)
       ELSE End(c, 0, 1)

\* The ten seconds are over, or the connection broke: an exception, exit 1, and
\* the answer, if there is one, is not read.
GiveUp(c) ==
    /\ Unreliable
    /\ cmd[c].phase = "waiting"
    /\ End(c, 0, 1)
    /\ replies' = {a \in replies : a.id # cmd[c].id}

\* The connection breaks before the server has read the request.
Lose(q) ==
    /\ Unreliable
    /\ q.caller = Unresolved
    /\ inbox' = inbox \ {q}
    /\ UNCHANGED <<table, asked, replies, cmd, done>>

-----------------------------------------------------------------------------
(* The server.                                                             *)

\* An answer goes nowhere if its client has hung up.
Answer(q, code, free) ==
    /\ inbox' = inbox \ {q}
    /\ replies' = replies \cup
           {[id |-> cmd[c].id, code |-> code, free |-> free] :
               c \in {d \in Command : cmd[d].id = q.id /\ cmd[d].phase = "waiting"}}
    /\ UNCHANGED <<asked, cmd>>

Reply(q, code) == Answer(q, code, {})

\* The change has been made; 500 if saving it raised.
Succeed(q) ==
    /\ \E code \in {200} \cup (IF SaveMayFail THEN {500} ELSE {}) : Reply(q, code)
    /\ done' = Append(done, q.id)

Refuse(q, code) == Reply(q, code) /\ UNCHANGED <<table, done>>

\* Slip: the owner is whoever the body names.
AuthenticateClaimed(q) ==
    /\ q.caller = Unresolved /\ asked[q.id].op \in Changes
    /\ LET who == RequirePrincipal(asked[q.id].token) IN
          \/ who = None /\ Refuse(q, 401)
          \/ /\ who # None
             /\ inbox' = (inbox \ {q}) \cup
                    {[q EXCEPT !.caller = [who EXCEPT !.name = asked[q.id].client]]}
             /\ UNCHANGED <<table, asked, replies, cmd, done>>

\* require_principal, in a thread of the pool.
Authenticate(q) ==
    /\ q.caller = Unresolved /\ asked[q.id].op \in Changes
    /\ LET who == RequirePrincipal(asked[q.id].token) IN
          \/ who = None /\ Refuse(q, 401)
          \/ /\ who # None
             /\ inbox' = (inbox \ {q}) \cup {[q EXCEPT !.caller = who]}
             /\ UNCHANGED <<table, asked, replies, cmd, done>>

\* GET /api/resources, with the status filter of the demos, and /api/status.
HandleList(q) ==
    /\ asked[q.id].op = "list"
    /\ Answer(q, 200, {r \in Configured : table[r].status = "available"})
    /\ done' = Append(done, q.id)
    /\ UNCHANGED table

\* GET of one resource.
HandleGet(q) ==
    /\ asked[q.id].op = "get"
    /\ IF asked[q.id].ids \subseteq Configured
       THEN Reply(q, 200) /\ done' = Append(done, q.id) /\ UNCHANGED table
       ELSE Refuse(q, 404)

\* The owner is the caller; the client_id of the body is not looked at.
HandleReserve(q) ==
    LET ids == asked[q.id].ids IN
    /\ q.caller # Unresolved /\ asked[q.id].op = "reserve"
    /\ \/ /\ CanReserve(table, ids)
          /\ table' = Reserved(table, ids, q.caller.name, None)
          /\ Succeed(q)
       \/ ~CanReserve(table, ids) /\ Refuse(q, 409)

\* Slip: what can be released of the list is, and the call is refused for the rest.
HandleReleasePartly(q) ==
    LET ids == asked[q.id].ids
        op == IsOperator(q.caller) IN
    /\ q.caller # Unresolved /\ asked[q.id].op = "release"
    /\ table' = Freed(table, {r \in ids : CanRelease(table, {r}, q.caller.name, op)})
    /\ Reply(q, IF CanRelease(table, ids, q.caller.name, op) THEN 200 ELSE 400)
    /\ done' = IF table' # table THEN Append(done, q.id) ELSE done

HandleRelease(q) ==
    LET ids == asked[q.id].ids
        op == IsOperator(q.caller) IN
    /\ q.caller # Unresolved /\ asked[q.id].op = "release"
    /\ \/ /\ CanRelease(table, ids, q.caller.name, op)
          /\ table' = Freed(table, ids)
          /\ Succeed(q)
       \/ ~CanRelease(table, ids, q.caller.name, op) /\ Refuse(q, 400)

\* Slip: what the caller has goes, whoever the path names.
HandleReleaseAllOwn(q) ==
    LET target == asked[q.id].client
        owned == OwnedBy(table, q.caller.name) IN
    /\ q.caller # Unresolved /\ asked[q.id].op = "release_all"
    /\ \/ /\ IsOperator(q.caller) \/ target = q.caller.name
          /\ table' = Freed(table, owned)
          /\ IF owned = {} THEN Reply(q, 200) /\ done' = Append(done, q.id) ELSE Succeed(q)
       \/ /\ ~IsOperator(q.caller) /\ target # q.caller.name
          /\ Refuse(q, 403)

\* The path names the client whose resources go; nothing owned, nothing saved.
HandleReleaseAll(q) ==
    LET target == asked[q.id].client
        owned == OwnedBy(table, target) IN
    /\ q.caller # Unresolved /\ asked[q.id].op = "release_all"
    /\ \/ /\ IsOperator(q.caller) \/ target = q.caller.name
          /\ table' = Freed(table, owned)
          /\ IF owned = {} THEN Reply(q, 200) /\ done' = Append(done, q.id) ELSE Succeed(q)
       \/ /\ ~IsOperator(q.caller) /\ target # q.caller.name
          /\ Refuse(q, 403)

ServerStep == \E q \in inbox : \/ HandleList(q)
                               \/ HandleGet(q)
                               \/ Authenticate(q)
                               \/ HandleReserve(q)
                               \/ HandleRelease(q)
                               \/ HandleReleaseAll(q)

Next == \/ \E c \in Command : \/ \E job \in Jobs : Run(c, job)
                              \/ \E a \in replies : Receive(c, a) \/ DemoStep(c, a)
                              \/ GiveUp(c)
        \/ \E q \in inbox : Lose(q)
        \/ ServerStep

Spec == Init /\ [][Next]_vars

-----------------------------------------------------------------------------
(* Properties.                                                             *)

Done == {done[i] : i \in DOMAIN done}

Exited(c) == cmd[c].phase = "exited"

\* A tool that exits 0 had its effect, whatever requests of others, or of its
\* own terminal, overtook it.  (rm-cli.1 and rm_cli.py.1, EXIT STATUS)
ZeroMeansDone ==
    \A c \in Command :
        Exited(c) /\ cmd[c].exit = 0 /\ asked[cmd[c].id].tool \in Tools => cmd[c].id \in Done

\* A request the server refused had no effect, not even on part of its list.
\* (mu2e-resource-manager.py:91-95, "All-or-nothing")
RefusedMeansUntouched ==
    \A c \in Command :
        Exited(c) /\ cmd[c].code \in {400, 401, 403, 404, 409} => cmd[c].id \notin Done

\* Ownership changes only through requests whose token entitles to the change: to
\* the token's own principal when the resource was free, and away from an owner
\* by that owner's token or an operator's, however late a request is served.
\* (README: "The owner of a reservation is always the authenticated principal")
MovedByToken ==
    \A r \in Configured : table'[r].owner # table[r].owner =>
        \E q \in inbox \ inbox' :
            LET who == RequirePrincipal(asked[q.id].token) IN
            /\ who # None
            /\ \/ table[r].owner = None /\ table'[r].owner = who.name
               \/ /\ table'[r] = FreeEntry
                  /\ table[r].owner = who.name \/ IsOperator(who)

OwnersMoveByToken == [][MovedByToken]_vars

\* The principals with an operator's token.
Operators ==
    LET callers == {RequirePrincipal(j.token) : j \in Jobs} \ {None}
    IN  {who.name : who \in {c \in callers : IsOperator(c)}}

Holder == [r \in Configured |-> table[r].owner]

Abstract == INSTANCE Arbiter WITH
                Resource <- Configured, Operator <- Operators, holder <- Holder

\* To its clients the server is the arbiter, whatever lies between the sending of a
\* request and its effect.
ImplementsArbiter == Abstract!Spec

\* The positions in done of the reservations of r, the id of the last one, and whose
\* it was.
Bookings(r) == {j \in DOMAIN done : asked[done[j]].op = "reserve" /\ r \in asked[done[j]].ids}

Booking(r) == done[Max(Bookings(r))]

BookedBy(r) == RequirePrincipal(asked[Booking(r)].token).name

\* A later request has given r back: by name, or with all that its owner has.
GivenBack(r) ==
    \E k \in DOMAIN done :
        /\ k > Max(Bookings(r))
        /\ \/ asked[done[k]].op = "release" /\ r \in asked[done[k]].ids
           \/ asked[done[k]].op = "release_all" /\ asked[done[k]].client = BookedBy(r)

\* The table is what the requests that had their effect make of it, one after the
\* other and each of them whole: whoever has a resource sent the last reservation of
\* it that succeeded, and nothing that succeeded since gave it back.  Requests that
\* are refused, late, given up or overtaken leave no other trace.
\* (mu2e-resource-manager.py:84-143, resource_manager.py:117-187)
TableIsHistory ==
    \A r \in Configured :
        table[r].owner = IF Bookings(r) # {} /\ ~GivenBack(r) THEN BookedBy(r) ELSE None

\* release-all of a client id leaves nothing reserved that was reserved with that
\* client id before: the README's C++ example ends its use of a resource with it.
ReleaseAllEndsUse ==
    done # <<>> /\ asked[done[Len(done)]].op = "release_all" =>
        \A r \in Configured : table[r].owner # None =>
            asked[Booking(r)].client # asked[done[Len(done)]].client

\* A demo whose release was answered with success has left nothing behind: no
\* request of its own, the conflicting one included, is what reserves a resource
\* from then on.  (demo_client.py:8, "Release reserved resources")
DemoCleansUp ==
    \A c \in Command :
        /\ Exited(c) /\ cmd[c].code = 200
        /\ asked[cmd[c].id].tool \in Demos /\ asked[cmd[c].id].op = "release"
        => \A r \in Configured : table[r].owner # None => Booking(r) \notin cmd[c].own
=============================================================================
