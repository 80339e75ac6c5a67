-------------------------- MODULE ApiServerProofs --------------------------
(***************************************************************************)
(* Proofs about ApiServer, for any terminals, programs, token file,        *)
(* resources and bounds.                                                   *)
(***************************************************************************)
EXTENDS ApiServer, FiniteSetTheorems, WellFoundedInduction, TLAPS

-----------------------------------------------------------------------------
(* The caller of a request.                                                *)

\* A token that is listed has a last usable entry (auth.py:53-58).
LEMMA LastEntry ==
    ASSUME NEW token, EntriesOf(token) # {}
    PROVE  Max(EntriesOf(token)) \in EntriesOf(token)
PROOF
<1> DEFINE E == EntriesOf(token)
           n == Len(TokenEntries)
           D == {n - i : i \in E}
<1>1. n \in Nat /\ E \subseteq 1..n
  BY TokensAssumption DEF EntriesOf
<1>2. D \subseteq Nat /\ D # {}
  BY <1>1
<1>3. PICK d \in D : \A e \in D : ~(<<e, d>> \in OpToRel(<, Nat))
  BY <1>2, WFMin, NatLessThanWellFounded
<1>4. \A e \in D : ~(e < d)
  BY <1>2, <1>3 DEF OpToRel
<1>5. PICK i \in E : d = n - i
  BY <1>3
<1>6. \A j \in E : i >= j
  <2> TAKE j \in E
  <2>1. n - j \in D
    OBVIOUS
  <2>2. ~(n - j < n - i)
    BY <2>1, <1>4, <1>5
  <2>3. n \in Nat /\ i \in Int /\ j \in Int
    BY <1>1
  <2> HIDE DEF E, n, D
  <2> QED
    BY <2>2, <2>3
<1> QED
  BY <1>6 DEF Max

\* Whoever require_principal finds is a principal of the system (auth.py:117-140).
LEMMA CallerKnown ==
    ASSUME NEW token, RequirePrincipal(token) # None
    PROVE  RequirePrincipal(token) \in Caller
PROOF
<1>1. CASE AuthDisabled
  BY <1>1, TokensAssumption DEF RequirePrincipal, Caller, Role
<1>2. CASE ~AuthDisabled
  <2>1. RequirePrincipal(token) = PrincipalFor(token) /\ PrincipalFor(token) # None
    BY <1>2 DEF RequirePrincipal
  <2>2. EntriesOf(token) # {}
    BY <2>1 DEF PrincipalFor
  <2> DEFINE e == TokenEntries[Max(EntriesOf(token))]
  <2>3. e.principal \in Principal /\ e.role \in Role
    BY <2>2, LastEntry, TokensAssumption DEF EntriesOf, Role
  <2> QED
    BY <2>1, <2>2, <2>3 DEF PrincipalFor, Caller
<1> QED
  BY <1>1, <1>2

-----------------------------------------------------------------------------
(* The inductive invariant.  A request is in one place: on its way, or     *)
(* served.  What an answer or an exit status says of it was true when the  *)
(* answer was sent, and stays true because nothing serves it again.        *)

Refusals == {400, 401, 403, 404, 409}

\* The caller in a request is the one its token stands for.
CallersTrue ==
    \A q \in inbox : q.caller # Unresolved => q.caller = RequirePrincipal(asked[q.id].token)

\* A request in the inbox is there once, and has not had its effect.
InboxUnserved ==
    /\ \A p, q \in inbox : p.id = q.id => p = q
    /\ \A q \in inbox : q.id \notin Done

\* Request id is as an answer with this code says, for good.
Truthful(id, code) ==
    /\ code = 200 => id \in Done
    /\ code \in Refusals => id \notin Done /\ \A q \in inbox : q.id # id

AnswersTrue ==
    \A a \in replies : Truthful(a.id, a.code) /\ \A q \in inbox : q.id # a.id

\* rm-cli release-all, which exits 0 whatever it is answered.
Careless(job) == job.tool = "rm-cli" /\ job.op = "release_all"

ExitTrue(c) ==
    /\ Truthful(cmd[c].id, cmd[c].code)
    /\ cmd[c].exit = 0 =>
          /\ cmd[c].id \in DOMAIN asked
          /\ \/ asked[cmd[c].id].tool \in Demos
             \/ Careless(asked[cmd[c].id])
             \/ cmd[c].code = 200

ExitsTrue == \A c \in Command : cmd[c].phase = "exited" => ExitTrue(c)

IInv == TypeOK /\ CallersTrue /\ InboxUnserved /\ AnswersTrue /\ ExitsTrue

LEMMA InitIInv == Init => IInv
PROOF
<1> SUFFICES ASSUME Init PROVE IInv
  OBVIOUS
<1> USE DEF Init
<1>1. TypeOK
  <2>1. table \in [Configured -> Entry]
    BY DEF FreeEntry, Entry
  <2>2. cmd \in [Command -> [phase : {"ready", "waiting", "exited"}, id : 0..Len(asked),
                            code : Codes \cup {0}, exit : {0, 1},
                            want : SUBSET Configured, own : SUBSET (DOMAIN asked)]]
    BY DEF AtPrompt
  <2> QED
    BY <2>1, <2>2 DEF TypeOK
<1>2. CallersTrue /\ InboxUnserved /\ AnswersTrue /\ ExitsTrue
  BY DEF CallersTrue, InboxUnserved, AnswersTrue, ExitsTrue, AtPrompt
<1> QED
  BY <1>1, <1>2 DEF IInv

\* What a served request adds to the history.
LEMMA DoneGrows ==
    ASSUME TypeOK, NEW id, done' = Append(done, id)
    PROVE  Done' = Done \cup {id}
PROOF
<1>1. done \in Seq(DOMAIN asked)
  BY DEF TypeOK
<1>2. DOMAIN done' = 1..(Len(done) + 1) /\ DOMAIN done = 1..Len(done) /\ Len(done) \in Nat
  BY <1>1
<1>3. /\ done'[Len(done) + 1] = id
      /\ \A i \in 1..Len(done) : done'[i] = done[i]
  BY <1>1
<1> HIDE DEF Done
<1>4. \A x : x \in Done <=> \E i \in 1..Len(done) : x = done[i]
  BY <1>2 DEF Done
<1>5. \A x : x \in Done' <=> \E i \in 1..(Len(done) + 1) : x = done'[i]
  BY <1>2 DEF Done
<1>6. 1..(Len(done) + 1) = (1..Len(done)) \cup {Len(done) + 1}
  BY <1>2
<1> QED
  BY <1>3, <1>4, <1>5, <1>6

-----------------------------------------------------------------------------
(* The shapes of the steps.                                                *)

\* A program sends a request nobody has seen before.
LEMMA SendKeeps ==
    ASSUME IInv, NEW c \in Command, NEW request \in Request, NEW want \in SUBSET Configured,
           NEW own \in SUBSET (DOMAIN asked), Send(c, request, want, own), replies' \subseteq replies
    PROVE  IInv'
PROOF
<1> DEFINE n == Len(asked) + 1
<1>1. /\ asked \in Seq(Request)
      /\ inbox \subseteq [id : DOMAIN asked, caller : Caller \cup {Unresolved}]
      /\ replies \subseteq [id : DOMAIN asked, code : Codes, free : SUBSET Configured]
      /\ cmd \in [Command -> [phase : {"ready", "waiting", "exited"}, id : 0..Len(asked),
                              code : Codes \cup {0}, exit : {0, 1},
                              want : SUBSET Configured, own : SUBSET (DOMAIN asked)]]
      /\ done \in Seq(DOMAIN asked)
  BY DEF IInv, TypeOK
<1>2. /\ asked' \in Seq(Request) /\ Len(asked') = n /\ n \in Nat
      /\ DOMAIN asked = 1..Len(asked) /\ DOMAIN asked' = 1..n /\ n \in DOMAIN asked'
      /\ \A i \in DOMAIN asked : i \in DOMAIN asked' /\ asked'[i] = asked[i] /\ i # n
  BY <1>1 DEF Send
<1>3. inbox' = inbox \cup {[id |-> n, caller |-> Unresolved]} /\ table' = table /\ done' = done
  BY <1>2 DEF Send
<1>4. cmd' = [cmd EXCEPT ![c] = [@ EXCEPT !.phase = "waiting", !.id = n,
                                        !.want = want, !.own = own \cup {n}]]
  BY <1>2 DEF Send
<1>5. Done' = Done /\ Done \subseteq DOMAIN asked
  BY <1>1, <1>3 DEF Done
<1> HIDE DEF n
<1>6. TypeOK'
  <2>1. inbox' \subseteq [id : DOMAIN asked', caller : Caller \cup {Unresolved}]
    BY <1>1, <1>2, <1>3
  <2>2. replies' \subseteq [id : DOMAIN asked', code : Codes, free : SUBSET Configured]
    BY <1>1, <1>2
  <2>3. cmd' \in [Command -> [phase : {"ready", "waiting", "exited"}, id : 0..Len(asked'),
                             code : Codes \cup {0}, exit : {0, 1},
                             want : SUBSET Configured, own : SUBSET (DOMAIN asked')]]
    <3>1. n \in 0..Len(asked') /\ 0..Len(asked) \subseteq 0..Len(asked')
      BY <1>2, <1>1, n = Len(asked) + 1 DEF n
    <3>2. own \cup {n} \in SUBSET (DOMAIN asked')
      BY <1>2
    <3>3. \A d \in Command : cmd[d] \in
             [phase : {"ready", "waiting", "exited"}, id : 0..Len(asked'),
              code : Codes \cup {0}, exit : {0, 1},
              want : SUBSET Configured, own : SUBSET (DOMAIN asked')]
      BY <1>1, <1>2, <3>1
    <3> DEFINE S == [phase : {"ready", "waiting", "exited"}, id : 0..Len(asked'),
                     code : Codes \cup {0}, exit : {0, 1},
                     want : SUBSET Configured, own : SUBSET (DOMAIN asked')]
               new == [cmd[c] EXCEPT !.phase = "waiting", !.id = n,
                                     !.want = want, !.own = own \cup {n}]
    <3>4. cmd[c] \in S
      BY <3>3
    <3>5. new \in S
      BY <3>1, <3>2, <3>4
    <3>6. cmd' = [cmd EXCEPT ![c] = new] /\ DOMAIN cmd = Command
      BY <1>1, <1>4
    <3> HIDE DEF S, new
    <3> QED
      BY <3>3, <3>5, <3>6 DEF S
  <2>4. done' \in Seq(DOMAIN asked')
    <3>1. \A i \in 1..Len(done) : done[i] \in DOMAIN asked'
      BY <1>1, <1>2
    <3> QED
      BY <1>1, <1>3, <3>1
  <2>5. table' \in [Configured -> Entry]
    BY <1>3 DEF IInv, TypeOK
  <2> QED
    BY <1>2, <2>1, <2>2, <2>3, <2>4, <2>5 DEF TypeOK
<1>7. \A q \in inbox : q.id # n
  BY <1>1, <1>2
<1>8. CallersTrue'
  BY <1>1, <1>2, <1>3 DEF IInv, CallersTrue
<1>9. InboxUnserved'
  BY <1>2, <1>3, <1>5, <1>7 DEF IInv, InboxUnserved
<1>10. \A id \in DOMAIN asked : \A code : Truthful(id, code) => Truthful(id, code)'
  BY <1>2, <1>3, <1>5 DEF Truthful
<1>11. AnswersTrue'
  BY <1>1, <1>2, <1>3, <1>10 DEF IInv, AnswersTrue
<1>12. ExitsTrue'
  <2> SUFFICES ASSUME NEW d \in Command, cmd'[d].phase = "exited" PROVE ExitTrue(d)'
    BY DEF ExitsTrue
  <2>1. d # c /\ cmd'[d] = cmd[d]
    BY <1>1, <1>4
  <2>2. ExitTrue(d)
    BY <2>1 DEF IInv, ExitsTrue
  <2>3. Truthful(cmd[d].id, cmd[d].code)'
    <3>1. cmd[d].id # n
      BY <1>1, <1>2 DEF n
    <3> QED
      BY <2>1, <2>2, <3>1, <1>3, <1>5 DEF Truthful, ExitTrue
  <2> QED
    BY <1>2, <2>1, <2>2, <2>3 DEF ExitTrue
<1> QED
  BY <1>6, <1>8, <1>9, <1>11, <1>12 DEF IInv

\* A program ends with an exit status that the answer allows.
LEMMA EndKeeps ==
    ASSUME IInv, NEW c \in Command, NEW code \in Codes \cup {0}, NEW status \in {0, 1},
           End(c, code, status), replies' \subseteq replies,
           Truthful(cmd[c].id, code),
           status = 0 => /\ cmd[c].id \in DOMAIN asked
                         /\ \/ asked[cmd[c].id].tool \in Demos
                            \/ Careless(asked[cmd[c].id])
                            \/ code = 200
    PROVE  IInv'
PROOF
<1> DEFINE S == [phase : {"ready", "waiting", "exited"}, id : 0..Len(asked),
                 code : Codes \cup {0}, exit : {0, 1},
                 want : SUBSET Configured, own : SUBSET (DOMAIN asked)]
           new == [cmd[c] EXCEPT !.phase = "exited", !.code = code, !.exit = status]
<1>1. UNCHANGED <<table, asked, inbox, done>> /\ Done' = Done
  BY DEF End, Done
<1>2. cmd \in [Command -> S]
  BY DEF IInv, TypeOK
<1>3. new \in S /\ new.phase = "exited" /\ new.code = code /\ new.exit = status
                /\ new.id = cmd[c].id
  <2>1. cmd[c] \in S
    BY <1>2
  <2> QED
    BY <2>1
<1>4. cmd' = [cmd EXCEPT ![c] = new]
  BY <1>2 DEF End, Exit
<1>5. /\ cmd' \in [Command -> S] /\ cmd'[c] = new
      /\ \A d \in Command : d # c => cmd'[d] = cmd[d]
  <2> HIDE DEF S, new
  <2> QED
    BY <1>2, <1>3, <1>4
<1>6. TypeOK'
  <2>1. cmd' \in [Command -> S]'
    BY <1>1, <1>5
  <2>2. replies' \subseteq [id : DOMAIN asked', code : Codes, free : SUBSET Configured]
    BY <1>1 DEF IInv, TypeOK
  <2> QED
    BY <1>1, <2>1, <2>2 DEF IInv, TypeOK
<1>7. CallersTrue' /\ InboxUnserved' /\ AnswersTrue'
  BY <1>1 DEF IInv, CallersTrue, InboxUnserved, AnswersTrue, Truthful
<1>8. ExitsTrue'
  <2> SUFFICES ASSUME NEW d \in Command, cmd'[d].phase = "exited" PROVE ExitTrue(d)'
    BY DEF ExitsTrue
  <2>1. CASE d = c
    BY <2>1, <1>1, <1>3, <1>5 DEF ExitTrue, Truthful
  <2>2. CASE d # c
    <3>1. ExitTrue(d)
      BY <2>2, <1>5 DEF IInv, ExitsTrue
    <3> QED
      BY <3>1, <2>2, <1>1, <1>5 DEF ExitTrue, Truthful
  <2> QED
    BY <2>1, <2>2
<1> QED
  BY <1>6, <1>7, <1>8 DEF IInv

\* A request is served: with its effect, or refused.
LEMMA AnswerKeeps ==
    ASSUME IInv, NEW q \in inbox, NEW code \in Codes, NEW free \in SUBSET Configured,
           Answer(q, code, free),
           table' \in [Configured -> Entry],
           \/ done' = Append(done, q.id) /\ code \notin Refusals
           \/ done' = done /\ code \in Refusals
    PROVE  IInv'
PROOF
<1>1. asked' = asked /\ cmd' = cmd /\ inbox' = inbox \ {q}
  BY DEF Answer
<1>2. \A a \in replies' : a \in replies \/ a = [id |-> q.id, code |-> code, free |-> free]
  BY DEF Answer
<1>3. q.id \in DOMAIN asked /\ Done \subseteq DOMAIN asked
  BY DEF IInv, TypeOK, Done
<1>4. \/ Done' = Done \cup {q.id} /\ code \notin Refusals
      \/ Done' = Done /\ code \in Refusals
  <2>1. ASSUME done' = Append(done, q.id) PROVE Done' = Done \cup {q.id}
    BY <2>1, DoneGrows DEF IInv
  <2>2. ASSUME done' = done PROVE Done' = Done
    BY <2>2 DEF Done
  <2> QED
    BY <2>1, <2>2
<1>5. q.id \notin Done /\ \A p \in inbox' : p.id # q.id
  BY <1>1 DEF IInv, InboxUnserved
<1>6. \A a \in replies : a.id # q.id
  BY DEF IInv, AnswersTrue
<1>7. TypeOK'
  <2>1. replies' \subseteq [id : DOMAIN asked', code : Codes, free : SUBSET Configured]
    BY <1>1, <1>2, <1>3 DEF IInv, TypeOK
  <2>2. done' \in Seq(DOMAIN asked')
    <3>1. done \in Seq(DOMAIN asked)
      BY DEF IInv, TypeOK
    <3>2. done' \in Seq(DOMAIN asked)
      BY <3>1, <1>3
    <3> QED
      BY <3>2, <1>1
  <2> QED
    BY <1>1, <2>1, <2>2 DEF IInv, TypeOK
<1>8. CallersTrue'
  BY <1>1 DEF IInv, CallersTrue
<1>9. InboxUnserved'
  BY <1>1, <1>4, <1>5 DEF IInv, InboxUnserved
<1>10. \A id : id # q.id => \A k : Truthful(id, k) => Truthful(id, k)'
  BY <1>1, <1>4 DEF Truthful
<1>11. Truthful(q.id, code)'
  BY <1>4, <1>5 DEF Truthful, Refusals
<1>12. AnswersTrue'
  <2> SUFFICES ASSUME NEW a \in replies'
               PROVE  Truthful(a.id, a.code)' /\ \A p \in inbox' : p.id # a.id
    BY DEF AnswersTrue
  <2>1. CASE a \in replies
    BY <2>1, <1>1, <1>6, <1>10 DEF IInv, AnswersTrue
  <2>2. CASE a = [id |-> q.id, code |-> code, free |-> free]
    BY <2>2, <1>5, <1>11
  <2> QED
    BY <1>2, <2>1, <2>2
<1>13. ExitsTrue'
  <2> SUFFICES ASSUME NEW d \in Command, cmd[d].phase = "exited" PROVE ExitTrue(d)'
    BY <1>1 DEF ExitsTrue
  <2>1. ExitTrue(d)
    BY DEF IInv, ExitsTrue
  <2>2. Truthful(cmd[d].id, cmd[d].code)'
    BY <2>1, <1>1, <1>4 DEF ExitTrue, Truthful, Refusals
  <2> QED
    BY <2>1, <2>2, <1>1 DEF ExitTrue
<1> QED
  BY <1>7, <1>8, <1>9, <1>12, <1>13 DEF IInv

\* require_principal lets a request pass.
LEMMA PassKeeps ==
    ASSUME IInv, NEW q \in inbox, RequirePrincipal(asked[q.id].token) # None,
           inbox' = (inbox \ {q}) \cup
               {[q EXCEPT !.caller = RequirePrincipal(asked[q.id].token)]},
           UNCHANGED <<table, asked, replies, cmd, done>>
    PROVE  IInv'
PROOF
<1> DEFINE who == RequirePrincipal(asked[q.id].token)
           new == [q EXCEPT !.caller = who]
<1>1. q \in [id : DOMAIN asked, caller : Caller \cup {Unresolved}]
  BY DEF IInv, TypeOK
<1>2. who \in Caller
  BY CallerKnown
<1> HIDE DEF who
<1>3. /\ new \in [id : DOMAIN asked, caller : Caller \cup {Unresolved}]
      /\ new.id = q.id /\ new.caller = who
  BY <1>1, <1>2
<1>4. inbox' = (inbox \ {q}) \cup {new}
  BY DEF who
<1> HIDE DEF new
<1>5. Done' = Done
  BY DEF Done
<1>6. TypeOK'
  BY <1>3, <1>4 DEF IInv, TypeOK
<1>7. CallersTrue'
  BY <1>3, <1>4 DEF IInv, CallersTrue, who
<1>8. InboxUnserved'
  BY <1>3, <1>4, <1>5 DEF IInv, InboxUnserved
<1>9. \A id : (\A p \in inbox : p.id # id) => \A p \in inbox' : p.id # id
  BY <1>3, <1>4
<1>10. AnswersTrue' /\ ExitsTrue'
  BY <1>5, <1>9 DEF IInv, AnswersTrue, ExitsTrue, ExitTrue, Truthful
<1> QED
  BY <1>6, <1>7, <1>8, <1>10 DEF IInv

LEMMA LoseKeeps ==
    ASSUME IInv, NEW q \in inbox, Lose(q)
    PROVE  IInv'
PROOF
<1>1. inbox' \subseteq inbox /\ UNCHANGED <<table, asked, replies, cmd, done>> /\ Done' = Done
  BY DEF Lose, Done
<1>2. TypeOK' /\ CallersTrue' /\ InboxUnserved'
  BY <1>1 DEF IInv, TypeOK, CallersTrue, InboxUnserved
<1>3. AnswersTrue' /\ ExitsTrue'
  BY <1>1 DEF IInv, AnswersTrue, ExitsTrue, ExitTrue, Truthful
<1> QED
  BY <1>2, <1>3 DEF IInv

-----------------------------------------------------------------------------
(* The steps.                                                              *)

LEMMA ArrivalTrue ==
    ASSUME IInv, NEW c \in Command, NEW a \in replies, Arrives(c, a)
    PROVE  /\ a.id = cmd[c].id /\ a.id \in DOMAIN asked /\ asked[a.id] \in Request
           /\ a.code \in Codes /\ a.free \subseteq Configured
           /\ cmd[c].want \subseteq Configured /\ cmd[c].own \subseteq DOMAIN asked
           /\ Truthful(cmd[c].id, a.code)
           /\ replies' \subseteq replies
PROOF
<1>1. a.id \in DOMAIN asked /\ a.code \in Codes /\ a.free \subseteq Configured
  BY DEF IInv, TypeOK
<1>2. asked \in Seq(Request)
  BY DEF IInv, TypeOK
<1>3. asked[a.id] \in Request
  BY <1>1, <1>2
<1>4. cmd[c].want \subseteq Configured /\ cmd[c].own \subseteq DOMAIN asked
  BY DEF IInv, TypeOK
<1>5. Truthful(a.id, a.code)
  BY DEF IInv, AnswersTrue
<1> QED
  BY <1>1, <1>3, <1>4, <1>5 DEF Arrives

\* A demo's next request is the last one with other fields.
LEMMA RequestChanged ==
    ASSUME NEW r \in Request, NEW op \in {"reserve", "release"}, NEW ids \in SUBSET Configured,
           NEW client \in {DemoId, ConflictId}
    PROVE  /\ [r EXCEPT !.op = op, !.ids = ids] \in Request
           /\ [r EXCEPT !.ids = ids, !.client = client] \in Request
           /\ [r EXCEPT !.op = op, !.ids = ids, !.client = client] \in Request
PROOF
<1>1. ids \in SUBSET Resource
  BY ConfiguredAssumption
<1> QED
  BY <1>1 DEF Request, Changes

LEMMA ReceiveKeeps ==
    ASSUME IInv, NEW c \in Command, NEW a \in replies, Receive(c, a)
    PROVE  IInv'
PROOF
<1> DEFINE status == ExitStatus(asked[a.id], a.code)
<1>1. Arrives(c, a) /\ End(c, a.code, status)
  BY DEF Receive
<1>2. status \in {0, 1} /\ (status = 0 => a.code = 200 \/ Careless(asked[a.id]))
  BY DEF ExitStatus, Careless
<1> HIDE DEF status
<1> QED
  BY <1>1, <1>2, ArrivalTrue, EndKeeps

LEMMA DemoKeeps ==
    ASSUME IInv, NEW c \in Command, NEW a \in replies, DemoStep(c, a)
    PROVE  IInv'
PROOF
<1>1. Arrives(c, a) /\ asked[a.id].tool \in Demos
  BY DEF DemoStep, DemoLists, DemoReserves, DemoConflicts, DemoReleases, AtDemo
<1>2. ASSUME NEW status \in {0, 1}, End(c, a.code, status) PROVE IInv'
  BY <1>1, <1>2, ArrivalTrue, EndKeeps
<1>3. CASE DemoLists(c, a)
  <2>1. CASE a.free = {} /\ End(c, a.code, 0)
    BY <2>1, <1>2
  <2>2. ASSUME NEW ids \in kSubset(Min({2, Cardinality(a.free)}), a.free),
               Send(c, [asked[a.id] EXCEPT !.op = "reserve", !.ids = ids], ids, cmd[c].own)
        PROVE  IInv'
    <3>1. ids \in SUBSET Configured
      BY <1>1, ArrivalTrue DEF kSubset
    <3>2. [asked[a.id] EXCEPT !.op = "reserve", !.ids = ids] \in Request
      BY <1>1, <3>1, ArrivalTrue, RequestChanged
    <3> QED
      BY <1>1, <2>2, <3>1, <3>2, ArrivalTrue, SendKeeps
  <2> QED
    BY <1>3, <2>1, <2>2 DEF DemoLists
<1>4. CASE DemoReserves(c, a)
  <2>1. CASE End(c, a.code, 1)
    BY <2>1, <1>2
  <2>2. ASSUME NEW r \in cmd[c].want,
               Send(c, [asked[a.id] EXCEPT !.ids = {r}, !.client = ConflictId],
                    cmd[c].want, cmd[c].own)
        PROVE  IInv'
    <3>1. {r} \in SUBSET Configured
      BY <1>1, ArrivalTrue
    <3>2. [asked[a.id] EXCEPT !.ids = {r}, !.client = ConflictId] \in Request
      BY <1>1, <3>1, ArrivalTrue, RequestChanged
    <3> QED
      BY <1>1, <2>2, <3>2, ArrivalTrue, SendKeeps
  <2> QED
    BY <1>4, <2>1, <2>2 DEF DemoReserves
<1>5. CASE DemoConflicts(c, a)
  <2>1. [asked[a.id] EXCEPT !.op = "release", !.ids = cmd[c].want, !.client = DemoId]
           \in Request
    BY <1>1, ArrivalTrue, RequestChanged
  <2> QED
    BY <1>1, <1>5, <2>1, ArrivalTrue, SendKeeps DEF DemoConflicts
<1>6. CASE DemoReleases(c, a)
  BY <1>6, <1>2 DEF DemoReleases
<1> QED
  BY <1>3, <1>4, <1>5, <1>6 DEF DemoStep

LEMMA ReplyKeeps ==
    ASSUME IInv, NEW q \in inbox, NEW code \in Codes,
           Reply(q, code), table' \in [Configured -> Entry],
           \/ done' = Append(done, q.id) /\ code \notin Refusals
           \/ done' = done /\ code \in Refusals
    PROVE  IInv'
BY AnswerKeeps, {} \in SUBSET Configured DEF Reply

LEMMA RefuseKeeps ==
    ASSUME IInv, NEW q \in inbox, NEW code \in Refusals, Refuse(q, code)
    PROVE  IInv'
PROOF
<1>1. code \in Codes /\ table' \in [Configured -> Entry] /\ done' = done /\ Reply(q, code)
  BY DEF IInv, TypeOK, Refuse, Refusals, Codes
<1> QED
  BY <1>1, ReplyKeeps

LEMMA SucceedKeeps ==
    ASSUME IInv, NEW q \in inbox, Succeed(q), table' \in [Configured -> Entry]
    PROVE  IInv'
PROOF
<1>1. PICK code \in {200, 500} : Reply(q, code)
  BY DEF Succeed
<1>2. code \in Codes /\ code \notin Refusals /\ done' = Append(done, q.id)
  BY DEF Succeed, Codes, Refusals
<1> QED
  BY <1>1, <1>2, ReplyKeeps

\* What the handlers make of the table.
LEMMA TableTyped ==
    ASSUME IInv, NEW q \in inbox, q.caller # Unresolved, NEW ids
    PROVE  /\ Reserved(table, ids, q.caller.name, None) \in [Configured -> Entry]
           /\ Freed(table, ids) \in [Configured -> Entry]
PROOF
<1>1. table \in [Configured -> Entry] /\ q.caller.name \in Principal
  BY DEF IInv, TypeOK, Caller
<1>2. FreeEntry \in Entry /\ ReservedEntry(q.caller.name, None) \in Entry
  BY <1>1 DEF FreeEntry, ReservedEntry, Entry
<1> HIDE DEF Entry
<1> QED
  BY <1>1, <1>2 DEF Reserved, Freed

LEMMA ServerKeeps ==
    ASSUME IInv, NEW q \in inbox,
           \/ HandleList(q) \/ HandleGet(q) \/ Authenticate(q)
           \/ HandleReserve(q) \/ HandleRelease(q) \/ HandleReleaseAll(q)
    PROVE  IInv'
PROOF
<1>1. table \in [Configured -> Entry]
  BY DEF IInv, TypeOK
<1>2. 200 \in Codes /\ 200 \notin Refusals /\ {401, 403, 404, 400, 409} \subseteq Refusals
  BY DEF Codes, Refusals
<1>3. CASE HandleList(q)
  BY <1>1, <1>2, <1>3, AnswerKeeps,
     {r \in Configured : table[r].status = "available"} \in SUBSET Configured DEF HandleList
<1>4. CASE HandleGet(q)
  <2>1. CASE Reply(q, 200) /\ done' = Append(done, q.id) /\ UNCHANGED table
    BY <1>1, <1>2, <2>1, ReplyKeeps
  <2>2. CASE Refuse(q, 404)
    BY <1>2, <2>2, RefuseKeeps
  <2> QED
    BY <1>4, <2>1, <2>2 DEF HandleGet
<1>5. CASE Authenticate(q)
  <2>1. CASE Refuse(q, 401)
    BY <1>2, <2>1, RefuseKeeps
  <2> QED
    BY <1>5, <2>1, PassKeeps DEF Authenticate
<1>6. CASE HandleReserve(q)
  <2>1. CASE Refuse(q, 409)
    BY <1>2, <2>1, RefuseKeeps
  <2> QED
    BY <1>6, <2>1, TableTyped, SucceedKeeps DEF HandleReserve
<1>7. CASE HandleRelease(q)
  <2>1. CASE Refuse(q, 400)
    BY <1>2, <2>1, RefuseKeeps
  <2> QED
    BY <1>7, <2>1, TableTyped, SucceedKeeps DEF HandleRelease
<1>8. CASE HandleReleaseAll(q)
  <2>1. CASE Refuse(q, 403)
    BY <1>2, <2>1, RefuseKeeps
  <2>2. ASSUME ~Refuse(q, 403) PROVE table' \in [Configured -> Entry]
    BY <1>8, <2>2, TableTyped DEF HandleReleaseAll
  <2>3. CASE Succeed(q)
    BY <2>1, <2>2, <2>3, SucceedKeeps
  <2>4. CASE Reply(q, 200) /\ done' = Append(done, q.id)
    BY <1>2, <2>1, <2>2, <2>4, ReplyKeeps
  <2> QED
    BY <1>8, <2>1, <2>3, <2>4 DEF HandleReleaseAll
<1> QED
  BY <1>3, <1>4, <1>5, <1>6, <1>7, <1>8

LEMMA NextIInv == IInv /\ [Next]_vars => IInv'
PROOF
<1> SUFFICES ASSUME IInv, [Next]_vars PROVE IInv'
  OBVIOUS
<1>1. ASSUME NEW c \in Command, NEW job \in Jobs, Run(c, job) PROVE IInv'
  <2>1. job \in Request /\ {} \in SUBSET Configured /\ {} \in SUBSET (DOMAIN asked)
    BY JobsAssumption
  <2>2. Send(c, job, {}, {}) /\ replies' \subseteq replies
    BY <1>1 DEF Run
  <2> QED
    BY <2>1, <2>2, SendKeeps
<1>2. ASSUME NEW c \in Command, GiveUp(c) PROVE IInv'
  <2>1. 0 \in Codes \cup {0} /\ 1 \in {0, 1} /\ Truthful(cmd[c].id, 0) /\ replies' \subseteq replies
    BY <1>2 DEF GiveUp, Truthful, Refusals
  <2> QED
    BY <1>2, <2>1, EndKeeps DEF GiveUp
<1>3. CASE UNCHANGED vars
  <2>1. Done' = Done
    BY <1>3 DEF vars, Done
  <2> QED
    BY <1>3, <2>1 DEF IInv, TypeOK, CallersTrue, InboxUnserved, AnswersTrue, ExitsTrue,
                      ExitTrue, Truthful, vars
<1> QED
  BY <1>1, <1>2, <1>3, ReceiveKeeps, DemoKeeps, LoseKeeps, ServerKeeps DEF Next, ServerStep

LEMMA InvariantHolds == Spec => []IInv
BY InitIInv, NextIInv, PTL DEF Spec

-----------------------------------------------------------------------------
(* The theorems.                                                           *)

\* Every variable keeps its type.
THEOREM TypeCorrect == Spec => []TypeOK
PROOF
<1>1. IInv => TypeOK
  BY DEF IInv
<1> QED
  BY <1>1, InvariantHolds, PTL

\* A refused request had no effect when the program hears of it, and never will.
THEOREM RefusedNeverDone == Spec => []RefusedMeansUntouched
PROOF
<1>1. IInv => RefusedMeansUntouched
  BY DEF IInv, ExitsTrue, ExitTrue, Truthful, Exited, Refusals, RefusedMeansUntouched
<1> QED
  BY <1>1, InvariantHolds, PTL

\* A request of a tool is one of the commands users may run.
ToolsAskJobs == \A i \in DOMAIN asked : asked[i].tool \in Tools => asked[i] \in Jobs

LEMMA ToolsAskJobsHolds == Spec => []ToolsAskJobs
PROOF
<1>1. Init => ToolsAskJobs
  BY DEF Init, ToolsAskJobs
<1>2. IInv /\ ToolsAskJobs /\ [Next]_vars => ToolsAskJobs'
  <2> SUFFICES ASSUME IInv, ToolsAskJobs, [Next]_vars PROVE ToolsAskJobs'
    OBVIOUS
  <2>1. asked \in Seq(Request)
    BY DEF IInv, TypeOK
  <2>2. ASSUME NEW request \in Request, asked' = Append(asked, request),
               request.tool \in Tools => request \in Jobs
        PROVE  ToolsAskJobs'
    BY <2>1, <2>2 DEF ToolsAskJobs
  <2>3. CASE asked' = asked
    BY <2>3 DEF ToolsAskJobs
  <2>4. ASSUME NEW c \in Command, NEW job \in Jobs, Run(c, job) PROVE ToolsAskJobs'
    BY <2>4, <2>2, JobsAssumption DEF Run, Send
  <2>5. ASSUME NEW c \in Command, NEW a \in replies, DemoStep(c, a) PROVE ToolsAskJobs'
    <3>1. Arrives(c, a) /\ asked[a.id].tool \in Demos
      BY <2>5 DEF DemoStep, DemoLists, DemoReserves, DemoConflicts, DemoReleases, AtDemo
    <3>2. ASSUME NEW op, NEW ids, NEW client, NEW request \in Request,
                 \/ request = [asked[a.id] EXCEPT !.op = op, !.ids = ids]
                 \/ request = [asked[a.id] EXCEPT !.ids = ids, !.client = client]
                 \/ request = [asked[a.id] EXCEPT !.op = op, !.ids = ids, !.client = client]
          PROVE  request.tool \notin Tools
      <4>1. asked[a.id] \in Request
        BY <3>1, ArrivalTrue
      <4>2. request.tool = asked[a.id].tool
        BY <3>2, <4>1 DEF Request
      <4> QED
        BY <3>1, <4>2 DEF Tools, Demos
    <3>3. CASE DemoLists(c, a)
      <4>1. ASSUME NEW ids \in kSubset(Min({2, Cardinality(a.free)}), a.free),
                   Send(c, [asked[a.id] EXCEPT !.op = "reserve", !.ids = ids], ids, cmd[c].own)
            PROVE  ToolsAskJobs'
        <5>1. ids \in SUBSET Configured
          BY <3>1, ArrivalTrue DEF kSubset
        <5>2. [asked[a.id] EXCEPT !.op = "reserve", !.ids = ids] \in Request
          BY <3>1, <5>1, ArrivalTrue, RequestChanged
        <5> QED
          BY <4>1, <5>2, <3>2, <2>2 DEF Send
      <4> QED
        BY <3>3, <4>1, <2>3 DEF DemoLists, End
    <3>4. CASE DemoReserves(c, a)
      <4>1. ASSUME NEW r \in cmd[c].want,
                   Send(c, [asked[a.id] EXCEPT !.ids = {r}, !.client = ConflictId],
                        cmd[c].want, cmd[c].own)
            PROVE  ToolsAskJobs'
        <5>1. {r} \in SUBSET Configured
          BY <3>1, ArrivalTrue
        <5>2. [asked[a.id] EXCEPT !.ids = {r}, !.client = ConflictId] \in Request
          BY <3>1, <5>1, ArrivalTrue, RequestChanged
        <5> QED
          BY <4>1, <5>2, <3>2, <2>2 DEF Send
      <4> QED
        BY <3>4, <4>1, <2>3 DEF DemoReserves, End
    <3>5. CASE DemoConflicts(c, a)
      <4>1. [asked[a.id] EXCEPT !.op = "release", !.ids = cmd[c].want, !.client = DemoId]
               \in Request
        BY <3>1, ArrivalTrue, RequestChanged
      <4> QED
        BY <3>5, <4>1, <3>2, <2>2 DEF DemoConflicts, Send
    <3>6. CASE DemoReleases(c, a)
      BY <3>6, <2>3 DEF DemoReleases, End
    <3> QED
      BY <2>5, <3>3, <3>4, <3>5, <3>6 DEF DemoStep
  <2>6. ASSUME NEW c \in Command, \/ GiveUp(c) \/ \E a \in replies : Receive(c, a)
        PROVE  ToolsAskJobs'
    BY <2>6, <2>3 DEF GiveUp, Receive, End
  <2>7. ASSUME NEW q \in inbox, Lose(q) PROVE ToolsAskJobs'
    BY <2>7, <2>3 DEF Lose
  <2>8. CASE ServerStep
    BY <2>8, <2>3 DEF ServerStep, HandleList, HandleGet, Authenticate, HandleReserve,
       HandleRelease, HandleReleaseAll, Succeed, Refuse, Reply, Answer
  <2>9. CASE UNCHANGED vars
    BY <2>9, <2>3 DEF vars
  <2> QED
    BY <2>4, <2>5, <2>6, <2>7, <2>8, <2>9 DEF Next
<1> QED
  BY <1>1, <1>2, InvariantHolds, PTL DEF Spec

\* Of all commands of the tools, the C++ tool's release-all alone may exit 0 without
\* having had its effect (ResourceManagerClient.cpp:294-305).
ZeroButCareless ==
    \A c \in Command :
        Exited(c) /\ cmd[c].exit = 0 /\ asked[cmd[c].id].tool \in Tools =>
            cmd[c].id \in Done \/ Careless(asked[cmd[c].id])

THEOREM OnlyReleaseAllMisleads == Spec => []ZeroButCareless
PROOF
<1>1. IInv => ZeroButCareless
  <2> SUFFICES ASSUME IInv, NEW c \in Command, Exited(c), cmd[c].exit = 0,
                      asked[cmd[c].id].tool \in Tools
               PROVE  cmd[c].id \in Done \/ Careless(asked[cmd[c].id])
    BY DEF ZeroButCareless
  <2>1. ExitTrue(c)
    BY DEF IInv, ExitsTrue, Exited
  <2>2. asked[cmd[c].id].tool \notin Demos
    BY DEF Tools, Demos
  <2> QED
    BY <2>1, <2>2 DEF ExitTrue, Truthful
<1> QED
  BY <1>1, InvariantHolds, PTL

\* Unless that is among the commands, an exit status of 0 says that the command had
\* its effect.
THEOREM ZeroIsHonest ==
    ASSUME \A j \in Jobs : ~Careless(j)
    PROVE  Spec => []ZeroMeansDone
PROOF
<1>1. IInv /\ ToolsAskJobs /\ ZeroButCareless => ZeroMeansDone
  <2> SUFFICES ASSUME IInv, ToolsAskJobs, ZeroButCareless,
                      NEW c \in Command, Exited(c), cmd[c].exit = 0,
                      asked[cmd[c].id].tool \in Tools
               PROVE  cmd[c].id \in Done
    BY DEF ZeroMeansDone
  <2>1. cmd[c].id \in DOMAIN asked
    BY DEF IInv, ExitsTrue, ExitTrue, Exited
  <2>2. ~Careless(asked[cmd[c].id])
    BY <2>1 DEF ToolsAskJobs
  <2> QED
    BY <2>2 DEF ZeroButCareless
<1> QED
  BY <1>1, InvariantHolds, ToolsAskJobsHolds, OnlyReleaseAllMisleads, PTL

\* What a step may do to the table: one of three changes, by a resolved caller.
Change(q) ==
    \/ /\ CanReserve(table, asked[q.id].ids)
       /\ table' = Reserved(table, asked[q.id].ids, q.caller.name, None)
    \/ /\ CanRelease(table, asked[q.id].ids, q.caller.name, IsOperator(q.caller))
       /\ table' = Freed(table, asked[q.id].ids)
    \/ /\ IsOperator(q.caller) \/ asked[q.id].client = q.caller.name
       /\ table' = Freed(table, OwnedBy(table, asked[q.id].client))

LEMMA TableSteps ==
    ASSUME [Next]_vars, table' # table
    PROVE  \E q \in inbox : /\ q.caller # Unresolved /\ Change(q)
                           /\ q \in inbox \ inbox'
PROOF
<1>1. PICK q \in inbox : HandleReserve(q) \/ HandleRelease(q) \/ HandleReleaseAll(q)
  <2>1. \A c \in Command : /\ \A job \in Jobs : ~Run(c, job)
                           /\ \A a \in replies : ~Receive(c, a) /\ ~DemoStep(c, a)
                           /\ ~GiveUp(c)
    BY DEF Run, Send, Receive, End, GiveUp, DemoStep, DemoLists, DemoReserves, DemoConflicts,
           DemoReleases
  <2>2. \A q \in inbox : ~Lose(q) /\ ~HandleList(q) /\ ~HandleGet(q) /\ ~Authenticate(q)
    BY DEF Lose, HandleList, HandleGet, Authenticate, Refuse
  <2> QED
    BY <2>1, <2>2 DEF Next, ServerStep, vars
<1>2. q.caller # Unresolved
  BY <1>1 DEF HandleReserve, HandleRelease, HandleReleaseAll
<1>3. q \in inbox \ inbox'
  BY <1>1 DEF HandleReserve, HandleRelease, HandleReleaseAll, Succeed, Refuse, Reply, Answer
<1>4. HandleReserve(q) => Change(q)
  BY DEF HandleReserve, Refuse, Change
<1>5. HandleRelease(q) => Change(q)
  BY DEF HandleRelease, Refuse, Change
<1>6. HandleReleaseAll(q) => Change(q)
  BY DEF HandleReleaseAll, Refuse, Change
<1> QED
  BY <1>1, <1>2, <1>3, <1>4, <1>5, <1>6

\* No entry has an owner and is available.
LEMMA ConsistentHolds == Spec => []Consistent(table)
PROOF
<1>1. Init => Consistent(table)
  BY DEF Init, Consistent
<1>2. IInv /\ Consistent(table) /\ [Next]_vars => Consistent(table)'
  <2> SUFFICES ASSUME IInv, Consistent(table), [Next]_vars PROVE Consistent(table)'
    OBVIOUS
  <2>1. CASE table' = table
    BY <2>1 DEF Consistent
  <2>2. ASSUME NEW q \in inbox, q.caller # Unresolved, Change(q) PROVE Consistent(table)'
    <3>1. q.caller.name \in Principal
      BY <2>2 DEF IInv, TypeOK, Caller
    <3> QED
      BY <2>2, <3>1 DEF Change, Consistent, Reserved, Freed, ReservedEntry
  <2> QED
    BY <2>1, <2>2, TableSteps
<1> QED
  BY <1>1, <1>2, InvariantHolds, PTL DEF Spec

\* An owner changes only through a request whose token entitles to the change.
THEOREM TokensMoveOwners == Spec => OwnersMoveByToken
PROOF
<1>1. IInv /\ Consistent(table) /\ [Next]_vars => [MovedByToken]_vars
  <2> SUFFICES ASSUME IInv, Consistent(table), Next,
                      NEW r \in Configured, table'[r].owner # table[r].owner
               PROVE  \E q \in inbox \ inbox' :
                        LET who == RequirePrincipal(asked[q.id].token) IN
                        /\ who # None
                        /\ \/ table[r].owner = None /\ table'[r].owner = who.name
                           \/ /\ table'[r] = FreeEntry
                              /\ table[r].owner = who.name \/ IsOperator(who)
    BY DEF MovedByToken
  <2>1. PICK q \in inbox : q.caller # Unresolved /\ Change(q) /\ q \in inbox \ inbox'
    BY TableSteps
  <2>2. q.caller = RequirePrincipal(asked[q.id].token) /\ q.caller # None
    BY <2>1 DEF IInv, CallersTrue, Unresolved
  <2>3. r \in DOMAIN table
    BY DEF IInv, TypeOK
  <2>4. \/ table[r].owner = None /\ table'[r].owner = q.caller.name
        \/ table'[r] = FreeEntry /\ (table[r].owner = q.caller.name \/ IsOperator(q.caller))
    <3>1. CASE /\ CanReserve(table, asked[q.id].ids)
               /\ table' = Reserved(table, asked[q.id].ids, q.caller.name, None)
      BY <2>3, <3>1 DEF CanReserve, Reserved, ReservedEntry, Consistent, FreeEntry
    <3>2. CASE /\ CanRelease(table, asked[q.id].ids, q.caller.name, IsOperator(q.caller))
               /\ table' = Freed(table, asked[q.id].ids)
      BY <2>3, <3>2 DEF CanRelease, Freed
    <3>3. CASE /\ IsOperator(q.caller) \/ asked[q.id].client = q.caller.name
               /\ table' = Freed(table, OwnedBy(table, asked[q.id].client))
      BY <2>3, <3>3 DEF OwnedBy, Freed
    <3> QED
      BY <2>1, <3>1, <3>2, <3>3 DEF Change
  <2> QED
    BY <2>1, <2>2, <2>4
<1> QED
  BY <1>1, InvariantHolds, ConsistentHolds, PTL DEF Spec, OwnersMoveByToken

-----------------------------------------------------------------------------
(* The server as an arbiter.                                               *)

\* Who is let in as an operator has an operator's token.
LEMMA OperatorsKnown ==
    ASSUME IInv, NEW q \in inbox, q.caller # Unresolved, IsOperator(q.caller)
    PROVE  q.caller.name \in Operators
PROOF
<1>1. q.caller = RequirePrincipal(asked[q.id].token) /\ q.caller # None
  BY DEF IInv, CallersTrue, Unresolved
<1>2. asked[q.id] \in Request
  BY DEF IInv, TypeOK
<1>3. PICK j \in Jobs : asked[q.id].token = j.token
  BY <1>2 DEF Request
<1> QED
  BY <1>1, <1>3 DEF Operators

LEMMA ChangeIsAbstract ==
    ASSUME IInv, Consistent(table), NEW q \in inbox, q.caller # Unresolved, Change(q)
    PROVE  [Abstract!Next]_Holder
PROOF
<1> DEFINE ids == asked[q.id].ids
           p == q.caller.name
           t == asked[q.id].client
<1>1. table \in [Configured -> Entry] /\ DOMAIN table = Configured /\ p \in Principal
  BY DEF IInv, TypeOK, Caller
<1>2. IsOperator(q.caller) => p \in Operators
  BY OperatorsKnown
<1>3. ASSUME ids = {} PROVE Reserved(table, ids, p, None) = table /\ Freed(table, ids) = table
  BY <1>1, <1>3 DEF Reserved, Freed
<1>4. CASE CanReserve(table, ids) /\ table' = Reserved(table, ids, p, None)
  <2>1. CASE ids = {}
    BY <1>3, <1>4, <2>1 DEF Holder
  <2>2. CASE ids # {}
    <3>1. ids \in SUBSET Configured /\ \A r \in ids : Holder[r] = None
      BY <1>1, <1>4 DEF CanReserve, Consistent, FreeEntry, Holder
    <3>2. Holder' = [r \in Configured |-> IF r \in ids THEN p ELSE Holder[r]]
      BY <1>1, <1>4 DEF Holder, Reserved, ReservedEntry
    <3>3. Abstract!Grant(p, ids)
      BY <3>1, <3>2 DEF Abstract!Grant
    <3> HIDE DEF ids, p
    <3> QED
      BY <1>1, <2>2, <3>1, <3>3 DEF Abstract!Next
  <2> QED
    BY <2>1, <2>2
<1>5. CASE CanRelease(table, ids, p, IsOperator(q.caller)) /\ table' = Freed(table, ids)
  <2>1. CASE ids = {}
    BY <1>3, <1>5, <2>1 DEF Holder
  <2>2. CASE ids # {}
    <3>1. ids \in SUBSET Configured
      BY <1>1, <1>5 DEF CanRelease
    <3>2. \A r \in ids : Holder[r] # None /\ (Holder[r] = p \/ p \in Operators)
      BY <1>1, <1>2, <1>5, NoneAssumption DEF CanRelease, Consistent, FreeEntry, Holder
    <3>3. Holder' = [r \in Configured |-> IF r \in ids THEN None ELSE Holder[r]]
      BY <1>1, <1>5 DEF Holder, Freed, FreeEntry
    <3>4. Abstract!Release(p, ids)
      BY <3>2, <3>3 DEF Abstract!Release
    <3> HIDE DEF ids, p
    <3> QED
      BY <1>1, <2>2, <3>1, <3>4 DEF Abstract!Next
  <2> QED
    BY <2>1, <2>2
<1>6. CASE (IsOperator(q.caller) \/ t = p) /\ table' = Freed(table, OwnedBy(table, t))
  <2>1. Holder' = [r \in Configured |-> IF Holder[r] = t THEN None ELSE Holder[r]]
    BY <1>1, <1>6 DEF Holder, Freed, OwnedBy, FreeEntry
  <2>2. CASE t \in Principal
    <3>1. Abstract!ReleaseAll(p, t)
      BY <1>2, <1>6, <2>1 DEF Abstract!ReleaseAll
    <3> QED
      BY <1>1, <2>2, <3>1 DEF Abstract!Next
  <2>3. CASE t \notin Principal
    <3>1. \A r \in Configured : Holder[r] = t => Holder[r] = None
      BY <1>1, <2>3 DEF Holder, Entry
    <3>2. Holder = [r \in Configured |-> Holder[r]]
      BY DEF Holder
    <3> QED
      BY <2>1, <3>1, <3>2
  <2> QED
    BY <2>2, <2>3
<1> QED
  BY <1>4, <1>5, <1>6 DEF Change

\* To its clients the server is the arbiter: whatever requests are lost, late, given
\* up or overtaken, and whatever their bodies say, each moves owners as one grant or
\* release by the principal of its token, or not at all.
THEOREM ArbiterRefinement == Spec => ImplementsArbiter
PROOF
<1>1. Init => Abstract!Init
  BY DEF Init, Abstract!Init, Holder, FreeEntry
<1>2. IInv /\ Consistent(table) /\ [Next]_vars => [Abstract!Next]_Holder
  <2>1. table' = table => Holder' = Holder
    BY DEF Holder
  <2> QED
    BY <2>1, TableSteps, ChangeIsAbstract
<1> QED
  BY <1>1, <1>2, InvariantHolds, ConsistentHolds, PTL DEF Spec, ImplementsArbiter, Abstract!Spec
=============================================================================
