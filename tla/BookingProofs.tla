--------------------------- MODULE BookingProofs ---------------------------
(***************************************************************************)
(* The table is what the requests that had their effect make of it         *)
(* (TableIsHistory); a demo that was told its release succeeded has left   *)
(* nothing behind (DemoCleansUp); a release-all ends the use of a resource *)
(* if reservations carry the name of their principal (ReleaseAllEndsUse).  *)
(* For any terminals, programs, token file, resources and bounds of        *)
(* ApiServer.                                                              *)
(***************************************************************************)
EXTENDS ApiServerProofs

-----------------------------------------------------------------------------
(* Who booked a resource last.                                             *)

LEMMA LastBooking ==
    ASSUME TypeOK, NEW r, Bookings(r) # {}
    PROVE  Max(Bookings(r)) \in Bookings(r)
PROOF
<1> DEFINE B == Bookings(r)
           n == Len(done)
           D == {n - i : i \in B}
<1>1. n \in Nat /\ B \subseteq 1..n
  BY DEF TypeOK, Bookings
<1>2. D \subseteq Nat /\ D # {}
  BY <1>1
<1>3. PICK d \in D : \A e \in D : ~(<<e, d>> \in OpToRel(<, Nat))
  BY <1>2, WFMin, NatLessThanWellFounded
<1>4. \A e \in D : ~(e < d)
  BY <1>2, <1>3 DEF OpToRel
<1>5. PICK i \in B : d = n - i
  BY <1>3
<1>6. \A j \in B : i >= j
  <2> TAKE j \in B
  <2>1. n - j \in D
    OBVIOUS
  <2>2. ~(n - j < n - i)
    BY <2>1, <1>4, <1>5
  <2>3. n \in Nat /\ i \in Int /\ j \in Int
    BY <1>1
  <2> HIDE DEF B, n, D
  <2> QED
    BY <2>2, <2>3
<1> QED
  BY <1>6 DEF Max

\* A served request that is no reservation of r leaves its bookings; a reservation
\* of r is its last booking.
LEMMA NextBooking ==
    ASSUME TypeOK, NEW id \in DOMAIN asked, done' = Append(done, id), asked' = asked, NEW r
    PROVE  /\ asked[id].op = "reserve" /\ r \in asked[id].ids =>
                 /\ Bookings(r)' # {} /\ Booking(r)' = id
                 /\ Max(Bookings(r)') = Len(done) + 1
           /\ ~(asked[id].op = "reserve" /\ r \in asked[id].ids) =>
                 Bookings(r)' = Bookings(r) /\ (Bookings(r) # {} => Booking(r)' = Booking(r))
PROOF
<1> DEFINE n == Len(done)
<1>1. /\ n \in Nat /\ DOMAIN done = 1..n /\ DOMAIN done' = 1..(n + 1)
      /\ done'[n + 1] = id /\ \A i \in 1..n : done'[i] = done[i]
  BY DEF TypeOK
<1>2. 1..(n + 1) = (1..n) \cup {n + 1}
  BY <1>1
<1>3. Booking(r)' = done'[Max(Bookings(r)')]
  BY DEF Booking, Bookings
<1> HIDE DEF n
<1>4. ASSUME asked[id].op = "reserve", r \in asked[id].ids
      PROVE  Bookings(r)' # {} /\ Booking(r)' = id /\ Max(Bookings(r)') = n + 1
  <2> DEFINE B == Bookings(r)'
  <2>1. n + 1 \in B /\ B \subseteq 1..(n + 1)
    BY <1>1, <1>2, <1>4 DEF Bookings
  <2>2. Max(B) = n + 1
    <3>1. \A y \in B : n + 1 >= y
      BY <2>1, <1>1
    <3>2. \A x \in B : (\A y \in B : x >= y) => x = n + 1
      <4> SUFFICES ASSUME NEW x \in B, x >= n + 1 PROVE x = n + 1
        BY <2>1
      <4>1. x \in Int /\ n + 1 >= x
        BY <2>1, <3>1, <1>1
      <4> QED
        BY <4>1, <1>1
    <3> HIDE DEF B
    <3> QED
      BY <2>1, <3>1, <3>2 DEF Max
  <2> HIDE DEF B
  <2>3. Booking(r)' = done'[Max(B)]
    BY <1>3 DEF B
  <2> QED
    BY <2>1, <2>2, <2>3, <1>1 DEF B
<1>5. ASSUME ~(asked[id].op = "reserve" /\ r \in asked[id].ids)
      PROVE  Bookings(r)' = Bookings(r) /\ (Bookings(r) # {} => Booking(r)' = Booking(r))
  <2>1. Bookings(r)' = Bookings(r)
    BY <1>1, <1>2, <1>5 DEF Bookings
  <2>2. ASSUME Bookings(r) # {} PROVE Booking(r)' = Booking(r)
    <3>1. Max(Bookings(r)) \in 1..n
      BY <1>1, <2>2, LastBooking DEF Bookings
    <3> QED
      BY <1>1, <1>3, <2>1, <3>1 DEF Booking
  <2> QED
    BY <2>1, <2>2
<1> QED
  BY <1>4, <1>5 DEF n

\* A request that frees r of its owner once it has its effect.
Frees(id, r) ==
    \/ asked[id].op = "release" /\ r \in asked[id].ids
    \/ asked[id].op = "release_all" /\ asked[id].client = BookedBy(r)

\* The last booking stands until a request served after it gives r back.
LEMMA NextGivenBack ==
    ASSUME TypeOK, NEW id \in DOMAIN asked, done' = Append(done, id), asked' = asked, NEW r
    PROVE  /\ asked[id].op = "reserve" /\ r \in asked[id].ids =>
                 /\ Bookings(r)' # {} /\ ~GivenBack(r)'
                 /\ BookedBy(r)' = RequirePrincipal(asked[id].token).name
           /\ ~(asked[id].op = "reserve" /\ r \in asked[id].ids) =>
                 /\ Bookings(r)' = Bookings(r)
                 /\ Bookings(r) # {} => /\ BookedBy(r)' = BookedBy(r)
                                        /\ GivenBack(r)' <=> GivenBack(r) \/ Frees(id, r)
PROOF
<1> DEFINE n == Len(done)
           m == Max(Bookings(r))
<1>1. /\ n \in Nat /\ DOMAIN done = 1..n /\ DOMAIN done' = 1..(n + 1)
      /\ done'[n + 1] = id /\ \A i \in 1..n : done'[i] = done[i]
  BY DEF TypeOK
<1>2. BookedBy(r)' = RequirePrincipal(asked[Booking(r)'].token).name
  BY DEF BookedBy, Booking, Bookings
<1>3. GivenBack(r)' <=>
         \E k \in 1..(n + 1) :
            /\ k > Max(Bookings(r)')
            /\ \/ asked[done'[k]].op = "release" /\ r \in asked[done'[k]].ids
               \/ asked[done'[k]].op = "release_all" /\ asked[done'[k]].client = BookedBy(r)'
  BY <1>1 DEF GivenBack, Bookings, BookedBy, Booking
<1> HIDE DEF n, m
<1>4. CASE asked[id].op = "reserve" /\ r \in asked[id].ids
  <2>1. Bookings(r)' # {} /\ Booking(r)' = id /\ Max(Bookings(r)') = n + 1
    BY <1>4, NextBooking DEF n
  <2> QED
    BY <1>1, <1>2, <1>3, <1>4, <2>1
<1>5. CASE ~(asked[id].op = "reserve" /\ r \in asked[id].ids)
  <2>1. Bookings(r)' = Bookings(r)
    BY <1>5, NextBooking
  <2> SUFFICES ASSUME Bookings(r) # {}
               PROVE  BookedBy(r)' = BookedBy(r) /\ (GivenBack(r)' <=> GivenBack(r) \/ Frees(id, r))
    BY <1>5, <2>1
  <2>2. BookedBy(r)' = BookedBy(r)
    BY <1>2, <1>5, NextBooking DEF BookedBy
  <2>3. m \in 1..n /\ Max(Bookings(r)') = m
    BY <1>1, <2>1, LastBooking DEF Bookings, m
  <2>4. GivenBack(r) <=> \E k \in 1..n : k > m /\ Frees(done[k], r)
    BY <1>1 DEF GivenBack, Frees, m
  <2>5. GivenBack(r)' <=> \E k \in 1..(n + 1) : k > m /\ Frees(done'[k], r)
    BY <1>3, <2>2, <2>3 DEF Frees
  <2>6. n + 1 > m /\ \A k \in 1..(n + 1) : k = n + 1 \/ k \in 1..n
    BY <1>1, <2>3
  <2> HIDE DEF Frees
  <2>7. (\E k \in 1..(n + 1) : k > m /\ Frees(done'[k], r)) <=>
            (\E k \in 1..n : k > m /\ Frees(done[k], r)) \/ Frees(id, r)
    BY <1>1, <2>6
  <2> QED
    BY <2>2, <2>4, <2>5, <2>7
<1> QED
  BY <1>4, <1>5

\* Sending a request leaves the history of those served as it is.
LEMMA SentHistory ==
    ASSUME TypeOK, NEW request, asked' = Append(asked, request), done' = done, NEW r
    PROVE  /\ Bookings(r)' = Bookings(r) /\ Booking(r)' = Booking(r)
           /\ Bookings(r) # {} => /\ BookedBy(r)' = BookedBy(r)
                                  /\ GivenBack(r)' <=> GivenBack(r)
PROOF
<1>1. /\ asked \in Seq(Request) /\ done \in Seq(DOMAIN asked)
      /\ \A i \in DOMAIN asked : asked'[i] = asked[i]
  BY DEF TypeOK
<1>2. \A j \in DOMAIN done : done[j] \in DOMAIN asked /\ asked'[done[j]] = asked[done[j]]
  BY <1>1
<1>3. Bookings(r)' = Bookings(r)
  BY <1>2 DEF Bookings
<1>4. Booking(r)' = done'[Max(Bookings(r)')]
  BY DEF Booking, Bookings
<1>5. Booking(r)' = Booking(r)
  BY <1>3, <1>4 DEF Booking
<1>6. ASSUME Bookings(r) # {}
      PROVE  BookedBy(r)' = BookedBy(r) /\ (GivenBack(r)' <=> GivenBack(r))
  <2>1. BookedBy(r)' = RequirePrincipal(asked'[Booking(r)'].token).name
    BY DEF BookedBy, Booking, Bookings
  <2>2. Max(Bookings(r)) \in DOMAIN done
    BY <1>6, LastBooking DEF Bookings
  <2>3. asked'[Booking(r)'] = asked[Booking(r)]
    BY <1>2, <1>5, <2>2 DEF Booking
  <2>4. BookedBy(r)' = BookedBy(r)
    BY <2>1, <2>3 DEF BookedBy
  <2>5. GivenBack(r)' <=>
           \E k \in DOMAIN done :
              /\ k > Max(Bookings(r)')
              /\ \/ asked'[done[k]].op = "release" /\ r \in asked'[done[k]].ids
                 \/ asked'[done[k]].op = "release_all" /\ asked'[done[k]].client = BookedBy(r)'
    BY DEF GivenBack, Bookings, BookedBy, Booking
  <2> QED
    BY <1>2, <1>3, <2>4, <2>5 DEF GivenBack
<1> QED
  BY <1>3, <1>5, <1>6

-----------------------------------------------------------------------------
(* The inductive invariant: a demo has one request open at a time, what it *)
(* reserves is within what it will release, and nothing it sent is still   *)
(* to be served when its release has been.                                 *)

Demo(c) == cmd[c].id \in DOMAIN asked /\ asked[cmd[c].id].tool \in Demos

\* A demo that has only listed has not reserved.
ListsFirst(c) ==
    asked[cmd[c].id].op = "list" => \A i \in cmd[c].own : asked[i].op # "reserve"

WithinWant(c) ==
    \A i \in cmd[c].own : asked[i].op = "reserve" => asked[i].ids \subseteq cmd[c].want

OneOpen(c) == \A q \in inbox : q.id \in cmd[c].own => q.id = cmd[c].id

ReleasesWant(c) == asked[cmd[c].id].op = "release" => asked[cmd[c].id].ids = cmd[c].want

CleanedUp(c) ==
    asked[cmd[c].id].op = "release" /\ cmd[c].id \in Done =>
        \A r \in Configured : table[r].owner # None => Booking(r) \notin cmd[c].own

Orderly(c) == Demo(c) => /\ ListsFirst(c)
                         /\ WithinWant(c)
                         /\ OneOpen(c)
                         /\ ReleasesWant(c)
                         /\ CleanedUp(c)

\* A resource with an owner has been booked.
Booked == \A r \in Configured : table[r].owner # None => Bookings(r) # {}

DInv == Booked /\ \A c \in Command : Orderly(c)

LEMMA InitDInv == Init => DInv
PROOF
<1> SUFFICES ASSUME Init PROVE DInv
  OBVIOUS
<1>1. Booked
  BY DEF Init, Booked, FreeEntry
<1>2. \A c \in Command : ~Demo(c)
  BY DEF Init, Demo
<1> QED
  BY <1>1, <1>2 DEF DInv, Orderly

-----------------------------------------------------------------------------
(* The shapes of the steps.                                                *)

\* Nothing is sent and nothing is served with an effect.
LEMMA QuietOrderly ==
    ASSUME DInv, UNCHANGED <<table, asked, done>>,
           \A q \in inbox' : \E p \in inbox : p.id = q.id,
           \A c \in Command : /\ cmd'[c].id = cmd[c].id /\ cmd'[c].want = cmd[c].want
                             /\ cmd'[c].own = cmd[c].own
    PROVE  DInv'
PROOF
<1>1. Done' = Done /\ \A r : Bookings(r)' = Bookings(r) /\ Booking(r)' = Booking(r)
  BY DEF Done, Bookings, Booking
<1>2. Booked'
  BY <1>1 DEF DInv, Booked
<1>3. ASSUME NEW c \in Command PROVE Orderly(c)'
  <2> SUFFICES ASSUME Demo(c)'
               PROVE  /\ ListsFirst(c)' /\ WithinWant(c)' /\ OneOpen(c)'
                      /\ ReleasesWant(c)' /\ CleanedUp(c)'
    BY DEF Orderly
  <2>1. /\ ListsFirst(c) /\ WithinWant(c) /\ OneOpen(c)
        /\ ReleasesWant(c) /\ CleanedUp(c)
    BY DEF DInv, Orderly, Demo
  <2>2. ListsFirst(c)' /\ WithinWant(c)' /\ ReleasesWant(c)'
    BY <2>1 DEF ListsFirst, WithinWant, ReleasesWant
  <2>3. OneOpen(c)'
    BY <2>1 DEF OneOpen
  <2>4. CleanedUp(c)'
    BY <1>1, <2>1 DEF CleanedUp
  <2> QED
    BY <2>2, <2>3, <2>4
<1> QED
  BY <1>2, <1>3 DEF DInv

\* A program sends; a demo only what keeps it orderly.
LEMMA SendOrderly ==
    ASSUME IInv, DInv, NEW c \in Command, NEW request, NEW want, NEW own \in SUBSET (DOMAIN asked),
           Send(c, request, want, own),
           request.tool \in Demos =>
              /\ request.op = "list" => \A i \in own : asked[i].op # "reserve"
              /\ \A i \in own : asked[i].op = "reserve" => asked[i].ids \subseteq want
              /\ request.op = "reserve" => request.ids \subseteq want
              /\ request.op = "release" => request.ids = want
              /\ \A q \in inbox : q.id \notin own
    PROVE  DInv'
PROOF
<1> DEFINE n == Len(asked) + 1
<1>1. /\ asked \in Seq(Request) /\ done \in Seq(DOMAIN asked) /\ TypeOK
      /\ \A q \in inbox : q.id \in DOMAIN asked
      /\ \A d \in Command : cmd[d].id \in 0..Len(asked) /\ cmd[d].own \subseteq DOMAIN asked
      /\ DOMAIN cmd = Command
  BY DEF IInv, TypeOK
<1>2. /\ n \in Nat /\ DOMAIN asked = 1..Len(asked) /\ DOMAIN asked' = 1..n /\ asked'[n] = request
      /\ \A i \in DOMAIN asked : i \in DOMAIN asked' /\ asked'[i] = asked[i] /\ i # n
      /\ n \in DOMAIN asked' /\ Len(asked') = n
      /\ \A i \in 0..Len(asked) : i # n /\ (i \in DOMAIN asked' => i \in DOMAIN asked)
  BY <1>1 DEF Send
<1>3. inbox' = inbox \cup {[id |-> n, caller |-> Unresolved]} /\ table' = table /\ done' = done
  BY <1>2 DEF Send
<1>4. cmd' = [cmd EXCEPT ![c] = [@ EXCEPT !.phase = "waiting", !.id = n,
                                        !.want = want, !.own = own \cup {n}]]
  BY <1>2 DEF Send
<1> HIDE DEF n
<1>5. Done' = Done /\ Done \subseteq DOMAIN asked /\ \A j \in DOMAIN done : done[j] \in DOMAIN asked
  BY <1>1, <1>3 DEF Done
<1>6. \A r : Bookings(r)' = Bookings(r) /\ Booking(r)' = Booking(r)
  BY <1>1, <1>3, SentHistory DEF Send
<1>7. Booked'
  BY <1>3, <1>6 DEF DInv, Booked
<1>8. ASSUME NEW d \in Command, d # c PROVE Orderly(d)'
  <2>1. cmd'[d] = cmd[d]
    BY <1>1, <1>4, <1>8
  <2> SUFFICES ASSUME Demo(d)'
               PROVE  /\ ListsFirst(d)' /\ WithinWant(d)' /\ OneOpen(d)'
                      /\ ReleasesWant(d)' /\ CleanedUp(d)'
    BY DEF Orderly
  <2>2. cmd[d].id \in DOMAIN asked /\ asked'[cmd[d].id] = asked[cmd[d].id]
    BY <1>1, <1>2, <2>1 DEF Demo
  <2>3. /\ ListsFirst(d) /\ WithinWant(d) /\ OneOpen(d)
        /\ ReleasesWant(d) /\ CleanedUp(d)
    BY <2>1, <2>2 DEF DInv, Orderly, Demo
  <2>4. \A i \in cmd[d].own : asked'[i] = asked[i] /\ i # n
    BY <1>1, <1>2
  <2>5. ListsFirst(d)' /\ WithinWant(d)' /\ ReleasesWant(d)'
    BY <2>1, <2>2, <2>3, <2>4 DEF ListsFirst, WithinWant, ReleasesWant
  <2>6. OneOpen(d)'
    BY <1>3, <2>1, <2>3, <2>4 DEF OneOpen
  <2>7. CleanedUp(d)'
    BY <1>3, <1>5, <1>6, <2>1, <2>2, <2>3 DEF CleanedUp
  <2> QED
    BY <2>5, <2>6, <2>7
<1>9. Orderly(c)'
  <2>1. cmd'[c].id = n /\ cmd'[c].want = want /\ cmd'[c].own = own \cup {n}
    <3>1. cmd[c] \in [phase : {"ready", "waiting", "exited"}, id : 0..Len(asked),
                      code : Codes \cup {0}, exit : {0, 1},
                      want : SUBSET Configured, own : SUBSET (DOMAIN asked)]
      BY DEF IInv, TypeOK
    <3> QED
      BY <3>1, <1>1, <1>4
  <2> SUFFICES ASSUME Demo(c)'
               PROVE  /\ ListsFirst(c)' /\ WithinWant(c)' /\ OneOpen(c)'
                      /\ ReleasesWant(c)' /\ CleanedUp(c)'
    BY DEF Orderly
  <2>2. request.tool \in Demos
    BY <1>2, <2>1 DEF Demo
  <2>3. \A i \in own : asked'[i] = asked[i] /\ i # n
    BY <1>2
  <2>4. ListsFirst(c)'
    <3> SUFFICES ASSUME request.op = "list", NEW i \in own \cup {n} PROVE asked'[i].op # "reserve"
      BY <1>2, <2>1 DEF ListsFirst
    <3>1. CASE i \in own
      BY <2>2, <2>3, <3>1
    <3>2. CASE i = n
      BY <1>2, <3>2
    <3> QED
      BY <3>1, <3>2
  <2>5. WithinWant(c)' /\ ReleasesWant(c)'
    BY <1>2, <2>1, <2>2, <2>3 DEF WithinWant, ReleasesWant
  <2>6. OneOpen(c)'
    BY <1>3, <2>1, <2>2, <1>1, <1>2 DEF OneOpen
  <2>7. CleanedUp(c)'
    BY <1>2, <1>5, <2>1 DEF CleanedUp
  <2> QED
    BY <2>4, <2>5, <2>6, <2>7
<1> QED
  BY <1>7, <1>8, <1>9 DEF DInv

\* A request is served with its effect: only a reservation gives an owner to what
\* had none, and what a release names is free.
LEMMA ServedOrderly ==
    ASSUME IInv, DInv, NEW q \in inbox, inbox' = inbox \ {q}, UNCHANGED <<asked, cmd>>,
           done' = Append(done, q.id),
           \A r \in Configured : table'[r].owner # None =>
               \/ table[r].owner # None
               \/ asked[q.id].op = "reserve" /\ r \in asked[q.id].ids,
           asked[q.id].op = "release" =>
               \A r \in Configured : r \in asked[q.id].ids => table'[r].owner = None
    PROVE  DInv'
PROOF
<1> DEFINE Reserves(r) == asked[q.id].op = "reserve" /\ r \in asked[q.id].ids
<1>1. TypeOK /\ q.id \in DOMAIN asked /\ q.id \notin Done
  BY DEF IInv, TypeOK, InboxUnserved
<1>2. Done' = Done \cup {q.id}
  BY <1>1, DoneGrows
<1>3. \A r : /\ Reserves(r) => Bookings(r)' # {} /\ Booking(r)' = q.id
             /\ ~Reserves(r) => /\ Bookings(r)' = Bookings(r)
                                /\ Bookings(r) # {} => Booking(r)' = Booking(r)
  BY <1>1, NextBooking
<1>4. \A r \in Configured : table'[r].owner # None =>
         Reserves(r) \/ (table[r].owner # None /\ Bookings(r) # {})
  BY DEF DInv, Booked
<1>5. Booked'
  BY <1>3, <1>4 DEF Booked
<1>6. ASSUME NEW c \in Command PROVE Orderly(c)'
  <2> SUFFICES ASSUME Demo(c)
               PROVE  /\ ListsFirst(c)' /\ WithinWant(c)' /\ OneOpen(c)'
                      /\ ReleasesWant(c)' /\ CleanedUp(c)'
    BY DEF Orderly, Demo
  <2>1. /\ ListsFirst(c) /\ WithinWant(c) /\ OneOpen(c)
        /\ ReleasesWant(c) /\ CleanedUp(c)
    BY DEF DInv, Orderly
  <2>2. ListsFirst(c)' /\ WithinWant(c)' /\ OneOpen(c)' /\ ReleasesWant(c)'
    BY <2>1 DEF ListsFirst, WithinWant, OneOpen, ReleasesWant
  <2>3. CleanedUp(c)'
    <3> SUFFICES ASSUME asked[cmd[c].id].op = "release", cmd[c].id \in Done',
                        NEW r \in Configured, table'[r].owner # None
                 PROVE  Booking(r)' \notin cmd[c].own
      BY DEF CleanedUp
    <3>1. CASE q.id = cmd[c].id
      <4>1. ~Reserves(r) /\ Bookings(r) # {} /\ Booking(r)' = Booking(r)
        BY <3>1, <1>3, <1>4
      <4>2. r \notin cmd[c].want
        BY <3>1, <2>1 DEF ReleasesWant
      <4>3. asked[Booking(r)].op = "reserve" /\ r \in asked[Booking(r)].ids
        BY <1>1, <4>1, LastBooking DEF Booking, Bookings
      <4> QED
        BY <2>1, <4>1, <4>2, <4>3 DEF WithinWant
    <3>2. CASE q.id # cmd[c].id
      <4>1. cmd[c].id \in Done
        BY <1>2, <3>2
      <4>2. CASE Reserves(r)
        BY <1>3, <2>1, <3>2, <4>2 DEF OneOpen
      <4>3. CASE ~Reserves(r)
        BY <1>3, <1>4, <2>1, <4>1, <4>3 DEF CleanedUp
      <4> QED
        BY <4>2, <4>3
    <3> QED
      BY <3>1, <3>2
  <2> QED
    BY <2>2, <2>3
<1> QED
  BY <1>5, <1>6 DEF DInv

-----------------------------------------------------------------------------
(* The steps.                                                              *)

LEMMA EndOrderly ==
    ASSUME IInv, DInv, NEW c \in Command, NEW code, NEW status, End(c, code, status)
    PROVE  DInv'
PROOF
<1>1. UNCHANGED <<table, asked, inbox, done>>
  BY DEF End
<1>2. \A d \in Command : cmd[d] \in
         [phase : {"ready", "waiting", "exited"}, id : 0..Len(asked),
          code : Codes \cup {0}, exit : {0, 1},
          want : SUBSET Configured, own : SUBSET (DOMAIN asked)]
  BY DEF IInv, TypeOK
<1>3. DOMAIN cmd = Command
  BY DEF IInv, TypeOK
<1>4. \A d \in Command : /\ cmd'[d].id = cmd[d].id /\ cmd'[d].want = cmd[d].want
                        /\ cmd'[d].own = cmd[d].own
  BY <1>2, <1>3 DEF End, Exit
<1> QED
  BY <1>1, <1>4, QuietOrderly

LEMMA RunOrderly ==
    ASSUME IInv, DInv, NEW c \in Command, NEW job \in Jobs, Run(c, job)
    PROVE  DInv'
PROOF
<1>1. Send(c, job, {}, {}) /\ {} \in SUBSET (DOMAIN asked)
  BY DEF Run
<1>2. job.tool \in Demos => job.op = "list"
  BY JobsAssumption
<1> QED
  BY <1>1, <1>2, SendOrderly

LEMMA DemoOrderly ==
    ASSUME IInv, DInv, NEW c \in Command, NEW a \in replies, DemoStep(c, a)
    PROVE  DInv'
PROOF
<1>1. Arrives(c, a) /\ asked[a.id].tool \in Demos
  BY DEF DemoStep, DemoLists, DemoReserves, DemoConflicts, DemoReleases, AtDemo
<1>2. /\ a.id = cmd[c].id /\ a.id \in DOMAIN asked /\ asked[a.id] \in Request
      /\ cmd[c].own \in SUBSET (DOMAIN asked)
  BY <1>1, ArrivalTrue
<1>3. ListsFirst(c) /\ WithinWant(c) /\ OneOpen(c)
  BY <1>1, <1>2 DEF DInv, Orderly, Demo
<1>4. \A q \in inbox : q.id \notin cmd[c].own
  BY <1>2, <1>3 DEF OneOpen, IInv, AnswersTrue
<1>5. CASE DemoLists(c, a)
  <2>1. ASSUME End(c, a.code, 0) PROVE DInv'
    BY <2>1, EndOrderly
  <2>2. ASSUME NEW ids,
               Send(c, [asked[a.id] EXCEPT !.op = "reserve", !.ids = ids], ids, cmd[c].own)
        PROVE  DInv'
    <3> DEFINE request == [asked[a.id] EXCEPT !.op = "reserve", !.ids = ids]
    <3>1. request.op = "reserve" /\ request.ids = ids
      BY <1>2 DEF Request
    <3>2. \A i \in cmd[c].own : asked[i].op # "reserve"
      BY <1>2, <1>3, <1>5 DEF ListsFirst, DemoLists, AtDemo
    <3> HIDE DEF request
    <3> QED
      BY <2>2, <3>1, <3>2, <1>2, <1>4, SendOrderly DEF request
  <2> QED
    BY <1>5, <2>1, <2>2 DEF DemoLists
<1>6. CASE DemoReserves(c, a)
  <2>1. ASSUME End(c, a.code, 1) PROVE DInv'
    BY <2>1, EndOrderly
  <2>2. ASSUME NEW r \in cmd[c].want,
               Send(c, [asked[a.id] EXCEPT !.ids = {r}, !.client = ConflictId],
                    cmd[c].want, cmd[c].own)
        PROVE  DInv'
    <3> DEFINE request == [asked[a.id] EXCEPT !.ids = {r}, !.client = ConflictId]
    <3>1. request.op = "reserve" /\ request.ids = {r}
      BY <1>2, <1>6 DEF Request, DemoReserves, AtDemo
    <3> HIDE DEF request
    <3> QED
      BY <2>2, <3>1, <1>2, <1>3, <1>4, SendOrderly DEF request, WithinWant
  <2> QED
    BY <1>6, <2>1, <2>2 DEF DemoReserves
<1>7. CASE DemoConflicts(c, a)
  <2> DEFINE request == [asked[a.id] EXCEPT !.op = "release", !.ids = cmd[c].want,
                                            !.client = DemoId]
  <2>1. request.op = "release" /\ request.ids = cmd[c].want
    BY <1>2 DEF Request
  <2>2. Send(c, request, cmd[c].want, cmd[c].own)
    BY <1>7 DEF DemoConflicts
  <2> HIDE DEF request
  <2> QED
    BY <2>1, <2>2, <1>2, <1>3, <1>4, SendOrderly DEF WithinWant
<1>8. CASE DemoReleases(c, a)
  BY <1>8, EndOrderly DEF DemoReleases
<1> QED
  BY <1>5, <1>6, <1>7, <1>8 DEF DemoStep

\* Lost, refused or let through by require_principal.
LEMMA UnservedOrderly ==
    ASSUME IInv, DInv, NEW q \in inbox,
           \/ Lose(q) \/ Authenticate(q) \/ \E code \in Refusals : Refuse(q, code)
    PROVE  DInv'
PROOF
<1>1. UNCHANGED <<table, asked, done, cmd>>
  BY DEF Lose, Authenticate, Refuse, Reply, Answer
<1>2. \A p \in inbox' : \E o \in inbox : o.id = p.id
  <2>1. CASE inbox' \subseteq inbox
    BY <2>1
  <2>2. ASSUME NEW who, inbox' = (inbox \ {q}) \cup {[q EXCEPT !.caller = who]}
        PROVE  \A p \in inbox' : \E o \in inbox : o.id = p.id
    <3>1. q \in [id : DOMAIN asked, caller : Caller \cup {Unresolved}]
      BY DEF IInv, TypeOK
    <3>2. [q EXCEPT !.caller = who].id = q.id
      BY <3>1
    <3> QED
      BY <2>2, <3>2
  <2> QED
    BY <2>1, <2>2 DEF Lose, Authenticate, Refuse, Reply, Answer
<1> QED
  BY <1>1, <1>2, QuietOrderly

\* What a request leaves when it is served with its effect.
ServedTable(q) ==
    \/ /\ asked[q.id].op \in Reads
       /\ table' = table
    \/ /\ asked[q.id].op = "reserve" /\ q.caller # Unresolved
       /\ table' = Reserved(table, asked[q.id].ids, q.caller.name, None)
    \/ /\ asked[q.id].op = "release"
       /\ table' = Freed(table, asked[q.id].ids)
    \/ /\ asked[q.id].op = "release_all"
       /\ table' = Freed(table, OwnedBy(table, asked[q.id].client))

\* The server lets a request through, refuses it whole or serves it whole.
LEMMA ServedOrNot ==
    ASSUME IInv, NEW q \in inbox,
           \/ HandleList(q) \/ HandleGet(q) \/ Authenticate(q)
           \/ HandleReserve(q) \/ HandleRelease(q) \/ HandleReleaseAll(q)
    PROVE  \/ Authenticate(q) \/ \E code \in Refusals : Refuse(q, code)
           \/ /\ inbox' = inbox \ {q} /\ UNCHANGED <<asked, cmd>>
              /\ done' = Append(done, q.id) /\ ServedTable(q)
PROOF
<1> SUFFICES ASSUME \A code \in Refusals : ~Refuse(q, code), ~Authenticate(q)
             PROVE  /\ inbox' = inbox \ {q} /\ UNCHANGED <<asked, cmd>>
                    /\ done' = Append(done, q.id) /\ ServedTable(q)
  OBVIOUS
<1>1. {400, 403, 404, 409} \subseteq Refusals
  BY DEF Refusals
<1>2. inbox' = inbox \ {q} /\ UNCHANGED <<asked, cmd>> /\ done' = Append(done, q.id)
  BY <1>1 DEF HandleList, HandleGet, HandleReserve, HandleRelease, HandleReleaseAll,
     Succeed, Reply, Answer
<1>3. ServedTable(q)
  BY <1>1 DEF HandleList, HandleGet, HandleReserve, HandleRelease, HandleReleaseAll,
     ServedTable, Reads
<1> QED
  BY <1>2, <1>3

LEMMA ServerOrderly ==
    ASSUME IInv, DInv, NEW q \in inbox,
           \/ HandleList(q) \/ HandleGet(q) \/ Authenticate(q)
           \/ HandleReserve(q) \/ HandleRelease(q) \/ HandleReleaseAll(q)
    PROVE  DInv'
PROOF
<1>1. CASE Authenticate(q) \/ \E code \in Refusals : Refuse(q, code)
  BY <1>1, UnservedOrderly
<1>2. CASE /\ inbox' = inbox \ {q} /\ UNCHANGED <<asked, cmd>>
           /\ done' = Append(done, q.id) /\ ServedTable(q)
  <2>1. DOMAIN table = Configured
    BY DEF IInv, TypeOK
  <2>2. \A r \in Configured : table'[r].owner # None =>
               \/ table[r].owner # None
               \/ asked[q.id].op = "reserve" /\ r \in asked[q.id].ids
    BY <1>2, <2>1 DEF ServedTable, Reserved, Freed, FreeEntry
  <2>3. asked[q.id].op = "release" =>
               \A r \in Configured : r \in asked[q.id].ids => table'[r].owner = None
    BY <1>2, <2>1 DEF ServedTable, Freed, FreeEntry, Reads
  <2> QED
    BY <1>2, <2>2, <2>3, ServedOrderly
<1> QED
  BY <1>1, <1>2, ServedOrNot

LEMMA NextDInv == IInv /\ DInv /\ [Next]_vars => DInv'
PROOF
<1> SUFFICES ASSUME IInv, DInv, [Next]_vars PROVE DInv'
  OBVIOUS
<1>1. ASSUME NEW c \in Command, \/ GiveUp(c) \/ \E a \in replies : Receive(c, a)
      PROVE  DInv'
  BY <1>1, EndOrderly DEF GiveUp, Receive
<1>2. CASE UNCHANGED vars
  BY <1>2, QuietOrderly DEF vars
<1>3. ASSUME NEW q \in inbox, Lose(q) PROVE DInv'
  BY <1>3, UnservedOrderly
<1>4. CASE ServerStep
  BY <1>4, ServerOrderly DEF ServerStep
<1> QED
  BY <1>1, <1>2, <1>3, <1>4, RunOrderly, DemoOrderly DEF Next

\* A demo whose release was answered with success has left nothing behind, whatever
\* was lost, late or overtaken, and whoever else reserves and releases: each of its
\* requests is answered before it sends the next, so none is left to be served after
\* the release (demo_client.py:119-183, demo_client.cpp:91-165).
THEOREM DemosCleanUp == Spec => []DemoCleansUp
PROOF
<1>1. Spec => []DInv
  BY InitDInv, NextDInv, InvariantHolds, PTL DEF Spec
<1>2. IInv /\ DInv => DemoCleansUp
  <2> SUFFICES ASSUME IInv, DInv, NEW c \in Command, Exited(c), cmd[c].code = 200,
                      asked[cmd[c].id].tool \in Demos, asked[cmd[c].id].op = "release",
                      NEW r \in Configured, table[r].owner # None
               PROVE  Booking(r) \notin cmd[c].own
    BY DEF DemoCleansUp
  <2>1. cmd[c].id \in Done
    BY DEF IInv, ExitsTrue, ExitTrue, Truthful, Exited
  <2>2. cmd[c].id \in DOMAIN asked
    BY <2>1 DEF IInv, TypeOK, Done
  <2>3. CleanedUp(c)
    BY <2>2 DEF DInv, Orderly, Demo
  <2> QED
    BY <2>1, <2>3 DEF CleanedUp
<1> QED
  BY <1>1, <1>2, InvariantHolds, PTL

-----------------------------------------------------------------------------
(* The table as a history.                                                 *)

\* A step serves a request with its effect, or it leaves the table and what has been
\* served: it sends a request at most, a user's or one more of a demo.
LEMMA StepKinds ==
    ASSUME IInv, [Next]_vars
    PROVE  \/ UNCHANGED <<table, asked, done>>
           \/ /\ UNCHANGED <<table, done>>
              /\ \E request : /\ asked' = Append(asked, request)
                              /\ \/ request \in Jobs
                                 \/ \E i \in DOMAIN asked : asked[i].tool \in Demos
           \/ \E q \in inbox : /\ asked' = asked /\ done' = Append(done, q.id)
                               /\ ServedTable(q)
PROOF
<1> DEFINE Quiet == UNCHANGED <<table, asked, done>>
           Sends == /\ UNCHANGED <<table, done>>
                    /\ \E request : /\ asked' = Append(asked, request)
                                    /\ \/ request \in Jobs
                                       \/ \E i \in DOMAIN asked : asked[i].tool \in Demos
<1>1. ASSUME NEW c \in Command, NEW job \in Jobs, Run(c, job) PROVE Sends
  BY <1>1 DEF Run, Send
<1>2. ASSUME NEW c \in Command, NEW a \in replies, DemoStep(c, a) PROVE Quiet \/ Sends
  <2>1. a.id \in DOMAIN asked /\ asked[a.id].tool \in Demos
    BY <1>2, ArrivalTrue DEF DemoStep, DemoLists, DemoReserves, DemoConflicts, DemoReleases,
       AtDemo
  <2>2. /\ UNCHANGED <<table, done>>
        /\ asked' = asked \/ \E request : asked' = Append(asked, request)
    <3>1. \A code, status : End(c, code, status) => UNCHANGED <<table, asked, done>>
      BY DEF End
    <3>2. \A request, want, own :
             Send(c, request, want, own) =>
                 UNCHANGED <<table, done>> /\ \E new : asked' = Append(asked, new)
      BY DEF Send
    <3>3. CASE DemoLists(c, a)
      BY <3>1, <3>2, <3>3 DEF DemoLists
    <3>4. CASE DemoReserves(c, a)
      <4>1. \/ End(c, a.code, 1)
            \/ \E r \in cmd[c].want :
                  Send(c, [asked[a.id] EXCEPT !.ids = {r}, !.client = ConflictId],
                       cmd[c].want, cmd[c].own)
        BY <3>4 DEF DemoReserves
      <4> QED
        BY <3>1, <3>2, <4>1
    <3>5. CASE DemoConflicts(c, a)
      BY <3>2, <3>5 DEF DemoConflicts
    <3>6. CASE DemoReleases(c, a)
      BY <3>1, <3>6 DEF DemoReleases
    <3> QED
      BY <1>2, <3>3, <3>4, <3>5, <3>6 DEF DemoStep
  <2> QED
    BY <2>1, <2>2
<1>3. ASSUME NEW c \in Command, \/ GiveUp(c) \/ \E a \in replies : Receive(c, a) PROVE Quiet
  BY <1>3 DEF GiveUp, Receive, End
<1>4. ASSUME NEW q \in inbox,
             Lose(q) \/ Authenticate(q) \/ \E code \in Refusals : Refuse(q, code)
      PROVE  Quiet
  BY <1>4 DEF Lose, Authenticate, Refuse, Reply, Answer
<1>5. CASE UNCHANGED vars
  BY <1>5 DEF vars
<1> HIDE DEF Quiet, Sends
<1>6. CASE ServerStep
  BY <1>4, <1>6, ServedOrNot DEF ServerStep, Quiet
<1> QED
  BY <1>1, <1>2, <1>3, <1>4, <1>5, <1>6 DEF Next, Quiet, Sends

\* A request served with its effect moves each owner as the history says.
LEMMA ServedHistory ==
    ASSUME IInv, NEW q \in inbox, asked' = asked, done' = Append(done, q.id), ServedTable(q),
           NEW r \in Configured,
           table[r].owner = IF Bookings(r) # {} /\ ~GivenBack(r) THEN BookedBy(r) ELSE None
    PROVE  table'[r].owner = IF Bookings(r)' # {} /\ ~GivenBack(r)' THEN BookedBy(r)' ELSE None
PROOF
<1>1. TypeOK /\ q.id \in DOMAIN asked /\ r \in DOMAIN table
  BY DEF IInv, TypeOK
<1>2. FreeEntry.owner = None
  BY DEF FreeEntry
<1>3. CASE asked[q.id].op = "reserve" /\ r \in asked[q.id].ids
  <2>1. q.caller = RequirePrincipal(asked[q.id].token)
    BY <1>3 DEF ServedTable, Reads, IInv, CallersTrue
  <2>2. table'[r].owner = q.caller.name
    BY <1>1, <1>3 DEF ServedTable, Reads, Reserved, ReservedEntry
  <2> QED
    BY <1>1, <1>3, <2>1, <2>2, NextGivenBack
<1>4. CASE ~(asked[q.id].op = "reserve" /\ r \in asked[q.id].ids)
  <2>1. /\ Bookings(r)' = Bookings(r)
        /\ Bookings(r) # {} => /\ BookedBy(r)' = BookedBy(r)
                               /\ GivenBack(r)' <=> GivenBack(r) \/ Frees(q.id, r)
    BY <1>1, <1>4, NextGivenBack
  <2>2. CASE asked[q.id].op \in Reads \cup {"reserve"}
    <3>1. table'[r] = table[r]
      BY <1>1, <1>4, <2>2 DEF ServedTable, Reads, Reserved
    <3>2. ~Frees(q.id, r)
      BY <2>2 DEF Frees, Reads
    <3> QED
      BY <2>1, <3>1, <3>2
  <2>3. CASE asked[q.id].op = "release"
    <3>1. table'[r] = IF r \in asked[q.id].ids THEN FreeEntry ELSE table[r]
      BY <1>1, <2>3 DEF ServedTable, Reads, Freed
    <3>2. Frees(q.id, r) <=> r \in asked[q.id].ids
      BY <2>3 DEF Frees
    <3> QED
      BY <1>2, <2>1, <3>1, <3>2
  <2>4. CASE asked[q.id].op = "release_all"
    <3>1. table'[r] = IF table[r].owner = asked[q.id].client THEN FreeEntry ELSE table[r]
      BY <1>1, <2>4 DEF ServedTable, Reads, Freed, OwnedBy
    <3>2. Frees(q.id, r) <=> asked[q.id].client = BookedBy(r)
      BY <2>4 DEF Frees
    <3> QED
      BY <1>2, <2>1, <3>1, <3>2
  <2>5. asked[q.id].op \in Reads \cup {"reserve", "release", "release_all"}
    BY DEF ServedTable
  <2> QED
    BY <2>2, <2>3, <2>4, <2>5
<1> QED
  BY <1>3, <1>4

\* The owners in the table are what the requests served, in the order of their
\* effects, make of it: a request that was refused, lost, given up by its client or
\* served late leaves no other trace (mu2e-resource-manager.py:84-143).
THEOREM HistoryMakesTable == Spec => []TableIsHistory
PROOF
<1>1. Init => TableIsHistory
  BY DEF Init, TableIsHistory, Bookings, FreeEntry
<1>2. IInv /\ TableIsHistory /\ [Next]_vars => TableIsHistory'
  <2> SUFFICES ASSUME IInv, TableIsHistory, [Next]_vars, NEW r \in Configured
               PROVE  table'[r].owner =
                        IF Bookings(r)' # {} /\ ~GivenBack(r)' THEN BookedBy(r)' ELSE None
    BY DEF TableIsHistory
  <2>1. TypeOK /\ table[r].owner =
                    IF Bookings(r) # {} /\ ~GivenBack(r) THEN BookedBy(r) ELSE None
    BY DEF IInv, TableIsHistory
  <2>2. CASE UNCHANGED <<table, asked, done>>
    <3>1. /\ Bookings(r)' = Bookings(r) /\ BookedBy(r)' = BookedBy(r)
          /\ GivenBack(r)' <=> GivenBack(r)
      BY <2>2 DEF Bookings, BookedBy, Booking, GivenBack
    <3> QED
      BY <2>1, <2>2, <3>1
  <2>3. ASSUME NEW request, asked' = Append(asked, request), UNCHANGED <<table, done>>
        PROVE  table'[r].owner =
                 IF Bookings(r)' # {} /\ ~GivenBack(r)' THEN BookedBy(r)' ELSE None
    BY <2>1, <2>3, SentHistory
  <2>4. ASSUME NEW q \in inbox, asked' = asked, done' = Append(done, q.id), ServedTable(q)
        PROVE  table'[r].owner =
                 IF Bookings(r)' # {} /\ ~GivenBack(r)' THEN BookedBy(r)' ELSE None
    BY <2>1, <2>4, ServedHistory
  <2> QED
    BY <2>2, <2>3, <2>4, StepKinds
<1> QED
  BY <1>1, <1>2, InvariantHolds, PTL DEF Spec

-----------------------------------------------------------------------------
(* Release-all, where reservations carry the name of their principal.      *)

\* Users run no demos, and reserve under the name the server knows them by.
OwnNames ==
    \A j \in Jobs :
        /\ j.tool \in Tools
        /\ j.op = "reserve" /\ RequirePrincipal(j.token) # None =>
              RequirePrincipal(j.token).name = j.client

\* Every request is a command users may run, and who reserved was let in.
Plain ==
    /\ \A i \in DOMAIN asked : asked[i] \in Jobs
    /\ \A i \in DOMAIN done : asked[done[i]].op = "reserve" =>
          RequirePrincipal(asked[done[i]].token) # None

LEMMA PlainHolds == ASSUME OwnNames PROVE Spec => []Plain
PROOF
<1>1. Init => Plain
  BY DEF Init, Plain
<1>2. IInv /\ Plain /\ [Next]_vars => Plain'
  <2> SUFFICES ASSUME IInv, Plain, [Next]_vars PROVE Plain'
    OBVIOUS
  <2>1. asked \in Seq(Request) /\ done \in Seq(DOMAIN asked)
    BY DEF IInv, TypeOK
  <2>2. CASE UNCHANGED <<table, asked, done>>
    BY <2>2 DEF Plain
  <2>3. ASSUME NEW request, asked' = Append(asked, request), UNCHANGED <<table, done>>,
               \/ request \in Jobs
               \/ \E i \in DOMAIN asked : asked[i].tool \in Demos
        PROVE  Plain'
    <3>1. request \in Jobs
      BY <2>3 DEF Plain, OwnNames, Tools, Demos
    <3>2. /\ DOMAIN asked' = DOMAIN asked \cup {Len(asked) + 1}
          /\ asked'[Len(asked) + 1] = request
          /\ \A i \in DOMAIN asked : asked'[i] = asked[i]
      BY <2>1, <2>3
    <3>3. \A i \in DOMAIN done : done[i] \in DOMAIN asked
      BY <2>1
    <3> QED
      BY <2>3, <3>1, <3>2, <3>3 DEF Plain
  <2>4. ASSUME NEW q \in inbox, asked' = asked, done' = Append(done, q.id), ServedTable(q)
        PROVE  Plain'
    <3>1. asked[q.id].op = "reserve" => RequirePrincipal(asked[q.id].token) # None
      BY <2>4 DEF ServedTable, Reads, IInv, CallersTrue, Unresolved
    <3>2. /\ DOMAIN done' = DOMAIN done \cup {Len(done) + 1}
          /\ done'[Len(done) + 1] = q.id
          /\ \A i \in DOMAIN done : done'[i] = done[i]
      BY <2>1, <2>4
    <3> QED
      BY <2>4, <3>1, <3>2 DEF Plain
  <2> QED
    BY <2>2, <2>3, <2>4, StepKinds
<1> QED
  BY <1>1, <1>2, InvariantHolds, PTL DEF Spec

\* The name in a request's body decides nothing when it reserves and everything when
\* it releases all: where the two names agree, a release-all ends the use of what was
\* reserved with its client id, whatever is late or overtaken
\* (mu2e-resource-manager.py:95-103, 127-143).
THEOREM ReleaseAllEnds == ASSUME OwnNames PROVE Spec => []ReleaseAllEndsUse
PROOF
<1>1. IInv /\ TableIsHistory /\ Plain => ReleaseAllEndsUse
  <2> DEFINE n == Len(done)
  <2> SUFFICES ASSUME IInv, TableIsHistory, Plain, done # <<>>,
                      asked[done[n]].op = "release_all",
                      NEW r \in Configured, table[r].owner # None,
                      asked[Booking(r)].client = asked[done[n]].client
               PROVE  FALSE
    BY DEF ReleaseAllEndsUse
  <2>1. n \in Nat /\ DOMAIN done = 1..n /\ done \in Seq(DOMAIN asked) /\ n \in DOMAIN done
    BY DEF IInv, TypeOK
  <2>2. Bookings(r) # {} /\ ~GivenBack(r)
    BY DEF TableIsHistory
  <2> DEFINE m == Max(Bookings(r))
  <2>3. m \in DOMAIN done /\ asked[done[m]].op = "reserve" /\ Booking(r) = done[m]
    BY <2>2, LastBooking DEF Bookings, Booking, IInv
  <2>4. n > m
    BY <2>1, <2>3
  <2>5. asked[done[m]] \in Jobs /\ RequirePrincipal(asked[done[m]].token) # None
    BY <2>1, <2>3 DEF Plain
  <2>6. BookedBy(r) = asked[done[n]].client
    BY <2>3, <2>5 DEF BookedBy, OwnNames
  <2> QED
    BY <2>1, <2>2, <2>4, <2>6 DEF GivenBack
<1> QED
  BY <1>1, InvariantHolds, HistoryMakesTable, PlainHolds, PTL
=============================================================================
