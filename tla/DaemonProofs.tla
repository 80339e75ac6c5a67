---------------------------- MODULE DaemonProofs ----------------------------
(***************************************************************************)
(* Proofs about Daemon for any number of processes, ports, resources and   *)
(* principals, with foreground servers, reused process numbers and failing *)
(* writes of the pidfile, as long as one terminal runs the scripts: with   *)
(* two, the run daemon_two_starts shows, the pidfile can be wrong.         *)
(***************************************************************************)
EXTENDS Daemon, TLAPS

USE PidfileAssumption, PortAssumption

\* One terminal, and so one script at a time.
Serial(s) == Script = {s}

NoDaemon == \A p \in Pid : ~DaemonAlive(p)

\* What the script s knows of the pidfile and of the daemon where it stands: while
\* it is not replacing the pidfile, that file names the daemon, if there is one.
Known(s) ==
    /\ script[s].pc \in {"idle", "find", "probe", "term", "wait", "check", "done"} =>
          \A p \in Pid : DaemonAlive(p) => pidfile = p
    /\ script[s].pc \in {"probe", "term", "wait", "check"} =>
          pidfile \in Pid /\ script[s].pid = pidfile
    /\ script[s].pc \in {"remove", "launch", "unlink"} => NoDaemon
    /\ script[s].pc = "write" =>
          script[s].pid \in Pid /\ \A p \in Pid : DaemonAlive(p) => p = script[s].pid
    /\ script[s].pc = "done" /\ script[s].says \in {"stopped", "absent"} => NoDaemon

\* A daemon that is alone has no server beside it that could write the state file,
\* and has read all that was written.
Fresh ==
    \A p \in Pid : DaemonAlive(p) /\ proc[p].company = "none" =>
        /\ \A q \in Pid : ~Stray(q)
        /\ proc[p].state \in {"loaded", "serving", "stopping"} => proc[p].mem = disk

IInv(s) == TypeOK /\ Known(s) /\ Fresh

-----------------------------------------------------------------------------
(***************************************************************************)
(* Type correctness.                                                       *)
(***************************************************************************)
\* Tables are made of tables.
LEMMA TablesFromTables ==
    /\ [r \in Resource |-> FreeEntry] \in Tables
    /\ \A t \in Tables : Loaded(Resource, WholeFile(t)) = t
    /\ \A t \in Tables, ids \in SUBSET Resource, c \in Principal :
          Reserved(t, ids, c, None) \in Tables /\ Freed(t, ids) \in Tables
BY DEF Tables, Loaded, WholeFile, Reserved, ReservedEntry, Freed, FreeEntry, Entry

\* A call is granted on a table that was loaded only: an empty one has no keys.
LEMMA GrantedOnLoaded ==
    ASSUME NEW t \in Tables \cup {EmptyTable}, NEW ids \in (SUBSET Resource) \ {{}},
           NEW c, NEW o, CanReserve(t, ids) \/ CanRelease(t, ids, c, o)
    PROVE  t \in Tables
BY DEF EmptyTable, CanReserve, CanRelease

\* What a number without a process stands for is a process record.
LEMMA NoProcessType == NoProcess \in Processes
BY DEF NoProcess, Processes

\* Before anything runs every variable has its type.
LEMMA TypeInit == Init => TypeOK
BY NoProcessType, TablesFromTables DEF Init, TypeOK, NoScript, Scripts

\* A new process, and what it makes of the others, are process records.
LEMMA SpawnType ==
    ASSUME proc \in [Pid -> Processes], NEW p \in Pid, NEW port \in Port,
           NEW run \in {"daemon", "stray"}, Spawn(p, port, run)
    PROVE  proc' \in [Pid -> Processes]
<1> DEFINE company == IF \E o \in Pid : Stray(o) THEN "stray" ELSE "none"
           new == [state |-> "loading", mem |-> EmptyTable, port |-> port, run |-> run,
                   company |-> company]
<1>1. company \in {"none", "stray"}
  OBVIOUS
<1>2. new \in Processes
  <2> HIDE DEF company
  <2> QED BY <1>1 DEF Processes
<1>3. \A q \in Pid : [proc[q] EXCEPT !.company = "stray"] \in Processes
  BY DEF Processes
<1>4. proc' = [q \in Pid |-> IF q = p THEN new
                              ELSE IF run = "daemon" THEN proc[q]
                              ELSE [proc[q] EXCEPT !.company = run]]
  BY DEF Spawn
<1> QED
  <2> HIDE DEF new
  <2> QED BY <1>2, <1>3, <1>4

\* What the scripts do to a process leaves process records; a number that is none
\* changes nothing.
LEMMA SignalTypes ==
    ASSUME proc \in [Pid -> Processes], NEW p
    PROVE  /\ [proc EXCEPT ![p].run = "stray"] \in [Pid -> Processes]
           /\ [proc EXCEPT ![p] = NoProcess] \in [Pid -> Processes]
           /\ [proc EXCEPT ![p].state = "stopping"] \in [Pid -> Processes]
           /\ [proc EXCEPT ![p].state = IF @ = "other" THEN @ ELSE "killed"]
                \in [Pid -> Processes]
<1>1. CASE p \in Pid
  BY <1>1, NoProcessType DEF Processes
<1>2. CASE p \notin Pid
  <2>1. /\ [proc EXCEPT ![p].run = "stray"] = proc
        /\ [proc EXCEPT ![p] = NoProcess] = proc
        /\ [proc EXCEPT ![p].state = "stopping"] = proc
        /\ [proc EXCEPT ![p].state = IF @ = "other" THEN @ ELSE "killed"] = proc
    BY <1>2
  <2> QED BY <2>1
<1> QED
  BY <1>1, <1>2

\* A step of a script that says how it goes on keeps the scripts' types.
LEMMA ScriptTypes ==
    ASSUME script \in [Script -> Scripts], NEW s \in Script
    PROVE  /\ \A pc \in {"find", "probe", "remove", "launch", "write", "term", "wait",
                           "check", "unlink"} :
                 GoTo(s, pc) => script' \in [Script -> Scripts]
           /\ \A says \in {"refused", "started", "failed", "absent", "stopped"} :
                 Finish(s, says) => script' \in [Script -> Scripts]
           /\ \A pc \in {"probe", "write"}, p \in Pid :
                 script' = [script EXCEPT ![s].pc = pc, ![s].pid = p]
                    => script' \in [Script -> Scripts]
BY DEF GoTo, Finish, Scripts

\* A command of a script keeps the types.
LEMMA TypeScript ==
    ASSUME TypeOK, NEW s \in Script,
           ScriptStep(s) \/ Prompt(s) \/ \E kind \in {"start", "stop"} : Begin(s, kind)
    PROVE  TypeOK'
<1> USE DEF TypeOK, At, OnlyScript
<1>1. ASSUME NEW kind \in {"start", "stop"}, Begin(s, kind) PROVE TypeOK'
  BY <1>1 DEF Begin, NoScript, Scripts
<1>2. CASE FindOld(s)
  BY <1>2, ScriptTypes DEF FindOld
<1>3. CASE ProbeOld(s) \/ RemoveStale(s) \/ ProbeRunning(s) \/ Check(s) \/ Unlink(s)
  BY <1>3, ScriptTypes DEF ProbeOld, RemoveStale, ProbeRunning, Check, Unlink
<1>4. CASE FindRunning(s)
  BY <1>4, ScriptTypes DEF FindRunning
<1>5. CASE Launch(s)
  BY <1>5, ScriptTypes, SpawnType DEF Launch
<1>6. CASE WritePid(s)
  <2>1. proc' \in [Pid -> Processes]
    <3>1. [proc EXCEPT ![script[s].pid].run = "stray"] \in [Pid -> Processes]
      BY SignalTypes, Zenon
    <3> QED BY <1>6, <3>1 DEF WritePid
  <2>2. script' \in [Script -> Scripts]
    BY <1>6, ScriptTypes DEF WritePid
  <2>3. pidfile' \in Pid \cup {Absent, Empty}
    BY <1>6 DEF WritePid, Scripts
  <2> QED
    BY <1>6, <2>1, <2>2, <2>3 DEF WritePid
<1>7. CASE Term(s)
  BY <1>7, SignalTypes, ScriptTypes DEF Term
<1>8. CASE Wait(s)
  <2>1. proc' \in [Pid -> Processes]
    <3>1. /\ [proc EXCEPT ![script[s].pid] = NoProcess] \in [Pid -> Processes]
          /\ [proc EXCEPT ![script[s].pid].state = IF @ = "other" THEN @ ELSE "killed"]
                \in [Pid -> Processes]
      BY SignalTypes, Zenon
    <3> QED BY <1>8, <3>1 DEF Wait
  <2> QED
    BY <1>8, <2>1, ScriptTypes DEF Wait
<1>9. CASE Prompt(s)
  BY <1>9 DEF Prompt, NoScript, Scripts
<1> QED
  BY <1>1, <1>2, <1>3, <1>4, <1>5, <1>6, <1>7, <1>8, <1>9 DEF ScriptStep

ProcessStep(p) == \/ StartForeground(p) \/ Load(p) \/ Bind(p) \/ Serve(p)
                  \/ Exit(p) \/ Die(p) \/ Interrupt(p)
                  \/ OtherTakes(p) \/ OtherEnds(p)

\* A step of a process keeps the types.
LEMMA TypeProcess ==
    ASSUME TypeOK, NEW p \in Pid, ProcessStep(p)
    PROVE  TypeOK'
<1> USE DEF TypeOK, OnlyProcess
<1>1. CASE StartForeground(p)
  BY <1>1, SpawnType DEF StartForeground
<1>2. CASE Load(p)
  BY <1>2, TablesFromTables DEF Load, Processes
<1>3. CASE Bind(p) \/ Exit(p) \/ Die(p) \/ Interrupt(p) \/ OtherEnds(p)
  BY <1>3, NoProcessType DEF Bind, Exit, Die, Interrupt, OtherEnds, Processes
<1>4. CASE OtherTakes(p)
  BY <1>4 DEF OtherTakes, NoProcess, Processes
<1>5. CASE Serve(p)
  <2>1. PICK after \in Tables : /\ proc' = [proc EXCEPT ![p].mem = after]
                                /\ disk' = after
    BY <1>5, TablesFromTables, GrantedOnLoaded DEF Serve, Processes
  <2> QED
    BY <1>5, <2>1 DEF Serve, Processes
<1> QED
  BY <1>1, <1>2, <1>3, <1>4, <1>5 DEF ProcessStep

\* Every step keeps the types.
LEMMA TypeStep == TypeOK /\ [Next]_vars => TypeOK'
<1> SUFFICES ASSUME TypeOK, [Next]_vars PROVE TypeOK'
  OBVIOUS
<1>1. CASE UNCHANGED vars
  BY <1>1 DEF vars, TypeOK
<1> QED
  BY <1>1, TypeScript, TypeProcess DEF Next, ProcessStep

\* Each variable keeps its type, whatever scripts, servers and other programs do.
THEOREM TypeCorrect == Spec => []TypeOK
BY TypeInit, TypeStep, PTL DEF Spec

-----------------------------------------------------------------------------
(***************************************************************************)
(* The pidfile and the daemon.                                             *)
(***************************************************************************)
\* A new process takes a free number and has read nothing; beside it the others stay
\* as they are, but for the company a stray is to them.
LEMMA Spawned ==
    ASSUME proc \in [Pid -> Processes], NEW p \in Pid, NEW port, NEW run, Spawn(p, port, run)
    PROVE  /\ proc[p].state = "free"
           /\ proc'[p].state = "loading" /\ proc'[p].run = run
           /\ proc'[p].company = "none" => \A o \in Pid : ~Stray(o)
           /\ \A q \in Pid \ {p} : /\ proc'[q].state = proc[q].state
                                   /\ proc'[q].run = proc[q].run
                                   /\ proc'[q].mem = proc[q].mem
                                   /\ run = "daemon" => proc'[q] = proc[q]
                                   /\ run # "daemon" => proc'[q].company = run
<1> DEFINE company == IF \E o \in Pid : Stray(o) THEN "stray" ELSE "none"
<1>1. company = "none" => \A o \in Pid : ~Stray(o)
  OBVIOUS
<1>2. /\ proc[p].state = "free"
      /\ proc' = [q \in Pid |->
            IF q = p THEN [state |-> "loading", mem |-> EmptyTable, port |-> port, run |-> run,
                           company |-> company]
            ELSE IF run = "daemon" THEN proc[q] ELSE [proc[q] EXCEPT !.company = run]]
  BY DEF Spawn
<1> HIDE DEF company
<1> QED
  BY <1>1, <1>2 DEF Processes

\* Processes never become daemons, or strays, on their own: the one is what a
\* script launches, the other what a user starts in the foreground.
LEMMA ProcessKeepsKind ==
    ASSUME TypeOK, NEW p \in Pid, ProcessStep(p), NEW q \in Pid
    PROVE  /\ DaemonAlive(q)' => DaemonAlive(q)
           /\ ~StartForeground(p) /\ Stray(q)' => Stray(q)
           /\ ~StartForeground(p) /\ DaemonAlive(q)' => proc'[q].company = proc[q].company
           /\ pidfile' = pidfile /\ script' = script
<1> USE DEF TypeOK, OnlyProcess, DaemonAlive, Alive, Stray
<1>1. CASE StartForeground(p)
  BY <1>1, Spawned DEF StartForeground
<1>2. CASE Load(p) \/ Interrupt(p)
  BY <1>2 DEF Load, Interrupt, Processes
<1>5. CASE Bind(p)
  BY <1>5 DEF Bind, NoProcess, Processes
<1>6. CASE Exit(p) \/ Die(p) \/ OtherEnds(p)
  BY <1>6 DEF Exit, Die, OtherEnds, NoProcess
<1>3. CASE OtherTakes(p)
  BY <1>3 DEF OtherTakes, NoProcess
<1>4. CASE Serve(p)
  BY <1>4 DEF Serve, Processes
<1> QED
  BY <1>1, <1>2, <1>3, <1>4, <1>5, <1>6 DEF ProcessStep

\* Neither do the commands of a script, but for the launch and for a pidfile that
\* cannot be written.
LEMMA SignalsKeepKind ==
    ASSUME TypeOK, NEW s \in Script, Term(s) \/ Wait(s), NEW q \in Pid
    PROVE  \/ proc'[q] = proc[q]
           \/ proc'[q] = NoProcess
           \/ /\ proc[q].state \notin {"free", "other"}
              /\ \/ proc'[q].state = "stopping" /\ proc[q].state = "serving"
                 \/ proc'[q].state = "killed"
              /\ proc'[q] = [proc[q] EXCEPT !.state = proc'[q].state]
<1> USE DEF TypeOK
<1>1. CASE Term(s)
  BY <1>1 DEF Term, Processes
<1>2. CASE Wait(s)
  BY <1>2 DEF Wait, Alive, Processes
<1> QED BY <1>1, <1>2

\* So they make no daemon and no stray, and no table of a server worse.
LEMMA SignalsKeep ==
    ASSUME TypeOK, NEW s \in Script, Term(s) \/ Wait(s), NEW q \in Pid
    PROVE  /\ DaemonAlive(q)' => DaemonAlive(q)
           /\ Stray(q)' => Stray(q)
<1>1. CASE proc'[q] = proc[q]
  BY <1>1 DEF DaemonAlive, Alive, Stray
<1>2. CASE proc'[q] = NoProcess
  BY <1>2 DEF DaemonAlive, Alive, Stray, NoProcess
<1>3. CASE /\ proc[q].state \notin {"free", "other"}
           /\ proc'[q] = [proc[q] EXCEPT !.state = proc'[q].state]
  <2>1. proc'[q].run = proc[q].run
    BY <1>3 DEF TypeOK, Processes
  <2> QED
    BY <1>3, <2>1 DEF DaemonAlive, Alive, Stray
<1> QED
  BY <1>1, <1>2, <1>3, SignalsKeepKind

\* What the one script knows stays true with each of its commands.
LEMMA KnownScript ==
    ASSUME TypeOK, NEW s, Serial(s), Known(s),
           ScriptStep(s) \/ Prompt(s) \/ \E kind \in {"start", "stop"} : Begin(s, kind)
    PROVE  Known(s)'
<1>0. s \in Script
  BY DEF Serial
<1> USE <1>0 DEF TypeOK, Known, NoDaemon, OnlyScript, At, GoTo, Finish, Scripts
<1>1. ASSUME NEW kind \in {"start", "stop"}, Begin(s, kind) PROVE Known(s)'
  BY <1>1 DEF Begin, NoScript, DaemonAlive, Alive
<1>2. CASE FindOld(s) \/ FindRunning(s)
  BY <1>2 DEF FindOld, FindRunning, DaemonAlive, Alive
<1>3. CASE ProbeOld(s) \/ ProbeRunning(s) \/ Check(s)
  BY <1>3 DEF ProbeOld, ProbeRunning, Check, DaemonAlive, Alive
<1>4. CASE RemoveStale(s) \/ Unlink(s) \/ Prompt(s)
  BY <1>4 DEF RemoveStale, Unlink, Prompt, NoScript, DaemonAlive, Alive
<1>5. CASE Launch(s)
  <2>1. PICK p \in Pid : /\ Spawn(p, DaemonPort, "daemon")
                         /\ script' = [script EXCEPT ![s].pc = "write", ![s].pid = p]
    BY <1>5 DEF Launch
  <2>2. \A q \in Pid \ {p} : proc'[q] = proc[q]
    BY <2>1, Spawned
  <2>3. \A q \in Pid \ {p} : ~DaemonAlive(q)'
    BY <1>5, <2>2 DEF Launch, DaemonAlive, Alive
  <2> QED
    BY <2>1, <2>3
<1>6. CASE WritePid(s)
  <2>1. script[s].pid \in Pid /\ \A p \in Pid : DaemonAlive(p) => p = script[s].pid
    BY <1>6 DEF WritePid
  <2>2. CASE pidfile' = script[s].pid /\ Finish(s, "started") /\ UNCHANGED proc
    BY <2>1, <2>2 DEF DaemonAlive, Alive
  <2>3. CASE /\ proc' = [proc EXCEPT ![script[s].pid].run = "stray"]
             /\ Finish(s, "failed")
    <3>1. \A p \in Pid : ~DaemonAlive(p)'
      BY <2>1, <2>3 DEF DaemonAlive, Alive, Processes
    <3> QED BY <2>3, <3>1
  <2> QED BY <1>6, <2>2, <2>3 DEF WritePid
<1>7. CASE Term(s) \/ Wait(s)
  <2>1. \A q \in Pid : DaemonAlive(q)' => DaemonAlive(q)
    BY <1>7, SignalsKeep
  <2> QED
    BY <1>7, <2>1 DEF Term, Wait
<1> QED
  BY <1>1, <1>2, <1>3, <1>4, <1>5, <1>6, <1>7 DEF ScriptStep

\* There is one daemon at most, wherever the script stands.
LEMMA KnownOne ==
    ASSUME TypeOK, NEW s, Serial(s), Known(s) PROVE AtMostOneDaemon
BY DEF Serial, Known, NoDaemon, AtMostOneDaemon, TypeOK, Scripts

-----------------------------------------------------------------------------
(***************************************************************************)
(* The table of the daemon and the state file.                             *)
(***************************************************************************)
\* The commands of the script leave the table of a daemon that is alone fresh.
LEMMA FreshScript ==
    ASSUME TypeOK, NEW s, Serial(s), Known(s), Fresh,
           ScriptStep(s) \/ Prompt(s) \/ \E kind \in {"start", "stop"} : Begin(s, kind)
    PROVE  Fresh'
<1>0. s \in Script
  BY DEF Serial
<1> USE <1>0
<1>1. CASE UNCHANGED <<proc, disk>>
  BY <1>1 DEF Fresh, DaemonAlive, Alive, Stray
<1>2. CASE Launch(s)
  <2>1. PICK p \in Pid : Spawn(p, DaemonPort, "daemon")
    BY <1>2 DEF Launch
  <2>2. \A q \in Pid \ {p} : ~DaemonAlive(q)' /\ (Stray(q)' => Stray(q))
    BY <1>2, <2>1, Spawned DEF TypeOK, Launch, At, Known, NoDaemon, DaemonAlive, Alive, Stray
  <2>3. /\ ~Stray(p)' /\ proc'[p].state = "loading"
        /\ proc'[p].company = "none" => \A o \in Pid : ~Stray(o)
    BY <2>1, Spawned DEF TypeOK, Stray
  <2> QED
    BY <2>2, <2>3 DEF Fresh
<1>3. ASSUME WritePid(s), proc' = [proc EXCEPT ![script[s].pid].run = "stray"] PROVE Fresh'
  <2>1. script[s].pid \in Pid /\ \A p \in Pid : DaemonAlive(p) => p = script[s].pid
    BY <1>3 DEF WritePid, At, Known
  <2>2. \A p \in Pid : ~DaemonAlive(p)'
    BY <2>1, <1>3 DEF TypeOK, DaemonAlive, Alive, Processes
  <2> QED
    BY <2>2 DEF Fresh
<1>4. CASE Term(s) \/ Wait(s)
  <2> SUFFICES ASSUME NEW p \in Pid, DaemonAlive(p)', proc'[p].company = "none"
               PROVE  /\ \A q \in Pid : ~Stray(q)'
                      /\ proc'[p].state \in {"loaded", "serving", "stopping"}
                            => proc'[p].mem = disk'
    BY DEF Fresh
  <2>1. disk' = disk /\ DaemonAlive(p) /\ \A q \in Pid : Stray(q)' => Stray(q)
    BY <1>4, SignalsKeep DEF Term, Wait
  <2>2. /\ proc[p].company = proc'[p].company /\ proc[p].mem = proc'[p].mem
        /\ proc'[p].state \in {"loaded", "serving", "stopping"}
              => proc[p].state \in {"loaded", "serving", "stopping"}
    <3>1. CASE proc'[p] = proc[p]
      BY <3>1
    <3>2. CASE proc'[p] = NoProcess
      BY <3>2 DEF DaemonAlive, Alive, NoProcess
    <3>3. CASE /\ \/ proc'[p].state = "stopping" /\ proc[p].state = "serving"
                  \/ proc'[p].state = "killed"
               /\ proc'[p] = [proc[p] EXCEPT !.state = proc'[p].state]
      BY <3>3 DEF TypeOK, Processes
    <3> QED
      BY <1>4, <3>1, <3>2, <3>3, SignalsKeepKind
  <2> QED
    BY <2>1, <2>2 DEF Fresh
<1> QED
  BY <1>1, <1>2, <1>3, <1>4
     DEF ScriptStep, Prompt, Begin, FindOld, ProbeOld, RemoveStale, WritePid, FindRunning,
         ProbeRunning, Check, Unlink, OnlyScript

\* So does every process.
LEMMA FreshProcess ==
    ASSUME TypeOK, Fresh, AtMostOneDaemon, NEW p \in Pid, ProcessStep(p)
    PROVE  Fresh'
<1>1. CASE StartForeground(p)
  <2>1. PICK port \in Port : Spawn(p, port, "stray")
    BY <1>1 DEF StartForeground
  <2>2. \A q \in Pid : DaemonAlive(q)' => proc'[q].company = "stray"
    BY <2>1, Spawned DEF TypeOK, DaemonAlive, Alive
  <2> QED
    BY <2>2 DEF Fresh
<1> SUFFICES ASSUME ~StartForeground(p),
                    NEW q \in Pid, DaemonAlive(q)', proc'[q].company = "none"
             PROVE  proc'[q].state \in {"loaded", "serving", "stopping"} => proc'[q].mem = disk'
  BY <1>1, ProcessKeepsKind DEF Fresh
<1>2. DaemonAlive(q)
  BY ProcessKeepsKind
<1>3. CASE Serve(p)
  <2>1. p = q
    <3>1. \/ DaemonAlive(p) \/ Stray(p)
      BY <1>3 DEF TypeOK, Processes, Serve, DaemonAlive, Alive, Stray
    <3>2. proc[q].company = "none"
      BY <1>3 DEF TypeOK, Processes, Serve
    <3> QED
      BY <1>2, <3>1, <3>2 DEF Fresh, AtMostOneDaemon
  <2> QED
    BY <1>3, <2>1 DEF TypeOK, Processes, Serve
<1>4. CASE Load(p)
  BY <1>2, <1>4, TablesFromTables DEF TypeOK, Processes, Load, OnlyProcess, Fresh
<1>5. CASE Interrupt(p)
  BY <1>2, <1>5 DEF TypeOK, Processes, Interrupt, OnlyProcess, Fresh
<1>7. CASE Bind(p)
  BY <1>2, <1>7 DEF TypeOK, Processes, Bind, OnlyProcess, NoProcess, Fresh
<1>6. CASE Exit(p) \/ Die(p) \/ OtherEnds(p) \/ OtherTakes(p)
  BY <1>2, <1>6 DEF TypeOK, Processes, Exit, Die, OtherEnds, OtherTakes, OnlyProcess,
                    NoProcess, DaemonAlive, Alive, Fresh
<1> QED
  BY <1>1, <1>3, <1>4, <1>5, <1>6, <1>7 DEF ProcessStep

-----------------------------------------------------------------------------
(***************************************************************************)
(* The invariant and what follows from it.                                 *)
(***************************************************************************)
\* Before the first script there is no daemon and no pidfile.
LEMMA InvInit == ASSUME NEW s, Serial(s), Init PROVE IInv(s)
BY TypeInit DEF Serial, Init, IInv, Known, Fresh, DaemonAlive, Alive, Stray, NoProcess, NoScript,
                NoDaemon

\* Every step of the script, of a process or of another program keeps it.
LEMMA InvStep == ASSUME NEW s, Serial(s), IInv(s), [Next]_vars PROVE IInv(s)'
<1>1. TypeOK'
  BY TypeStep DEF IInv
<1>2. CASE UNCHANGED vars
  BY <1>1, <1>2 DEF IInv, Known, Fresh, DaemonAlive, Alive, Stray, NoDaemon, vars
<1>3. CASE ScriptStep(s) \/ Prompt(s) \/ \E kind \in {"start", "stop"} : Begin(s, kind)
  BY <1>1, <1>3, KnownScript, FreshScript DEF IInv
<1>4. ASSUME NEW p \in Pid, ProcessStep(p) PROVE IInv(s)'
  <2>1. Known(s)'
    BY <1>4, ProcessKeepsKind DEF IInv, Known, NoDaemon
  <2>2. Fresh'
    BY <1>4, KnownOne, FreshProcess DEF IInv
  <2> QED
    BY <1>1, <2>1, <2>2 DEF IInv
<1> QED
  BY <1>2, <1>3, <1>4 DEF Next, ProcessStep, Serial

\* The properties of the run daemon are consequences.
LEMMA InvImplies ==
    ASSUME NEW s, Serial(s), IInv(s)
    PROVE  AtMostOneDaemon /\ PidfileNamesServer /\ StoppedMeansGone /\ MemoryIsFresh
<1>1. AtMostOneDaemon
  BY KnownOne DEF IInv
<1>2. PidfileNamesServer
  BY DEF IInv, Known, PidfileNamesServer, AtRest, Serial
<1>3. StoppedMeansGone
  BY DEF IInv, Known, StoppedMeansGone, NoDaemon, Serial
<1>4. MemoryIsFresh
  BY DEF IInv, Fresh, MemoryIsFresh, DaemonAlive, Alive
<1> QED
  BY <1>1, <1>2, <1>3, <1>4

\* One terminal never runs two daemons, whatever dies and whoever gets the numbers.
THEOREM OneDaemon == ASSUME NEW s, Serial(s) PROVE Spec => []AtMostOneDaemon
<1>1. Init => IInv(s)
  BY InvInit
<1>2. IInv(s) /\ [Next]_vars => IInv(s)'
  BY InvStep
<1>3. IInv(s) => AtMostOneDaemon
  BY InvImplies
<1> QED
  BY <1>1, <1>2, <1>3, PTL DEF Spec

\* Whenever its script is over, the pidfile names the daemon that serves.
THEOREM PidfileTells == ASSUME NEW s, Serial(s) PROVE Spec => []PidfileNamesServer
<1>1. Init => IInv(s)
  BY InvInit
<1>2. IInv(s) /\ [Next]_vars => IInv(s)'
  BY InvStep
<1>3. IInv(s) => PidfileNamesServer
  BY InvImplies
<1> QED
  BY <1>1, <1>2, <1>3, PTL DEF Spec

\* A stop that ends with 0 leaves no daemon, not even one that is finishing.
THEOREM StopLeavesNone == ASSUME NEW s, Serial(s) PROVE Spec => []StoppedMeansGone
<1>1. Init => IInv(s)
  BY InvInit
<1>2. IInv(s) /\ [Next]_vars => IInv(s)'
  BY InvStep
<1>3. IInv(s) => StoppedMeansGone
  BY InvImplies
<1> QED
  BY <1>1, <1>2, <1>3, PTL DEF Spec

\* A daemon without a stray beside it serves what is in the state file.
THEOREM DaemonKnowsFile == ASSUME NEW s, Serial(s) PROVE Spec => []MemoryIsFresh
<1>1. Init => IInv(s)
  BY InvInit
<1>2. IInv(s) /\ [Next]_vars => IInv(s)'
  BY InvStep
<1>3. IInv(s) => MemoryIsFresh
  BY InvImplies
<1> QED
  BY <1>1, <1>2, <1>3, PTL DEF Spec

-----------------------------------------------------------------------------
(***************************************************************************)
(* The daemons as one arbiter.                                             *)
(***************************************************************************)
\* No table says that a resource is available and owned, or reserved by nobody.
Sound == Consistent(disk) /\ \A p \in Pid : Consistent(proc[p].mem)

\* A process answers calls and reads the file; else its table goes only with it.
LEMMA MemKept ==
    ASSUME TypeOK, [Next]_vars, NEW q \in Pid, proc'[q].mem # proc[q].mem
    PROVE  \/ Serve(q) \/ Load(q)
           \/ proc'[q].mem = EmptyTable /\ proc'[q].state \notin {"serving", "stopping"}
<1> USE DEF TypeOK
<1> DEFINE Goal == \/ Serve(q) \/ Load(q)
                   \/ proc'[q].mem = EmptyTable /\ proc'[q].state \notin {"serving", "stopping"}
<1>1. NoProcess.mem = EmptyTable /\ NoProcess.state = "free"
  BY DEF NoProcess
<1>2. ASSUME NEW p \in Pid, NEW port, NEW run, Spawn(p, port, run) PROVE Goal
  <2>1. q = p
    BY <1>2, Spawned
  <2>2. proc'[q].mem = EmptyTable /\ proc'[q].state = "loading"
    BY <1>2, <2>1 DEF Spawn
  <2> QED
    BY <2>2
<1>3. ASSUME NEW s \in Script,
             ScriptStep(s) \/ Prompt(s) \/ \E kind \in {"start", "stop"} : Begin(s, kind)
      PROVE  Goal
  <2>1. CASE Launch(s)
    BY <1>2, <2>1 DEF Launch
  <2>2. CASE WritePid(s)
    BY <2>2 DEF WritePid, Processes
  <2>3. CASE Term(s) \/ Wait(s)
    <3>1. ASSUME proc'[q] = [proc[q] EXCEPT !.state = proc'[q].state] PROVE FALSE
      BY <3>1 DEF Processes
    <3> QED
      BY <1>1, <2>3, <3>1, SignalsKeepKind
  <2>4. CASE UNCHANGED proc
    BY <2>4
  <2> QED
    BY <1>3, <2>1, <2>2, <2>3, <2>4
       DEF ScriptStep, Prompt, Begin, FindOld, ProbeOld, RemoveStale, FindRunning, ProbeRunning,
           Check, Unlink, OnlyScript
<1>4. ASSUME NEW p \in Pid, ProcessStep(p) PROVE Goal
  <2>1. CASE StartForeground(p)
    BY <1>2, <2>1 DEF StartForeground
  <2>2. CASE Load(p) \/ Serve(p)
    BY <2>2 DEF Load, Serve, Processes
  <2>3. CASE Bind(p)
    BY <1>1, <2>3 DEF Bind, Processes
  <2>4. CASE Exit(p) \/ Die(p) \/ OtherEnds(p)
    BY <1>1, <2>4 DEF Exit, Die, OtherEnds
  <2>5. CASE Interrupt(p)
    BY <2>5 DEF Interrupt, Processes
  <2>6. CASE OtherTakes(p)
    BY <2>6 DEF OtherTakes, NoProcess
  <2> QED
    BY <1>4, <2>1, <2>2, <2>3, <2>4, <2>5, <2>6 DEF ProcessStep
<1> QED
  BY <1>3, <1>4 DEF Next, ProcessStep, vars

\* Nothing but a call writes the state file.
LEMMA DiskKept == ASSUME [Next]_vars, disk' # disk PROVE \E p \in Pid : Serve(p)
<1>1. ASSUME NEW s \in Script,
             ScriptStep(s) \/ Prompt(s) \/ \E kind \in {"start", "stop"} : Begin(s, kind)
      PROVE  FALSE
  BY <1>1 DEF ScriptStep, Prompt, Begin, FindOld, ProbeOld, RemoveStale, Launch, WritePid,
     FindRunning, ProbeRunning, Term, Wait, Check, Unlink, OnlyScript
<1> QED
  BY <1>1 DEF Next, vars, StartForeground, Load, Bind, Exit, Die, Interrupt, OtherTakes,
     OtherEnds, OnlyProcess

\* What a call does, to its server's table and to the state file.
LEMMA ServeDoes ==
    ASSUME TypeOK, Sound, NEW p \in Pid, Serve(p)
    PROVE  \E c \in Principal, ids \in (SUBSET Resource) \ {{}} :
              /\ disk' \in {Reserved(proc[p].mem, ids, c, None), Freed(proc[p].mem, ids)}
              /\ proc[p].mem \in Tables /\ proc' = [proc EXCEPT ![p].mem = disk']
              /\ disk' = Freed(proc[p].mem, ids) =>
                    \A r \in ids : proc[p].mem[r].owner # None
              /\ disk' # Freed(proc[p].mem, ids) =>
                    \A r \in ids : proc[p].mem[r].owner = None
<1> DEFINE t == proc[p].mem
<1>1. PICK c \in Principal, ids \in (SUBSET Resource) \ {{}}, operator \in BOOLEAN :
         /\ disk' \in {Reserved(t, ids, c, None), Freed(t, ids)}
         /\ IF disk' = Freed(t, ids) THEN CanRelease(t, ids, c, operator)
                                     ELSE CanReserve(t, ids)
         /\ proc' = [proc EXCEPT ![p].mem = disk']
  BY DEF Serve
<1>2. t \in Tables
  BY <1>1, GrantedOnLoaded DEF TypeOK, Processes
<1>3. \A r \in Resource : \/ t[r].status = "available" /\ t[r].owner = None
                          \/ t[r].status = "reserved" /\ t[r].owner \in Principal
  BY <1>2 DEF Sound, Consistent, Tables, FreeEntry
<1> HIDE DEF t
<1>4. CanRelease(t, ids, c, operator) => \A r \in ids : t[r].owner # None
  BY <1>3, NoneAssumption DEF CanRelease
<1>5. CanReserve(t, ids) => \A r \in ids : t[r].owner = None
  BY <1>3 DEF CanReserve
<1> QED
  BY <1>1, <1>2, <1>4, <1>5 DEF t

LEMMA SoundInit == Init => Sound
BY DEF Init, Sound, Consistent, NoProcess, EmptyTable

LEMMA SoundStep == TypeOK /\ Sound /\ [Next]_vars => Sound'
<1> SUFFICES ASSUME TypeOK, Sound, [Next]_vars PROVE Sound'
  OBVIOUS
<1>1. ASSUME NEW p \in Pid, Serve(p) PROVE Consistent(disk')
  <2>1. PICK c \in Principal, ids \in (SUBSET Resource) \ {{}} :
           disk' \in {Reserved(proc[p].mem, ids, c, None), Freed(proc[p].mem, ids)}
    BY <1>1, ServeDoes
  <2> QED
    BY <2>1 DEF Sound, Consistent, Reserved, ReservedEntry, Freed
<1>2. Consistent(disk')
  BY <1>1, DiskKept DEF Sound
<1>3. ASSUME NEW q \in Pid PROVE Consistent(proc'[q].mem)
  <2>1. CASE Serve(q)
    <3>1. proc' = [proc EXCEPT ![q].mem = disk']
      BY <2>1, ServeDoes
    <3> QED
      BY <1>2, <3>1 DEF TypeOK, Processes
  <2>2. CASE Load(q)
    BY <2>2, TablesFromTables DEF TypeOK, Processes, Load, Sound
  <2>3. CASE proc'[q].mem \in {proc[q].mem, EmptyTable}
    BY <2>3 DEF Sound, Consistent, EmptyTable
  <2> QED
    BY <2>1, <2>2, <2>3, MemKept
<1> QED
  BY <1>2, <1>3 DEF Sound, Consistent

\* A call on a table that is the file's is a step of the arbiter.
LEMMA ServeIsAbstract ==
    ASSUME TypeOK, Sound, NEW p \in Pid, Serve(p), proc[p].mem = disk
    PROVE  Abstract!Next /\ Holder' # Holder
<1>1. PICK c \in Principal, ids \in (SUBSET Resource) \ {{}} :
         /\ disk' \in {Reserved(disk, ids, c, None), Freed(disk, ids)}
         /\ disk \in Tables
         /\ disk' = Freed(disk, ids) => \A r \in ids : disk[r].owner # None
         /\ disk' # Freed(disk, ids) => \A r \in ids : disk[r].owner = None
  BY ServeDoes
<1>2. PICK r \in ids : r \in Resource
  BY <1>1
<1>3. DOMAIN disk = Resource
  BY <1>1 DEF Tables
<1>4. CASE disk' = Freed(disk, ids)
  <2>1. Holder' = [x \in Resource |-> IF x \in ids THEN None ELSE Holder[x]]
    BY <1>3, <1>4 DEF Holder, Freed, FreeEntry
  <2>2. \A x \in ids : Holder[x] # None
    BY <1>1, <1>4 DEF Holder
  <2>3. Abstract!Release(c, ids)
    BY <1>1, <2>1, <2>2 DEF Abstract!Release
  <2> QED
    BY <1>2, <2>1, <2>2, <2>3 DEF Abstract!Next
<1>5. CASE disk' # Freed(disk, ids)
  <2>1. Holder' = [x \in Resource |-> IF x \in ids THEN c ELSE Holder[x]]
    BY <1>1, <1>3, <1>5 DEF Holder, Reserved, ReservedEntry
  <2>2. \A x \in ids : Holder[x] = None
    BY <1>1, <1>5 DEF Holder
  <2>3. Abstract!Grant(c, ids)
    BY <2>1, <2>2 DEF Abstract!Grant
  <2>4. c # None
    BY NoneAssumption
  <2> QED
    BY <1>2, <2>1, <2>2, <2>3, <2>4 DEF Abstract!Next
<1> QED
  BY <1>4, <1>5

\* With one terminal, each call a daemon serves without a stray beside it goes on from
\* all that the daemons before it have granted, and takes nothing from anybody: the
\* pidfile may be stale, numbers reused, daemons killed in the middle of their calls
\* (start_server.sh:99-133, stop_server.sh:16-46, resource_manager.py:69-86).
THEOREM CallsGoOnFromFile == ASSUME NEW s, Serial(s) PROVE Spec => CallsGoOn
<1>1. Init => IInv(s) /\ Sound
  BY InvInit, SoundInit
<1>2. IInv(s) /\ Sound /\ [Next]_vars => IInv(s)' /\ Sound'
  BY InvStep, SoundStep DEF IInv
<1>3. IInv(s) /\ Sound /\ [Next]_vars =>
         [\A p \in Pid : Alone(p) /\ Answers(p) => Abstract!Next /\ Holder' # Holder]_vars
  <2> SUFFICES ASSUME IInv(s), Sound, [Next]_vars, NEW p \in Pid, Alone(p), Answers(p)
               PROVE  Abstract!Next /\ Holder' # Holder
    OBVIOUS
  <2>1. Serve(p)
    BY MemKept DEF IInv, Answers, Load
  <2>2. proc[p].mem = disk
    BY DEF IInv, Fresh, Alone, Answers
  <2> QED
    BY <2>1, <2>2, ServeIsAbstract DEF IInv
<1> QED
  BY <1>1, <1>2, <1>3, PTL DEF Spec, CallsGoOn

\* Nobody runs a server behind the scripts' back.
NoStrays == \A p \in Pid : ~Stray(p) /\ proc[p].company = "none"

LEMMA NoStraysStep ==
    ASSUME ~Foreground, ~WriteMayFail, TypeOK, NoStrays, [Next]_vars
    PROVE  NoStrays'
<1> USE DEF TypeOK, NoStrays, Stray
<1>1. ASSUME NEW s \in Script,
             ScriptStep(s) \/ Prompt(s) \/ \E kind \in {"start", "stop"} : Begin(s, kind)
      PROVE  NoStrays'
  <2>1. CASE Launch(s)
    <3>1. PICK p \in Pid : Spawn(p, DaemonPort, "daemon")
      BY <2>1 DEF Launch
    <3>2. \A q \in Pid : q # p => proc'[q] = proc[q]
      BY <3>1 DEF Spawn
    <3>3. ~\E o \in Pid : Stray(o)
      OBVIOUS
    <3>4. proc'[p].run = "daemon" /\ proc'[p].company = "none"
      BY <3>1, <3>3 DEF Spawn
    <3> QED
      BY <3>2, <3>4
  <2>2. CASE Term(s) \/ Wait(s)
    <3>1. NoProcess.company = "none" /\ NoProcess.state = "free"
      BY DEF NoProcess
    <3>2. ASSUME NEW q \in Pid, proc'[q] = [proc[q] EXCEPT !.state = proc'[q].state]
          PROVE  proc'[q].run = proc[q].run /\ proc'[q].company = proc[q].company
      BY <3>2 DEF Processes
    <3> QED
      BY <2>2, <3>1, <3>2, SignalsKeepKind
  <2>3. CASE UNCHANGED proc
    BY <2>3
  <2> QED
    BY <1>1, <2>1, <2>2, <2>3
       DEF ScriptStep, Prompt, Begin, FindOld, ProbeOld, RemoveStale, WritePid, FindRunning,
           ProbeRunning, Check, Unlink, OnlyScript
<1>2. ASSUME NEW p \in Pid, ProcessStep(p) PROVE NoStrays'
  <2>1. ~StartForeground(p)
    BY DEF StartForeground
  <2>2. CASE Load(p) \/ Serve(p) \/ Interrupt(p)
    BY <2>2 DEF Load, Serve, Interrupt, Processes
  <2>3. CASE Bind(p)
    BY <2>3 DEF Bind, NoProcess, Processes
  <2>4. CASE Exit(p) \/ Die(p) \/ OtherEnds(p) \/ OtherTakes(p)
    BY <2>4 DEF Exit, Die, OtherEnds, OtherTakes, NoProcess
  <2> QED
    BY <1>2, <2>1, <2>2, <2>3, <2>4 DEF ProcessStep
<1> QED
  BY <1>1, <1>2 DEF Next, ProcessStep, vars

\* So run by the scripts alone, and one terminal at a time, all the daemons there ever
\* are make one arbiter of the state file (README: "Reservations persist across server
\* restarts via a state file").
THEOREM DaemonsAreOneArbiter ==
    ASSUME NEW s, Serial(s), ~Foreground, ~WriteMayFail
    PROVE  Spec => Abstract!Spec
<1> DEFINE Inv == IInv(s) /\ Sound /\ NoStrays
<1>1. Init => Inv /\ Abstract!Init
  <2>1. Init => NoStrays
    BY DEF Init, NoStrays, Stray, NoProcess
  <2>2. Init => Abstract!Init
    BY DEF Init, Abstract!Init, Holder, FreeEntry
  <2> QED
    BY <2>1, <2>2, InvInit, SoundInit
<1>2. Inv /\ [Next]_vars => Inv'
  BY InvStep, SoundStep, NoStraysStep DEF IInv
<1>3. Inv /\ [Next]_vars => [Abstract!Next]_Holder
  <2> SUFFICES ASSUME Inv, [Next]_vars, Holder' # Holder PROVE Abstract!Next
    OBVIOUS
  <2>1. PICK p \in Pid : Serve(p)
    BY DiskKept DEF Holder
  <2>2. DaemonAlive(p) /\ proc[p].company = "none"
    BY <2>1 DEF Serve, NoStrays, Stray, DaemonAlive, Alive, IInv, TypeOK, Processes
  <2>3. proc[p].mem = disk
    BY <2>1, <2>2 DEF Serve, IInv, Fresh
  <2> QED
    BY <2>1, <2>3, ServeIsAbstract DEF IInv
<1> QED
  <2> HIDE DEF Inv
  <2> QED
    BY <1>1, <1>2, <1>3, PTL DEF Spec, Abstract!Spec
=============================================================================
