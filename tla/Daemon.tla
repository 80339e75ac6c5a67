------------------------------- MODULE Daemon -------------------------------
(***************************************************************************)
(* scripts/start_server.sh and scripts/stop_server.sh, the pidfile they    *)
(* share, and the server processes they start and stop: what a process     *)
(* reads of the state file before it listens, and what it writes later.    *)
(*                                                                         *)
(* A script is a sequence of commands, and anything can happen between two *)
(* of them: another script, the end of a process, the reuse of its number. *)
(* A call a server serves is one step (ResourceManager shows it in full).  *)
(***************************************************************************)
EXTENDS ResourceTable

CONSTANTS
    Pid,            \* process numbers
    Port,           \* HTTP ports a foreground server may be given
    DaemonPort,     \* the port of the daemon
    Script,         \* terminals: each runs one script at a time
    Foreground,     \* do users start servers in the foreground too?
    PidReuse,       \* may the number of a dead process go to another program?
    WriteMayFail,   \* may writing the pidfile fail (a full disk)?
    Absent, Empty   \* a pidfile that does not exist, that has no content

ASSUME PidfileAssumption == Absent \notin Pid /\ Empty \notin Pid /\ Absent # Empty
ASSUME PortAssumption == DaemonPort \in Port

VARIABLES
    proc,           \* the processes, by number.  History: run, whether the scripts know
                    \* of it; company, has one they do not know lived beside it?
    pidfile,        \* run/resource-manager.pid
    disk,           \* config/state.json
    script          \* the scripts

vars == <<proc, pidfile, disk, script>>

NoProcess == [state |-> "free", mem |-> EmptyTable, port |-> DaemonPort,
              run |-> "stray", company |-> "none"]

NoScript == [kind |-> "none", pc |-> "idle", pid |-> Absent, says |-> "nothing"]

Tables == [Resource -> Entry]

Processes == [state : {"free", "loading", "loaded", "serving", "stopping", "killed", "other"},
              mem : Tables \cup {EmptyTable},
              port : Port,
              run : {"daemon", "stray"}, company : {"none", "stray"}]

Scripts == [kind : {"none", "start", "stop"},
            pc : {"idle", "find", "probe", "remove", "launch", "write",
                  "term", "wait", "check", "unlink", "done"},
            pid : Pid \cup {Absent},
            says : {"nothing", "refused", "started", "failed", "absent", "stopped"}]

TypeOK ==
    /\ proc \in [Pid -> Processes]
    /\ pidfile \in Pid \cup {Absent, Empty}
    /\ disk \in Tables
    /\ script \in [Script -> Scripts]

Init ==
    /\ proc = [p \in Pid |-> NoProcess]
    /\ pidfile = Absent
    /\ disk = [r \in Resource |-> FreeEntry]
    /\ script = [s \in Script |-> NoScript]

\* What kill -0 sees; scripts, servers and the other programs are one user's.
Alive(p) == proc[p].state # "free"

DaemonAlive(p) == Alive(p) /\ proc[p].run = "daemon"

OnlyScript == UNCHANGED <<proc, pidfile, disk>>

OnlyProcess == UNCHANGED <<pidfile, disk, script>>

GoTo(s, pc) == script' = [script EXCEPT ![s].pc = pc]

Finish(s, says) == script' = [script EXCEPT ![s].pc = "done", ![s].says = says]

-----------------------------------------------------------------------------
(* start_server.sh --daemon.                                               *)

At(s, kind, pc) == script[s].kind = kind /\ script[s].pc = pc

Begin(s, kind) ==
    /\ script[s].pc = "idle"
    /\ script' = [script EXCEPT ![s] = [NoScript EXCEPT !.kind = kind, !.pc = "find"]]
    /\ OnlyScript

FindOld(s) ==
    /\ At(s, "start", "find")
    /\ \/ pidfile = Absent /\ GoTo(s, "launch")
       \/ pidfile = Empty /\ GoTo(s, "remove")
       \/ /\ pidfile \in Pid
          /\ script' = [script EXCEPT ![s].pc = "probe", ![s].pid = pidfile]
    /\ OnlyScript

\* Slip: a pidfile of a running server is taken for a stale one.
ProbeOldNever(s) ==
    /\ At(s, "start", "probe")
    /\ GoTo(s, "remove")
    /\ OnlyScript

\* Slip: the pidfile is removed before the refusal.
ProbeOldRemoves(s) ==
    /\ At(s, "start", "probe")
    /\ IF Alive(script[s].pid) THEN Finish(s, "refused") ELSE GoTo(s, "launch")
    /\ pidfile' = Absent
    /\ UNCHANGED <<proc, disk>>

ProbeOld(s) ==
    /\ At(s, "start", "probe")
    /\ IF Alive(script[s].pid) THEN Finish(s, "refused") ELSE GoTo(s, "remove")
    /\ OnlyScript

RemoveStale(s) ==
    /\ At(s, "start", "remove")
    /\ pidfile' = Absent
    /\ GoTo(s, "launch")
    /\ UNCHANGED <<proc, disk>>

\* A server no script knows of: a foreground one, or one without a pidfile.
Stray(p) == proc[p].state \notin {"free", "other"} /\ proc[p].run = "stray"

Spawn(p, port, run) ==
    /\ proc[p].state = "free"
    /\ proc' = [q \in Pid |->
           IF q = p THEN [state |-> "loading", mem |-> EmptyTable, port |-> port, run |-> run,
                          company |-> IF \E o \in Pid : Stray(o) THEN "stray" ELSE "none"]
           ELSE IF run = "daemon" THEN proc[q] ELSE [proc[q] EXCEPT !.company = run]]

Launch(s) ==
    /\ At(s, "start", "launch")
    /\ \E p \in Pid : /\ Spawn(p, DaemonPort, "daemon")
                      /\ script' = [script EXCEPT ![s].pc = "write", ![s].pid = p]
    /\ UNCHANGED <<pidfile, disk>>

\* echo > "$PIDFILE" opens, then writes; if the write fails, set -e ends the
\* script and the server it has launched goes on.
WritePid(s) ==
    /\ At(s, "start", "write")
    /\ \/ pidfile' = script[s].pid /\ Finish(s, "started") /\ UNCHANGED proc
       \/ /\ WriteMayFail
          /\ pidfile' = Empty
          /\ proc' = [proc EXCEPT ![script[s].pid].run = "stray"]
          /\ Finish(s, "failed")
    /\ UNCHANGED disk

-----------------------------------------------------------------------------
(* stop_server.sh.                                                         *)

FindRunning(s) ==
    /\ At(s, "stop", "find")
    /\ \/ pidfile = Absent /\ Finish(s, "absent")
       \/ pidfile = Empty /\ GoTo(s, "unlink")
       \/ /\ pidfile \in Pid
          /\ script' = [script EXCEPT ![s].pc = "probe", ![s].pid = pidfile]
    /\ OnlyScript

ProbeRunning(s) ==
    /\ At(s, "stop", "probe")
    /\ IF Alive(script[s].pid) THEN GoTo(s, "term") ELSE GoTo(s, "unlink")
    /\ OnlyScript

\* uvicorn closes its port and finishes what it serves; a process that has not
\* come to uvicorn yet, or is no server, just ends.
Term(s) ==
    /\ At(s, "stop", "term")
    /\ LET p == script[s].pid IN
          proc' = CASE proc[p].state = "serving" -> [proc EXCEPT ![p].state = "stopping"]
                    [] proc[p].state \in {"loading", "loaded", "other"} ->
                          [proc EXCEPT ![p] = NoProcess]
                    [] OTHER -> proc
    /\ GoTo(s, "wait")
    /\ UNCHANGED <<pidfile, disk>>

\* Slip: the loop has no timeout.
WaitNoKill(s) ==
    /\ At(s, "stop", "wait")
    /\ ~Alive(script[s].pid)
    /\ GoTo(s, "check")
    /\ OnlyScript

\* The loop sees the process gone, or its time is over and it sends SIGKILL; a
\* second later the process is gone, unless the kernel still holds it in a call.
Wait(s) ==
    /\ At(s, "stop", "wait")
    /\ LET p == script[s].pid IN
          \/ ~Alive(p) /\ UNCHANGED proc
          \/ /\ Alive(p)
             /\ \/ proc' = [proc EXCEPT ![p] = NoProcess]
                \/ proc' = [proc EXCEPT ![p].state = IF @ = "other" THEN @ ELSE "killed"]
    /\ GoTo(s, "check")
    /\ UNCHANGED <<pidfile, disk>>

\* Slip: the process is not looked for again after SIGKILL.
CheckNever(s) ==
    /\ At(s, "stop", "check")
    /\ GoTo(s, "unlink")
    /\ OnlyScript

Check(s) ==
    /\ At(s, "stop", "check")
    /\ IF Alive(script[s].pid) THEN Finish(s, "failed") ELSE GoTo(s, "unlink")
    /\ OnlyScript

\* rm -f "$PIDFILE", whatever it names by now.
Unlink(s) ==
    /\ At(s, "stop", "unlink")
    /\ pidfile' = Absent
    /\ Finish(s, "stopped")
    /\ UNCHANGED <<proc, disk>>

\* The user reads what the script said and may run the next one.
Prompt(s) ==
    /\ script[s].pc = "done"
    /\ script' = [script EXCEPT ![s] = NoScript]
    /\ OnlyScript

ScriptStep(s) == \/ FindOld(s) \/ ProbeOld(s) \/ RemoveStale(s) \/ Launch(s) \/ WritePid(s)
                 \/ FindRunning(s) \/ ProbeRunning(s) \/ Term(s) \/ Wait(s) \/ Check(s)
                 \/ Unlink(s)

-----------------------------------------------------------------------------
(* The servers, and the other programs of the machine.                     *)

\* start_server.sh without --daemon becomes the server: no pidfile, no check.
StartForeground(p) ==
    /\ Foreground
    /\ \E port \in Port : Spawn(p, port, "stray")
    /\ OnlyProcess

\* ResourceManager(args.config, args.state), before uvicorn binds.
Load(p) ==
    /\ proc[p].state = "loading"
    /\ proc' = [proc EXCEPT ![p].state = "loaded",
                            ![p].mem = Loaded(Resource, WholeFile(disk))]
    /\ OnlyProcess

\* uvicorn ends the process if the port is taken.
Bind(p) ==
    /\ proc[p].state = "loaded"
    /\ proc' = IF \E q \in Pid : proc[q].state = "serving" /\ proc[q].port = proc[p].port
               THEN [proc EXCEPT ![p] = NoProcess]
               ELSE [proc EXCEPT ![p].state = "serving"]
    /\ OnlyProcess

\* A call that changes the table, saved to the state file all servers share; a
\* server that was told to stop finishes the calls it has accepted.
Serve(p) ==
    /\ proc[p].state \in {"serving", "stopping"}
    /\ LET t == proc[p].mem IN
       \E c \in Principal, ids \in (SUBSET Resource) \ {{}}, operator \in BOOLEAN :
          \E after \in {Reserved(t, ids, c, None), Freed(t, ids)} :
             /\ IF after = Freed(t, ids) THEN CanRelease(t, ids, c, operator)
                                         ELSE CanReserve(t, ids)
             /\ proc' = [proc EXCEPT ![p].mem = after]
             /\ disk' = after
    /\ UNCHANGED <<pidfile, script>>

\* The graceful shutdown is over.
Exit(p) ==
    /\ proc[p].state = "stopping"
    /\ proc' = [proc EXCEPT ![p] = NoProcess]
    /\ OnlyProcess

\* A crash, or the end of a killed process.
Die(p) ==
    /\ proc[p].state \in {"loading", "loaded", "serving", "stopping", "killed"}
    /\ proc' = [proc EXCEPT ![p] = NoProcess]
    /\ OnlyProcess

\* Ctrl-C in the terminal of a foreground server.
Interrupt(p) ==
    /\ proc[p].state = "serving" /\ proc[p].run = "stray"
    /\ proc' = [proc EXCEPT ![p].state = "stopping"]
    /\ OnlyProcess

\* Another program gets the number p, and ends.
OtherTakes(p) ==
    /\ PidReuse
    /\ proc[p].state = "free"
    /\ proc' = [proc EXCEPT ![p] = [NoProcess EXCEPT !.state = "other"]]
    /\ OnlyProcess

OtherEnds(p) ==
    /\ proc[p].state = "other"
    /\ proc' = [proc EXCEPT ![p] = NoProcess]
    /\ OnlyProcess

Next == \/ \E s \in Script : \/ \E kind \in {"start", "stop"} : Begin(s, kind)
                             \/ ScriptStep(s) \/ Prompt(s)
        \/ \E p \in Pid : \/ StartForeground(p) \/ Load(p) \/ Bind(p) \/ Serve(p)
                          \/ Exit(p) \/ Die(p) \/ Interrupt(p)
                          \/ OtherTakes(p) \/ OtherEnds(p)

\* A script runs on once it is started, and so does a server until it listens;
\* nothing makes a server that was told to stop exit by itself.
Spec == Init /\ [][Next]_vars
             /\ \A s \in Script : WF_vars(ScriptStep(s))
             /\ \A p \in Pid : WF_vars(Load(p) \/ Bind(p))

-----------------------------------------------------------------------------
(* Properties.                                                             *)

\* Whatever daemons died and left their pidfile, and whoever has their numbers
\* now, a second daemon is never started beside a first.  (README: "Starting a
\* second daemon while one is already running is refused.")
AtMostOneDaemon == \A p, q \in Pid : DaemonAlive(p) /\ DaemonAlive(q) => p = q

AtRest == \A s \in Script : script[s].pc \in {"idle", "done"}

\* The daemon that serves can be stopped: when no script runs, the pidfile names
\* it, also after starts that were refused and stops that failed.
\* (start_server.sh: "a PID file is written so stop_server.sh can stop it later")
PidfileNamesServer ==
    AtRest => \A p \in Pid : DaemonAlive(p) /\ proc[p].state = "serving" => pidfile = p

\* When stop_server.sh ends with 0 there is no daemon: it is not still finishing
\* its calls, and the next start finds its last word in the state file.
StoppedMeansGone ==
    \A s \in Script : script[s].pc = "done" /\ script[s].says \in {"stopped", "absent"}
                         => \A p \in Pid : ~DaemonAlive(p)

\* A daemon that listens knows every reservation of the state file, and no other,
\* as long as no server is run behind the scripts' back: neither a daemon that was
\* refused nor one that was killed has written the file after it was read.
\* (README: "reservations persist across server restarts via a state file")
MemoryIsFresh ==
    \A p \in Pid : proc[p].state = "serving" /\ proc[p].run = "daemon" /\ proc[p].company = "none"
                      => proc[p].mem = disk

\* Who has what, by the state file.
Holder == [r \in Resource |-> disk[r].owner]

\* The arbiter that all the daemons there ever are make together; the calls here do
\* not tell who is an operator.
Abstract == INSTANCE Arbiter WITH Operator <- Principal, holder <- Holder

Alone(p) == DaemonAlive(p) /\ proc[p].company = "none"

\* A step changes the table of the process p, which goes on.
Answers(p) ==
    /\ proc[p].state \in {"serving", "stopping"} /\ proc'[p].state = proc[p].state
    /\ proc'[p].mem # proc[p].mem

\* A call that such a daemon serves, be it its last, is one grant or release on top
\* of what all the daemons before it have granted: none is lost over a restart, and
\* what is granted was nobody's.
CallsGoOn == [][\A p \in Pid : Alone(p) /\ Answers(p) => Abstract!Next /\ Holder' # Holder]_vars

\* stop_server.sh ends, though the server may never finish its shutdown.
StopEnds == \A s \in Script : At(s, "stop", "find") ~> script[s].pc = "done"
=============================================================================
