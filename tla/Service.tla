------------------------------- MODULE Service -------------------------------
(***************************************************************************)
(* Starting and stopping the API server from the CLI (src/tui/service.js,  *)
(* cmdStart, cmdStop and cmdRestart of bin/catwaf.js), as a process named  *)
(* by a pid file and, once a unit is installed, by systemd.                *)
(*                                                                         *)
(* Operators run commands that die anywhere; servers end by themselves,    *)
(* and the system gives their numbers to other programs.  What a server    *)
(* does when it is up is in the other modules.                             *)
(***************************************************************************)
EXTENDS Naturals, FiniteSets

CONSTANTS
    Operators,
    Pids, NoPid,
    MaxCommands     \* bound: commands begun

ServiceAssumption == NoPid \notin Pids /\ MaxCommands \in Nat

VARIABLES
    process,        \* Pids -> what runs under the number
    port,           \* the server that listens
    pidFile,
    systemd,        \* catwaf.service is installed
    main,           \* ... and the process systemd started
    command,        \* Operators -> the command under way
    commands,       \* commands begun
    apart           \* history: two commands were under way at a time, one died, or the manager
                    \* changed while a server ran

serviceVars == <<process, port, pidFile, systemd, main, command, commands, apart>>

Programs == {"none", "booting", "server", "ending", "node", "other"}
Ours == {"booting", "server", "ending"}
NoCommand == [at |-> "none"]
Places == {"begin", "spawned", "waiting", "ending", "answered"}

ServiceTypeOK ==
    /\ process \in [Pids -> Programs]
    /\ {port, pidFile, main} \subseteq Pids \cup {NoPid}
    /\ systemd \in BOOLEAN /\ apart \in BOOLEAN /\ commands \in 0..MaxCommands
    /\ \A o \in Operators : command[o] # NoCommand =>
        /\ command[o].name \in {"start", "stop", "restart"} /\ command[o].at \in Places
        /\ command[o].pid \in Pids \cup {NoPid}

ServiceInit ==
    /\ process = [p \in Pids |-> "none"]
    /\ port = NoPid /\ pidFile = NoPid /\ systemd = FALSE /\ main = NoPid
    /\ command = [o \in Operators |-> NoCommand] /\ commands = 0 /\ apart = FALSE

Alive(p) == p # NoPid /\ process[p] # "none"
Is(o, at) == command[o] # NoCommand /\ command[o].at = at
Busy == {o \in Operators : command[o] # NoCommand /\ command[o].at # "answered"}

Set(o, at) == command' = [command EXCEPT ![o].at = at]
Say(o, said) == command' = [command EXCEPT ![o].at = "answered", ![o].said = said]

-----------------------------------------------------------------------------
(* Processes *)

Gone(p) ==
    /\ process' = [process EXCEPT ![p] = "none"]
    /\ port' = IF port = p THEN NoPid ELSE port
    /\ main' = IF main = p THEN NoPid ELSE main

\* A server that finds its port taken ends.
Boots(p) ==
    /\ process[p] = "booting"
    /\ \/ port = NoPid /\ port' = p /\ process' = [process EXCEPT ![p] = "server"] /\ UNCHANGED main
       \/ port # NoPid /\ Gone(p)
    /\ UNCHANGED <<pidFile, systemd, command, commands, apart>>

\* Anything may end, and systemd's restarts of what fails are left out.
Ends(p) ==
    /\ process[p] # "none" /\ Gone(p)
    /\ UNCHANGED <<pidFile, systemd, command, commands, apart>>

Reboot ==
    /\ Busy = {} /\ process # [p \in Pids |-> "none"]
    /\ process' = [p \in Pids |-> "none"] /\ port' = NoPid /\ main' = NoPid /\ apart' = FALSE
    /\ UNCHANGED <<pidFile, systemd, command, commands>>

\* The number of a process that is gone, and that no command waits for, goes to somebody else.
Reused(p) ==
    /\ process[p] = "none" /\ pidFile = p /\ \A o \in Busy : command[o].pid # p
    /\ \E other \in {"node", "other"} : process' = [process EXCEPT ![p] = other]
    /\ UNCHANGED <<port, pidFile, systemd, main, command, commands, apart>>

\* A setup installs the unit.
Install ==
    /\ ~systemd /\ Busy = {} /\ systemd' = TRUE
    /\ apart' = (apart \/ \E p \in Pids : process[p] \in Ours)
    /\ UNCHANGED <<process, port, pidFile, main, command, commands>>

-----------------------------------------------------------------------------
(* Commands *)

Issue(o, name) ==
    /\ o \notin Busy /\ commands < MaxCommands /\ commands' = commands + 1
    /\ command' = [command EXCEPT ![o] = [name |-> name, at |-> "begin", pid |-> NoPid,
                                          said |-> "nothing"]]
    /\ apart' = (apart \/ Busy # {})
    /\ UNCHANGED <<process, port, pidFile, systemd, main>>

Dies(o) ==
    /\ o \in Busy /\ command' = [command EXCEPT ![o] = NoCommand]
    /\ apart' = (apart \/ command[o].at = "spawned")
    /\ UNCHANGED <<process, port, pidFile, systemd, main, commands>>

\* status(): by systemd or by the pid file, which is removed when its process is gone.
Running == IF systemd THEN main ELSE pidFile
Cleared == IF systemd \/ Alive(pidFile) THEN pidFile ELSE NoPid

\* start(): systemctl starts its own, else a process is spawned and only then recorded.
Start(o) ==
    /\ Is(o, "begin") /\ command[o].name = "start"
    /\ IF Alive(Running)
       THEN Say(o, "already running") /\ UNCHANGED <<process, main>>
       ELSE \E p \in Pids :
               /\ process[p] = "none" /\ process' = [process EXCEPT ![p] = "booting"]
               /\ main' = IF systemd THEN p ELSE main
               /\ command' = [command EXCEPT ![o].pid = p,
                                             ![o].at = IF systemd THEN "waiting" ELSE "spawned"]
    /\ pidFile' = Cleared
    /\ UNCHANGED <<port, systemd, commands, apart>>

Record(o) ==
    /\ Is(o, "spawned") /\ Set(o, "waiting")
    /\ pidFile' = command[o].pid
    /\ UNCHANGED <<process, port, systemd, main, commands, apart>>

\* waitUntilReady: whoever answers on the port will do; else the process is gone, or time is up.
Waited(o) ==
    /\ Is(o, "waiting")
    /\ Say(o, IF port # NoPid THEN "started" ELSE "not answering")
    /\ UNCHANGED <<process, port, pidFile, systemd, main, commands, apart>>

\* pidLooksLikeCatwaf: any command line with `node` in it does.
LooksLikeCatwaf(p) == p # NoPid /\ process[p] \in Ours \cup {"node"}

\* A restart goes on with start() once stop() has gone well.
Stopped(o) ==
    IF command[o].name = "restart" THEN command' = [command EXCEPT ![o].name = "start", ![o].at = "begin"]
                                   ELSE Say(o, "stopped")

\* stop(): nothing runs, or what runs is not ours: the pid file is removed.
StopNothing(o) ==
    /\ Is(o, "begin") /\ command[o].name \in {"stop", "restart"}
    /\ ~Alive(Running) \/ (~systemd /\ ~LooksLikeCatwaf(pidFile))
    /\ pidFile' = NoPid /\ Stopped(o)
    /\ UNCHANGED <<process, port, systemd, main, commands, apart>>

\* SIGTERM, in the same breath as the look at whose number it is; a program that is asked to
\* end may take its time.
Stop(o) ==
    /\ Is(o, "begin") /\ command[o].name \in {"stop", "restart"}
    /\ Alive(Running) /\ (systemd \/ LooksLikeCatwaf(pidFile))
    /\ process' = [process EXCEPT ![Running] = "ending"]
    /\ command' = [command EXCEPT ![o].pid = Running, ![o].at = "ending"]
    /\ UNCHANGED <<port, pidFile, systemd, main, commands, apart>>

\* Eight seconds are over: SIGKILL.
Kill(o) ==
    /\ Is(o, "ending") /\ process[command[o].pid] = "ending"
    /\ Gone(command[o].pid)
    /\ UNCHANGED <<pidFile, systemd, command, commands, apart>>

Ended(o) ==
    /\ Is(o, "ending") /\ process[command[o].pid] = "none"
    /\ pidFile' = IF systemd THEN pidFile ELSE NoPid
    /\ Stopped(o)
    /\ UNCHANGED <<process, port, systemd, main, commands, apart>>

ServiceNext ==
    \/ Reboot \/ Install
    \/ \E p \in Pids : Boots(p) \/ Ends(p) \/ Reused(p)
    \/ \E o \in Operators :
        \/ \E n \in {"start", "stop", "restart"} : Issue(o, n)
        \/ Dies(o) \/ Start(o) \/ Record(o) \/ Waited(o)
        \/ StopNothing(o) \/ Stop(o) \/ Kill(o) \/ Ended(o)

-----------------------------------------------------------------------------
(* Properties *)

\* While no command is under way the server that listens is the one that the next command
\* will find.
ServerIsKnown == ~apart /\ Busy = {} /\ port # NoPid => Running = port

\* What a command says is so: a server it started listens, and after a stop nothing does.
AnswersAreTrue ==
    [][\A o \in Operators : ~apart /\ command'[o] # command[o] /\ command'[o] # NoCommand =>
        /\ command'[o].said = "started" => port = command[o].pid
        /\ command'[o].said = "stopped" => port = NoPid]_serviceVars

\* A number that was given to somebody else is not signalled (service.js:49), unless it went
\* to another program run by node.
StrangersAreLeftAlone ==
    [][\A p \in Pids : process[p] = "other" => process'[p] # "ending"]_serviceVars

=============================================================================
