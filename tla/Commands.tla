------------------------------ MODULE Commands ------------------------------
(***************************************************************************)
(* The catwaf command: how bin/catwaf.js parses a line and the handlers in *)
(* src/tui/commands.js and configCommands.js decide whether to ask, what   *)
(* to change and which exit code to end with.                              *)
(*                                                                         *)
(* A handler is a plan: the question it asks first, if any, and the        *)
(* outcomes its work may have.  What the services do is in the modules     *)
(* about them; here a change is the name of what is changed.  Between the  *)
(* question and the work others may change the configuration.  Formatting  *)
(* is left out, and setup, docker, doctor, status, logs and help are.      *)
(***************************************************************************)
EXTENDS Integers, Sequences, SequencesExt

CONSTANTS
    Lines,          \* the command lines tried, sequences of Tokens
    MaxOthers       \* bound: changes of the configuration by others

Flags == {"yes", "y", "json", "dry-run", "preview", "reset", "set", "apply", "last", "watch",
          "no-auto", "no-verify", "purge-data", "password", "out", "url"}
Words == {"rules", "enable", "list", "audit", "mode", "monitor", "normal", "bad", "paranoia", "1",
          "3", "config", "snapshot", "restore", "settings", "group", "a=1", "b=1", "bans", "add",
          "lift", "clear", "it", "template", "save", "apply", "remove", "report", "jobs", "run",
          "backup", "now", "cache", "2fa", "enroll", "disable", "user", "role", "provision",
          "uninstall", "auto", "start", "stop", "restart", "explain", "simulate", "replay",
          "health", "security-test", "diff", "false"}
Assignments == {"a=1", "b=1"}

\* A word, --flag, --flag=value, -flag, or -- .
Word(w) == [kind |-> "word", name |-> w]
Bare(f) == [kind |-> "bare", name |-> f]
Given(f, v) == [kind |-> "given", name |-> f, value |-> v]
Short(f) == [kind |-> "short", name |-> f]
Stop == [kind |-> "stop"]
Tokens ==
    {Word(w) : w \in Words} \cup {Bare(f) : f \in Flags} \cup {Short(f) : f \in Flags}
    \cup {Given(f, v) : f \in Flags, v \in Words} \cup {Stop}

CommandsAssumption == (\A l \in Lines : Range(l) \subseteq Tokens) /\ MaxOthers \in Nat

VARIABLES
    line, parsed,   \* what was typed, and how it is understood
    phase,          \* "idle", "asking", "working" or "over"
    plan,           \* what the handler has decided
    answered,       \* the answer to its question
    changed, exit,  \* what the run has changed, and its exit code
    level,          \* the paranoia level
    moot,           \* what is asked for is so already, or cannot be done here
    others          \* changes by others so far

commandVars == <<line, parsed, phase, plan, answered, changed, exit, level, moot, others>>

-----------------------------------------------------------------------------
(* Parsing *)

\* parseArgs: a bare --flag takes the next token for its value unless that begins with a
\* dash; `open` is the flag that still may.
Take(s, t) ==
    IF s.rest
    THEN [s EXCEPT !.args = Append(@, IF t.kind = "word" THEN t.name ELSE "dashed")]
    ELSE CASE t.kind = "word" /\ s.open = "none" -> [s EXCEPT !.args = Append(@, t.name)]
           [] t.kind = "word" -> [s EXCEPT !.flags[s.open] = t.name, !.open = "none"]
           [] t.kind = "given" -> [s EXCEPT !.flags[t.name] = t.value, !.open = "none"]
           [] t.kind = "bare" -> [s EXCEPT !.flags[t.name] = "on", !.open = t.name]
           [] t.kind = "short" -> [s EXCEPT !.flags[t.name] = "on", !.open = "none"]
           [] OTHER -> [s EXCEPT !.rest = TRUE]

ParseArgs(tokens, terminal) ==
    FoldLeft(Take, [flags |-> [f \in Flags |-> "off"], args |-> <<>>, open |-> "none",
                    rest |-> FALSE, tty |-> terminal], tokens)

\* A flag that is there is true, even as --flag=false.
Has(p, f) == p.flags[f] # "off"
Arg(p, i) == IF i <= Len(p.args) THEN p.args[i] ELSE "none"

-----------------------------------------------------------------------------
(* Plans *)

Outcome(changes, code) == [changes |-> changes, exit |-> code]
Plan(asks, outcomes) == [asks |-> asks, outcomes |-> outcomes]

\* Nothing is changed and the code is one of these.
Ends(codes) == Plan(FALSE, {Outcome({}, c) : c \in codes})
Fails == Ends({1})
Shows == Ends({0})
Looks == Ends({0, 1})       \* what is asked for may not be there

\* A change that a service makes or refuses.
Changes(thing) == {Outcome({thing}, 0), Outcome({}, 1)}
Does(thing) == Plan(FALSE, Changes(thing))

\* Wrong variant: without a terminal the answer is yes.
SilenceIsYes(p, thing) == Plan(~(Has(p, "yes") \/ Has(p, "y")) /\ p.tty, Changes(thing))

\* configCommands.js confirm: --yes or -y, else a question, which without a terminal is
\* answered no.
Confirmed(p, thing) ==
    IF Has(p, "yes") \/ Has(p, "y") THEN Does(thing)
    ELSE IF p.tty THEN Plan(TRUE, Changes(thing))
    ELSE Shows

\* catwaf.js confirm knows no -y.
Agreed(p, outcomes) ==
    IF Has(p, "yes") THEN Plan(FALSE, outcomes)
    ELSE IF p.tty THEN Plan(TRUE, outcomes)
    ELSE Shows

\* mode, paranoia and config restore: without a terminal they do not ask at all.
AsksAtTerminal(p, thing) == Plan(~Has(p, "yes") /\ p.tty, Changes(thing))

-----------------------------------------------------------------------------
(* commands.js *)

CmdExplain(p) == Looks
CmdSimulate(p) == IF p.flags["url"] \in {"off", "on"} THEN Fails ELSE Looks
CmdReplay(p) == IF Arg(p, 2) = "none" THEN Fails ELSE Looks

CmdRules(p) ==
    CASE Arg(p, 2) = "list" -> Shows
      [] Arg(p, 2) \in {"enable", "disable"} /\ Arg(p, 3) # "none" -> Does("rules")
      [] OTHER -> Fails

\* The log is read and rotated whatever is asked, even if the window then is no window.
CmdAudit(p) ==
    LET code == IF p.flags["last"] = "bad" THEN 1 ELSE 0
    IN  Plan(FALSE, {Outcome(h, code) : h \in SUBSET {"request log", "audit log"}})

NonBlocking == {"monitor"}
CmdMode(p) ==
    CASE Arg(p, 2) = "none" -> Shows
      [] Arg(p, 2) \notin {"normal", "monitor"} -> Fails
      [] Arg(p, 2) \in NonBlocking -> AsksAtTerminal(p, "mode")
      [] OTHER -> Does("mode")

\* The level to be set.
Target(p) == CASE Arg(p, 2) = "1" -> 1 [] Arg(p, 2) = "3" -> 3 [] OTHER -> 0
CmdParanoia(p) ==
    CASE Arg(p, 2) = "none" -> Shows
      [] Target(p) = 0 -> Fails
      [] Target(p) = level -> Shows
      [] Target(p) > level /\ Target(p) >= 3 -> AsksAtTerminal(p, "level")
      [] OTHER -> Does("level")

\* With --watch until interrupted; else the code is what the checks say.
CmdHealth(p) ==
    IF Has(p, "watch") THEN (IF Has(p, "json") THEN Fails ELSE Shows) ELSE Ends(0..2)
CmdSecurityTest(p) == Ends(0..2)

CmdConfigSub(p) ==
    CASE Arg(p, 2) \in {"none", "list"} -> Shows
      [] Arg(p, 2) = "snapshot" -> Plan(FALSE, {Outcome({"snapshot"}, 0)})
      [] Arg(p, 2) = "diff" /\ Arg(p, 3) # "none" -> Looks
      [] Arg(p, 2) = "restore" /\ Arg(p, 3) = "it" -> AsksAtTerminal(p, "configuration")
      [] OTHER -> Fails

CmdDiff(p) == Looks

\* runProtect: discovery, routes, configuration, proxy and proof.  `catwaf start` serves what
\* is configured already if nothing can be discovered; what discovery finds is open.  Rendering
\* writes files beside the Caddyfile even in a dry run.
RunProtect(p, startConfiguredProxy) ==
    LET dry == Has(p, "dry-run")
        discovery == {Outcome({}, 1)}
                     \cup (IF startConfiguredProxy /\ ~dry
                           THEN {Outcome({"proxy"}, 0), Outcome({}, 0)} ELSE {})
        noApp == {Outcome({}, IF Has(p, "json") /\ ~dry /\ ~Has(p, "no-verify") THEN 1 ELSE 0)}
        noRoutes == {Outcome({}, IF Has(p, "json") /\ (dry \/ Has(p, "no-verify")) THEN 0 ELSE 1)}
        refused == {Outcome(s, 1) : s \in SUBSET {"assets"}}
        planned == {Outcome(s, 0) : s \in SUBSET {"assets"}}
        applied == {Outcome({"routes"}, 0)}
        proven == {Outcome({"routes"} \cup s, c) : s \in SUBSET {"proxy"}, c \in {0, 1}}
    IN  Plan(FALSE, discovery \cup noApp \cup noRoutes \cup refused
                    \cup (CASE dry -> planned [] Has(p, "no-verify") -> applied [] OTHER -> proven))

CmdStartProtect(p) == IF Has(p, "no-auto") THEN Shows ELSE RunProtect(p, TRUE)
CmdAuto(p) == RunProtect(p, FALSE)

-----------------------------------------------------------------------------
(* configCommands.js *)

\* The assignments of a line; a --set, --preview or --reset gives back what it took.
Absorbing == {"set", "preview", "reset"}
AssignmentsOf(p) ==
    Range(SubSeq(p.args, 3, Len(p.args)))
    \cup {p.flags[f] : f \in {g \in Absorbing : p.flags[g] \in Assignments}}

\* A bare --reset resets, whatever else is on the line; a preview renders.
CmdSettings(p) ==
    CASE Arg(p, 2) = "none" -> Shows
      [] Arg(p, 2) \notin {"none", "group"} -> Fails
      [] Arg(p, 2) = "group" /\ p.flags["reset"] = "on" -> Confirmed(p, "defaults")
      [] Arg(p, 2) = "group" /\ p.flags["reset"] # "on" ->
            CASE AssignmentsOf(p) = {} -> Shows
              [] ~(AssignmentsOf(p) \subseteq Assignments) -> Fails
              [] AssignmentsOf(p) # {} /\ AssignmentsOf(p) \subseteq Assignments ->
                    Plan(FALSE, IF Has(p, "preview")
                                THEN {Outcome(s, c) : s \in SUBSET {"assets"}, c \in {0, 1}}
                                ELSE {Outcome(AssignmentsOf(p), 0), Outcome({}, 1)})

CmdBans(p) ==
    CASE Arg(p, 2) \in {"none", "list"} -> Shows
      [] Arg(p, 2) = "add" /\ Arg(p, 3) # "none" -> Does("bans")
      [] Arg(p, 2) = "lift" /\ Arg(p, 3) # "none" ->
            Plan(FALSE, Changes("bans")
                        \cup (IF Has(p, "json") THEN {Outcome({}, 0)} ELSE {}))
      [] Arg(p, 2) = "clear" -> Confirmed(p, "bans")
      [] OTHER -> Fails

\* A dry run comes first, and ends it if nothing would change.
CmdTemplate(p) ==
    CASE Arg(p, 2) \in {"none", "list"} -> Shows
      [] Arg(p, 2) = "save" /\ Arg(p, 3) # "none" -> Does("templates")
      [] Arg(p, 2) = "remove" -> Does("templates")
      [] Arg(p, 2) = "apply" /\ Arg(p, 3) = "it" ->
            IF moot \/ Has(p, "dry-run") THEN Shows ELSE Confirmed(p, "configuration")
      [] OTHER -> Fails

CmdReport(p) ==
    IF Has(p, "out") /\ ~Has(p, "json") THEN Does("file") ELSE Looks

\* A job that fails has done some of its work.
CmdJobs(p) ==
    CASE Arg(p, 2) \in {"none", "list"} -> Shows
      [] Arg(p, 2) = "run" /\ Arg(p, 3) = "it" ->
            Plan(FALSE, {Outcome({"job"}, 0), Outcome({"job"}, 1)})
      [] OTHER -> Fails

\* A backup that is switched off is no failure in JSON.
CmdBackup(p) ==
    CASE Arg(p, 2) \in {"none", "list"} -> Looks
      [] Arg(p, 2) = "restore" /\ Arg(p, 3) = "it" -> Does("configuration")
      [] Arg(p, 2) \in {"now", "run"} ->
            IF Has(p, "dry-run") THEN Looks
            ELSE Plan(FALSE, Changes("backup")
                             \cup (IF Has(p, "json") THEN {Outcome({}, 0)} ELSE {}))
      [] OTHER -> Fails

CmdCache(p) ==
    CASE Arg(p, 2) \in {"none", "list"} -> Shows
      [] Arg(p, 2) \in {"clear", "refresh"} /\ Arg(p, 3) # "none" -> Does("cache")
      [] OTHER -> Fails

\* resolveUser may find no account, or too many.
CmdTwoFactor(p) ==
    CASE moot -> Fails
      [] Arg(p, 2) = "none" -> Shows
      [] Arg(p, 2) = "enroll" -> Does("second factor")
      [] Arg(p, 2) = "disable" -> Confirmed(p, "second factor")
      [] OTHER -> Fails

-----------------------------------------------------------------------------
(* catwaf.js *)

CmdUser(p) ==
    CASE Arg(p, 2) = "list" -> Shows
      [] Arg(p, 2) \in {"add", "passwd"} ->
            IF Arg(p, 3) # "none" /\ p.flags["password"] \notin {"off", "on"}
            THEN Does("accounts") ELSE Fails
      [] Arg(p, 2) = "role" /\ Arg(p, 4) # "none" -> Does("accounts")
      [] Arg(p, 2) = "remove" /\ Arg(p, 3) # "none" -> Agreed(p, Changes("accounts"))
      [] OTHER -> Fails

\* There may be nothing to plan for or no way to apply it; without --apply it is shown.  A
\* reload or a link that fails is only a warning.
CmdProvision(p) ==
    IF Has(p, "apply") /\ ~moot THEN Agreed(p, Changes("site")) ELSE Looks

\* Every part is tried, whatever became of the others; data only with --purge-data and a
\* second yes.
CmdUninstall(p) ==
    LET parts == {"server", "unit", "shim", "routes"}
        refused == ~Has(p, "purge-data") \/ ~Has(p, "yes")
        tried == {Outcome(s, 1) : s \in SUBSET parts}
                 \cup {Outcome(s, 0) : s \in IF refused THEN SUBSET parts ELSE {}}
        purged == {Outcome(s \cup {"data"}, c) : s \in SUBSET parts, c \in {0, 1}}
    IN  Agreed(p, IF Has(p, "purge-data") THEN tried \cup purged ELSE tried)

\* A protection that throws is no failure of `start`.
AutoProtectAfterStart(p) == CmdStartProtect(p).outcomes \cup {Outcome({}, 0)}

\* `start` starts the server, or with Lite the proxy, waits for an answer and protects; a dry
\* run is one of the protection only.
CmdStart(p) ==
    LET after == AutoProtectAfterStart(p)
    IN  Plan(FALSE, Ends({0, 1, 3}).outcomes \cup {Outcome({"server"}, 1)}
                    \cup {[o EXCEPT !.changes = @ \cup s] : o \in after,
                                                           s \in {{}, {"server"}, {"proxy"}}})
CmdStop(p) == Plan(FALSE, Changes("server") \cup {Outcome({}, 0)})
CmdRestart(p) == Plan(FALSE, Changes("server") \cup {Outcome({"server"}, 1)})

\* main's switch: an unknown command is a usage error.
Dispatch(p) ==
    LET command == Arg(p, 1)
    IN  CASE command = "explain" -> CmdExplain(p)   [] command = "simulate" -> CmdSimulate(p)
          [] command = "replay" -> CmdReplay(p)     [] command = "rules" -> CmdRules(p)
          [] command = "audit" -> CmdAudit(p)       [] command = "mode" -> CmdMode(p)
          [] command = "paranoia" -> CmdParanoia(p) [] command = "health" -> CmdHealth(p)
          [] command = "security-test" -> CmdSecurityTest(p)
          [] command = "config" -> CmdConfigSub(p)  [] command = "diff" -> CmdDiff(p)
          [] command = "auto" -> CmdAuto(p)         [] command = "settings" -> CmdSettings(p)
          [] command = "bans" -> CmdBans(p)         [] command = "template" -> CmdTemplate(p)
          [] command = "report" -> CmdReport(p)     [] command = "jobs" -> CmdJobs(p)
          [] command = "backup" -> CmdBackup(p)     [] command = "cache" -> CmdCache(p)
          [] command = "2fa" -> CmdTwoFactor(p)     [] command = "user" -> CmdUser(p)
          [] command = "provision" -> CmdProvision(p)
          [] command = "uninstall" -> CmdUninstall(p)
          [] command = "start" -> CmdStart(p)       [] command = "stop" -> CmdStop(p)
          [] command = "restart" -> CmdRestart(p)   [] command = "none" -> Shows
          [] OTHER -> Ends({2})

-----------------------------------------------------------------------------
(* A run *)

Nothing == Shows
CommandsInit ==
    /\ line = <<>> /\ parsed = ParseArgs(<<>>, FALSE) /\ phase = "idle" /\ plan = Nothing /\ answered = "not asked"
    /\ changed = {} /\ exit = 0 /\ level \in {1, 3} /\ moot \in BOOLEAN /\ others = 0

Invoke(l, terminal) ==
    /\ line' = l /\ parsed' = ParseArgs(l, terminal)
    /\ plan' = Dispatch(parsed')
    /\ phase' = IF plan'.asks THEN "asking" ELSE "working"
    /\ UNCHANGED <<answered, changed, exit, level, moot, others>>

\* Whatever is not y or yes cancels, and that is no failure.
Answer(a) ==
    /\ phase = "asking" /\ answered' = a
    /\ phase' = IF a = "yes" THEN "working" ELSE "over"
    /\ UNCHANGED <<line, parsed, plan, changed, exit, level, moot, others>>

\* The work and the exit code.
Work ==
    /\ phase = "working" /\ phase' = "over"
    /\ \E o \in plan.outcomes :
          /\ changed' = o.changes /\ exit' = o.exit
          /\ level' = IF "level" \in o.changes THEN Target(parsed) ELSE level
    /\ UNCHANGED <<line, parsed, plan, answered, moot, others>>

\* The dashboard or another command.
Others ==
    /\ phase = "asking" /\ others < MaxOthers /\ others' = others + 1
    /\ \/ level' = 4 - level /\ UNCHANGED moot
       \/ moot' = ~moot /\ UNCHANGED level
    /\ UNCHANGED <<line, parsed, phase, plan, answered, changed, exit>>

CommandsNext ==
    \/ phase = "idle" /\ \E l \in Lines, terminal \in BOOLEAN : Invoke(l, terminal)
    \/ \E a \in {"yes", "no"} : Answer(a)
    \/ Work \/ Others

Things == {"request log", "audit log", "rules", "mode", "level", "configuration", "snapshot",
           "proxy", "routes", "assets", "defaults", "bans", "templates", "file", "job",
           "backup", "cache", "second factor", "accounts", "site", "server", "unit", "shim",
           "data"} \cup Assignments

CommandsTypeOK ==
    /\ DOMAIN parsed.flags = Flags /\ parsed.tty \in BOOLEAN
    /\ phase \in {"idle", "asking", "working", "over"}
    /\ plan.asks \in BOOLEAN
    /\ \A o \in plan.outcomes : o.changes \subseteq Things /\ o.exit \in 0..3
    /\ answered \in {"not asked", "yes", "no"}
    /\ changed \subseteq Things /\ exit \in 0..3 /\ level \in {1, 3} /\ moot \in BOOLEAN
    /\ others \in 0..MaxOthers

-----------------------------------------------------------------------------
(* Properties *)

\* A flag that was typed, before any -- .
Typed(f) ==
    \E i \in DOMAIN line : /\ line[i].kind \in {"bare", "given"} /\ line[i].name = f
                           /\ \A j \in 1..i : line[j].kind # "stop"
Is(i, words) == Arg(parsed, i) \in words

\* What changes only if it was agreed to: on the line or at the question.  mode, paranoia and
\* config restore ask only at a terminal, and paranoia goes by the level it found.
MustAgree(things) ==
    \/ things \cap {"defaults", "site", "data", "unit", "shim"} # {}
    \/ "bans" \in things /\ Is(2, {"clear"})
    \/ "configuration" \in things /\ Is(1, {"template"})
    \/ "configuration" \in things /\ Is(1, {"config"}) /\ parsed.tty
    \/ "second factor" \in things /\ Is(2, {"disable"})
    \/ "accounts" \in things /\ Is(2, {"remove"})
    \/ "mode" \in things /\ Is(2, {"monitor"}) /\ parsed.tty
    \/ "level" \in things /\ level' > level /\ level' >= 3 /\ parsed.tty /\ others = 0
AgreedTo == answered = "yes" \/ Typed("yes") \/ \E i \in DOMAIN line : line[i] = Short("y")
NothingUnasked == [][MustAgree(changed') => AgreedTo]_commandVars

\* A dry run or a preview changes nothing but the files rendering writes; but `start` has
\* started the server by then, and a reset takes no notice of --preview.
DryRunsAreDry ==
    /\ Typed("dry-run") /\ Is(1, {"auto", "template"}) /\ Is(2, {"none", "apply"})
            => changed \subseteq {"assets"}
    /\ Typed("dry-run") /\ Is(1, {"backup"}) /\ Is(2, {"now"}) => changed = {}
    /\ Typed("dry-run") /\ Is(1, {"start"}) => "routes" \notin changed
    /\ Typed("preview") /\ Is(1, {"settings"}) =>
            changed \subseteq {"assets"} \/ parsed.flags["reset"] = "on"

\* Success is done, was so already, or was called off; without a terminal a question is
\* called off.  Lifting what is not banned and a backup that is switched off are a success
\* in JSON.
Once == {"rules", "mode", "paranoia", "template", "2fa", "bans", "backup"}
Verbs == {"enable", "monitor", "normal", "1", "3", "apply", "save", "remove", "enroll", "disable",
          "add", "lift", "clear", "now"}
SuccessIsDone ==
    phase = "over" /\ exit = 0 /\ changed = {}
            /\ Is(1, Once) /\ Is(2, Verbs) /\ ~Typed("dry-run") =>
        \/ answered = "no" \/ (~AgreedTo /\ ~parsed.tty)
        \/ moot \/ others > 0 \/ Target(parsed) = level
        \/ Typed("json") /\ Is(2, {"lift", "now"})

\* What failed has changed nothing, but for what consists of several steps.
InSteps == {"audit", "jobs", "auto", "start", "restart", "uninstall", "settings"}
FailureIsClean ==
    phase = "over" /\ exit # 0 /\ changed # {} =>
        /\ Is(1, InSteps)
        /\ Is(1, {"settings"}) => changed = {"assets"}

\* An assignment is applied with the others, unless a bare flag that takes it for its value
\* is none of --set, --preview and --reset, or is given again.
Swallowed(i) ==
    /\ i > 1 /\ line[i - 1].kind = "bare"
    /\ \/ line[i - 1].name \notin Absorbing
       \/ \E j \in i..Len(line) : line[j].kind = "bare" /\ line[j].name = line[i - 1].name
NothingTypedIsLost ==
    phase = "over" /\ exit = 0 /\ Is(1, {"settings"}) /\ Is(2, {"group"})
            /\ ~Typed("preview") /\ parsed.flags["reset"] # "on" =>
        changed = {line[i].name : i \in {j \in DOMAIN line : /\ line[j].kind = "word"
                                                            /\ line[j].name \in Assignments
                                                            /\ ~Swallowed(j)}}

CommandsHold == DryRunsAreDry /\ SuccessIsDone /\ FailureIsClean /\ NothingTypedIsLost

=============================================================================
