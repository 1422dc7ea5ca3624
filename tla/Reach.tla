------------------------------- MODULE Reach --------------------------------
(***************************************************************************)
(* Whether what CatWAF has put in front of an application is in the way of *)
(* its visitors: a run of proxy/protect.js finds an upstream that its Caddy*)
(* can reach for each application (network.js), attaches the Caddy         *)
(* container to a network if it must, applies the routes, and then proves  *)
(* each one with two requests, one that has to be served and one that has  *)
(* to be refused (verify.js).                                              *)
(*                                                                         *)
(* Caddy runs in a container or on the host.  Between any two steps an     *)
(* application may be recreated, stopped or started, the Caddy container   *)
(* recreated, Caddy stopped, the engine switched to DetectionOnly and back,*)
(* and another run may attach a network.  Which ports the routes get is in *)
(* AutoRoutes, what an application is in Discovery.                        *)
(***************************************************************************)
EXTENDS Naturals, Sequences, FiniteSets, SequencesExt

CONSTANTS
    Apps,           \* the applications, a sequence in the order of discovery
    Service,        \* application -> the name it goes by in Docker's DNS
    AppNetworks,    \* application -> the networks it is on, a sequence
    Published,      \* applications with a port of the host
    Routable,       \* networks whose addresses the host can route to
    ProxyNetworks,  \* the networks of a new Caddy container
    NoRoute,
    MaxChanges      \* bound: changes of the world

App == Range(Apps)
Networks == UNION {Range(AppNetworks[a]) : a \in App}
ReachAssumption ==
    /\ \A a \in App : AppNetworks[a] \in Seq(STRING) /\ AppNetworks[a] # <<>>
    /\ Published \subseteq App /\ MaxChanges \in Nat

VARIABLES
    proxyAt,        \* "container" or "host"
    joined,         \* the networks that the Caddy container is on
    born,           \* application -> how often its container was made: its address
    up,             \* the applications that run
    page,           \* application -> "serves", "refuses" or "fails" whatever it is asked
    engine,         \* "On" or "DetectionOnly"
    caddy, live,    \* Caddy runs, and application -> the upstream it has for it
    run,            \* the run of protect()
    results,        \* application -> what is reported of it
    changes,        \* changes so far
    disturbed,      \* history: something has changed since the run began
    troubled        \* history: a connection, a probe, a reload or a start of the run failed

reachVars == <<proxyAt, joined, born, up, page, engine, caddy, live, run, results, changes,
               disturbed, troubled>>
worldVars == <<proxyAt, born, up, page, engine>>

ByName(a) == [kind |-> "name", name |-> Service[a]]
Loopback(a) == [kind |-> "loopback", app |-> a]
Address(a) == [kind |-> "address", app |-> a, born |-> born[a]]
Upstreams == [kind : {"name"}, name : Range(Service)] \cup [kind : {"loopback"}, app : App]
             \cup [kind : {"address"}, app : App, born : 0..MaxChanges]
NoRoutes == [a \in App |-> NoRoute]
NoResults == [a \in App |-> "none"]

\* The applications a request to an upstream may come to, from where Caddy is.  In a container
\* 127.0.0.1 is the container.
Reaches(u) ==
    {a \in up :
        \/ /\ u.kind = "name" /\ proxyAt = "container"
           /\ Service[a] = u.name /\ Range(AppNetworks[a]) \cap joined # {}
        \/ u.kind = "loopback" /\ proxyAt = "host" /\ u.app = a /\ a \in Published
        \/ /\ u.kind = "address" /\ u.app = a /\ u.born = born[a]
           /\ Range(AppNetworks[a]) \cap (IF proxyAt = "host" THEN Routable ELSE joined) # {}}

Resting == [at |-> "rest"]
Run(at, todo, nets, routes, dry) ==
    [at |-> at, todo |-> todo, nets |-> nets, routes |-> routes, dry |-> dry]

ReachInit ==
    /\ proxyAt \in {"container", "host"} /\ joined = ProxyNetworks
    /\ born = [a \in App |-> 0] /\ up = App /\ page = [a \in App |-> "serves"] /\ engine = "On"
    /\ caddy \in BOOLEAN /\ live = NoRoutes
    /\ run = Resting /\ results = NoResults
    /\ changes = 0 /\ disturbed = FALSE /\ troubled = FALSE

-----------------------------------------------------------------------------
(* network.js *)

\* protect(), describeProxy(): the networks of the Caddy container are read once.
Begin(dry) ==
    /\ run.at \in {"rest", "over"}
    /\ run' = Run("plan", Apps, joined, NoRoutes, dry)
    /\ results' = NoResults /\ disturbed' = FALSE /\ troubled' = FALSE
    /\ UNCHANGED <<worldVars, joined, caddy, live, changes>>

Planning(a) == run.at = "plan" /\ run.todo # <<>> /\ a = Head(run.todo)
Routed(a, u) == [run EXCEPT !.at = "plan", !.todo = Tail(@), !.routes[a] = u]
Unreachable == [run EXCEPT !.at = "plan", !.todo = Tail(@)]
NetworkOf(a) == AppNetworks[a][1]

\* A container goes by the name of the service on a network that both are on, or, in a dry
\* run, would be on.
UseName(a) ==
    /\ Planning(a) /\ proxyAt = "container"
    /\ Range(AppNetworks[a]) \cap run.nets # {} \/ run.dry
    /\ run' = Routed(a, ByName(a))
    /\ UNCHANGED <<worldVars, joined, caddy, live, results, changes, disturbed, troubled>>

\* attachToNetwork: if the first network of the application is there by now, nothing is done.
Attach(a) ==
    /\ Planning(a) /\ proxyAt = "container" /\ ~run.dry
    /\ Range(AppNetworks[a]) \cap run.nets = {}
    /\ run' = IF NetworkOf(a) \in joined
              THEN [Routed(a, ByName(a)) EXCEPT !.nets = @ \cup {NetworkOf(a)}]
              ELSE [run EXCEPT !.at = "connect"]
    /\ UNCHANGED <<worldVars, joined, caddy, live, results, changes, disturbed, troubled>>

Connected(a) == [Routed(a, ByName(a)) EXCEPT !.nets = @ \cup {NetworkOf(a)}]
Connect(a) ==
    /\ run.at = "connect" /\ a = Head(run.todo)
    /\ joined' = joined \cup {NetworkOf(a)} /\ run' = Connected(a)
    /\ UNCHANGED <<worldVars, caddy, live, results, changes, disturbed, troubled>>

\* An address of a container on a network that the host can route to, if a connection to it
\* succeeds; one that could have may time out.
TryAddress(a) ==
    LET answers == a \in up /\ Range(AppNetworks[a]) \cap Routable # {}
    IN  \/ answers /\ run' = Routed(a, Address(a)) /\ UNCHANGED troubled
        \/ run' = Unreachable /\ troubled' = (troubled \/ answers)

\* Wrong variant: the host knows Docker's names.
NameFromHost(a) == run' = Routed(a, ByName(a)) /\ UNCHANGED troubled

\* What the host can reach: the port of the host, or else an address.
UseHostPath(a) ==
    IF a \in Published THEN run' = Routed(a, Loopback(a)) /\ UNCHANGED troubled
    ELSE TryAddress(a)

FromHost(a) ==
    /\ Planning(a) /\ proxyAt = "host" /\ UseHostPath(a)
    /\ UNCHANGED <<worldVars, joined, caddy, live, results, changes, disturbed>>

\* A connection that fails is none if the network is there after all; else the path is one
\* from the host.
FailToConnect(a) ==
    /\ run.at = "connect" /\ a = Head(run.todo)
    /\ IF NetworkOf(a) \in joined THEN run' = Connected(a) /\ UNCHANGED troubled
       ELSE /\ run' = IF a \in Published THEN Routed(a, Loopback(a))
                      ELSE IF a \in up /\ Range(AppNetworks[a]) \cap Routable # {}
                      THEN Routed(a, Address(a)) ELSE Unreachable
            /\ troubled' = TRUE
    /\ UNCHANGED <<worldVars, joined, caddy, live, results, changes, disturbed>>

-----------------------------------------------------------------------------
(* protect.js *)

Finish == [run EXCEPT !.at = "over"]
Planned == run.at = "plan" /\ run.todo = <<>>
RoutedApps == SelectSeq(Apps, LAMBDA a : run.routes[a] # NoRoute)

\* Without a route, in a dry run, or if the new configuration is refused, nothing changes.
KeepAsItIs ==
    /\ Planned /\ run' = Finish
    /\ troubled' = (troubled \/ (~run.dry /\ run.routes # NoRoutes))
    /\ UNCHANGED <<worldVars, joined, caddy, live, results, changes, disturbed>>

\* The routes are live after a reload, or after Caddy has been started.
GoLive ==
    /\ Planned /\ ~run.dry /\ run.routes # NoRoutes
    /\ caddy' = TRUE /\ live' = run.routes
    /\ run' = [run EXCEPT !.at = "benign", !.todo = RoutedApps]
    /\ UNCHANGED <<worldVars, joined, results, changes, disturbed, troubled>>

\* A reload that fails, or a Caddy that does not start: no route is protected yet.
NotLive ==
    /\ Planned /\ ~run.dry /\ run.routes # NoRoutes
    /\ run' = Finish /\ troubled' = TRUE
    /\ results' = [a \in App |-> IF run.routes[a] = NoRoute THEN "none" ELSE "not live"]
    /\ UNCHANGED <<worldVars, joined, caddy, live, changes, disturbed>>

-----------------------------------------------------------------------------
(* verify.js *)

Report(a, result) ==
    /\ results' = [results EXCEPT ![a] = result]
    /\ run' = [run EXCEPT !.todo = Tail(@), !.at = IF Len(run.todo) = 1 THEN "over" ELSE "benign"]

\* The answers that a request through Caddy may get, if it is let through.
Answers(a) ==
    IF ~caddy \/ live[a] = NoRoute THEN {"nothing"}
    ELSE IF Reaches(live[a]) = {} THEN {"502"}
    ELSE {page[b] : b \in Reaches(live[a])}

\* The page is asked for until somebody answers; any answer will do but a 502, 503 or 504.
ProbeBenign(a) ==
    /\ run.at = "benign" /\ a = Head(run.todo)
    /\ \E answer \in Answers(a) :
         CASE answer = "nothing" -> Report(a, "silent")
           [] answer \in {"502", "fails"} -> Report(a, "upstream unreachable")
           [] OTHER -> run' = [run EXCEPT !.at = "attack"] /\ UNCHANGED results
    /\ UNCHANGED <<worldVars, joined, caddy, live, changes, disturbed, troubled>>

\* A refusal is Coraza's, or the application's own.
ProbeAttack(a) ==
    /\ run.at = "attack" /\ a = Head(run.todo)
    /\ \E answer \in IF caddy /\ engine = "On" THEN {"refuses"} ELSE Answers(a) :
         CASE answer = "nothing" -> Report(a, "probe failed")
           [] answer = "refuses" -> Report(a, "protected")
           [] answer \in {"serves", "502", "fails"} -> Report(a, "bypassed")
    /\ UNCHANGED <<worldVars, joined, caddy, live, changes, disturbed, troubled>>

-----------------------------------------------------------------------------
(* The world *)

Change == changes < MaxChanges /\ changes' = changes + 1 /\ disturbed' = TRUE
Recreate(a) == born' = [born EXCEPT ![a] = @ + 1] /\ up' = up \cup {a}
               /\ UNCHANGED <<page, engine, joined, caddy, live>>
StopApp(a) == a \in up /\ up' = up \ {a} /\ UNCHANGED <<born, page, engine, joined, caddy, live>>
Restyle(a, p) == page' = [page EXCEPT ![a] = p]
                 /\ UNCHANGED <<born, up, engine, joined, caddy, live>>
SwitchEngine == engine' = (IF engine = "On" THEN "DetectionOnly" ELSE "On")
                /\ UNCHANGED <<born, up, page, joined, caddy, live>>
RecreateProxy == proxyAt = "container" /\ joined' = ProxyNetworks
                 /\ UNCHANGED <<born, up, page, engine, caddy, live>>
OtherAttaches(n) == proxyAt = "container" /\ joined' = joined \cup {n}
                    /\ UNCHANGED <<born, up, page, engine, caddy, live>>
StopCaddy == caddy' = FALSE /\ live' = NoRoutes /\ UNCHANGED <<born, up, page, engine, joined>>
WorldChanges ==
    /\ Change /\ UNCHANGED <<proxyAt, run, results, troubled>>
    /\ \/ \E a \in App : Recreate(a) \/ StopApp(a)
       \/ \E a \in App, p \in {"serves", "refuses", "fails"} : Restyle(a, p)
       \/ SwitchEngine \/ RecreateProxy \/ StopCaddy
       \/ \E n \in Networks : OtherAttaches(n)

RunStep(a) ==
    \/ UseName(a) \/ Attach(a) \/ Connect(a) \/ FailToConnect(a) \/ FromHost(a)
    \/ ProbeBenign(a) \/ ProbeAttack(a)

ReachNext ==
    \/ \E dry \in BOOLEAN : Begin(dry)
    \/ \E a \in App : RunStep(a)
    \/ KeepAsItIs \/ GoLive \/ NotLive
    \/ WorldChanges

ReachTypeOK ==
    /\ proxyAt \in {"container", "host"} /\ joined \subseteq Networks \cup ProxyNetworks
    /\ born \in [App -> 0..MaxChanges] /\ up \subseteq App
    /\ page \in [App -> {"serves", "refuses", "fails"}] /\ engine \in {"On", "DetectionOnly"}
    /\ caddy \in BOOLEAN /\ Range(live) \subseteq Upstreams \cup {NoRoute}
    /\ \/ run = Resting
       \/ /\ run.at \in {"plan", "connect", "benign", "attack", "over"}
          /\ run.dry \in BOOLEAN /\ IsSuffix(run.todo, run.todo)
          /\ Range(run.routes) \subseteq Upstreams \cup {NoRoute}
    /\ results \in [App -> {"none", "not live", "silent", "upstream unreachable",
                            "probe failed", "bypassed", "protected"}]
    /\ changes \in 0..MaxChanges /\ disturbed \in BOOLEAN /\ troubled \in BOOLEAN

-----------------------------------------------------------------------------
(* Properties *)

\* Two services of one name on networks that Caddy is on cannot be told apart.
Alone(a) ==
    \A b \in App \ {a} : Service[b] = Service[a] => Range(AppNetworks[b]) \cap joined = {}

\* While nothing changes, a route leads to its application and to no other, whatever Caddy
\* runs in, unless the Caddy container could not be attached.
RoutesReach ==
    run.at \in {"benign", "attack"} /\ ~disturbed =>
        \A a \in up : run.routes[a] # NoRoute /\ (proxyAt = "host" \/ Alone(a)) =>
            \/ Reaches(run.routes[a]) = {a}
            \/ proxyAt = "container" /\ run.routes[a].kind # "name"

\* What is reported as protected, and nothing has changed meanwhile, is served through Caddy,
\* and the engine blocks; but an application that refuses everything passes for protected.
ProtectedIsProved ==
    ~disturbed => \A a \in App : results[a] = "protected" =>
        /\ caddy /\ live[a] # NoRoute
        /\ proxyAt = "host" \/ Alone(a) => Reaches(live[a]) = {a}
        /\ \E b \in Reaches(live[a]) : engine = "On" \/ page[b] = "refuses"

\* A run in which nothing changes and nothing fails protects all that run, serve a page and
\* can be reached, whatever happened before it.
CanReach(a) ==
    proxyAt = "container" \/ a \in Published \/ Range(AppNetworks[a]) \cap Routable # {}
QuietRunsProtect ==
    run.at = "over" /\ ~run.dry /\ ~disturbed /\ ~troubled /\ engine = "On" =>
        \A a \in up : page[a] = "serves" /\ CanReach(a) /\ (proxyAt = "host" \/ Alone(a)) =>
            results[a] = "protected"

\* A dry run attaches nothing, routes nothing and claims nothing.
DryRunsLeaveNoTrace ==
    [][run.at # "rest" /\ run.at # "over" /\ run.dry /\ changes' = changes =>
            UNCHANGED <<joined, caddy, live, results>>]_reachVars

ReachHolds == RoutesReach /\ ProtectedIsProved /\ QuietRunsProtect

=============================================================================
