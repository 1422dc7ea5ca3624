----------------------------- MODULE AutoRoutes -----------------------------
(***************************************************************************)
(* Applications put behind CatWAF: a run of proxy/protect.js, by the API   *)
(* server or by `catwaf start`, plans a listen port for each container that*)
(* discovery has found, remembers the ports in the database, and writes    *)
(* them to its region of the Caddyfile under the configuration lock.  Other*)
(* writers of the file are updates of the WAF block, under the lock, and   *)
(* `catwaf provision`, which does not take it.                             *)
(*                                                                         *)
(* A plan waits for the network at each container, so everybody else may   *)
(* do anything meanwhile.  Of the file the model has what its regions were *)
(* made from: the ports, and the versions of the WAF settings and of the   *)
(* dashboard block.  Which port allocatePort() finds depends on what the   *)
(* container publishes and on who listens, Caddy among them; it may be any *)
(* one that is not taken.  A container is reached, whatever the network, or*)
(* it is not.  Dry runs, which change nothing, and what Caddy makes of the *)
(* file are left out.                                                      *)
(***************************************************************************)
EXTENDS Naturals, FiniteSets, SequencesExt

CONSTANTS
    Apps,           \* containers
    Key,            \* container -> the compose service or name its port goes by
    Ports,
    NoPort,
    Api, Cli,       \* the processes
    MaxRuns,        \* bounds: runs, updates of the WAF and of the dashboard block
    MaxUpdates,
    MaxProvisions

AutoRoutesAssumption ==
    /\ NoPort \notin Ports /\ Api # Cli
    /\ MaxRuns \in Nat /\ MaxUpdates \in Nat /\ MaxProvisions \in Nat

VARIABLES
    assigned,       \* the row auto_route_ports: key -> port
    caddyfile,
    settled,        \* the stored version of the WAF settings
    mine,           \* process -> state.WAF, as a version
    plan,           \* process -> its run
    section,        \* who holds the lock, and what it will write
    provision,      \* what `catwaf provision` has read, and what it writes
    begun,          \* runs so far
    expected,       \* history: each region as its writer has last written it
    overwritten,    \* history: provision has written what it had read too early
    loose           \* history: keys whose assignment a run has had to lose

routeVars == <<assigned, caddyfile, settled, mine, plan, section, provision, begun, expected,
               overwritten, loose>>

Processes == {Api, Cli}
Keys == {Key[a] : a \in Apps}
Assignments == [Keys -> Ports \cup {NoPort}]
Routes == [Apps -> Ports \cup {NoPort}]
Content == [routes : Routes, waf : 0..MaxUpdates, dashboard : 0..MaxProvisions]
None(S) == [x \in S |-> NoPort]
Resting == [at |-> "rest"]

AutoRoutesTypeOK ==
    /\ assigned \in Assignments /\ caddyfile \in Content /\ expected \in Content
    /\ settled \in 0..MaxUpdates /\ mine \in [Processes -> 0..MaxUpdates]
    /\ \A p \in Processes :
         \/ plan[p] = Resting
         \/ plan[p] \in [at : {"plan"}, todo : BoundedSeq(Apps, Cardinality(Apps)),
                         row : Assignments, reserved : SUBSET Ports, routes : Routes,
                         next : Assignments]
         \/ plan[p] \in [at : {"apply"}, routes : Routes]
    /\ section = Resting \/ section \in [at : {"write"}, by : Processes, owns : SUBSET {"routes", "waf"},
                                        new : Content]
    /\ provision = Resting
         \/ provision \in [at : {"write", "validate"}, new : Content, previous : Content]
    /\ begun \in 0..MaxRuns /\ overwritten \in BOOLEAN /\ loose \subseteq Keys

-----------------------------------------------------------------------------
Claimed(routes) == {routes[a] : a \in Apps} \ {NoPort}
Routed(routes) == {Key[a] : a \in {b \in Apps : routes[b] # NoPort}}
Shared(k) == Cardinality({a \in Apps : Key[a] = k}) > 1

\* The first pass of planRoutes(): the ports of the containers that have one.
Reserved(row, found) == {row[Key[a]] : a \in found} \ {NoPort}

\* A process does nothing else while it is in a section.
Free(p) == section # Resting => section.by # p

\* A run begins: discovery has found some containers, in some order, and the row is read.
\* `catwaf start` is a process that has just loaded its state.
Discover(p) ==
    /\ plan[p] = Resting /\ Free(p)
    /\ begun < MaxRuns /\ begun' = begun + 1
    /\ \E found \in SUBSET Apps : \E todo \in SetToSeqs(found) :
         plan' = [plan EXCEPT ![p] =
                    [at |-> "plan", todo |-> todo, row |-> assigned,
                     reserved |-> Reserved(assigned, found),
                     routes |-> None(Apps), next |-> None(Keys)]]
    /\ mine' = IF p = Cli THEN [mine EXCEPT ![p] = settled] ELSE mine
    /\ UNCHANGED <<assigned, caddyfile, settled, section, provision, expected, overwritten,
                   loose>>

\* The port a container is remembered by, unless another one of its key has it; otherwise
\* what allocatePort() finds.
PortsFor(run, a) ==
    LET own == run.row[Key[a]]
    IN  IF own # NoPort /\ own \notin Claimed(run.routes) THEN {own}
        ELSE Ports \ (run.reserved \cup Claimed(run.routes))

\* The next container gets its port.
Route(p) ==
    /\ plan[p].at = "plan" /\ plan[p].todo # <<>> /\ Free(p)
    /\ LET a == Head(plan[p].todo) IN
       \E q \in PortsFor(plan[p], a) :
         plan' = [plan EXCEPT ![p].todo = Tail(@), ![p].routes[a] = q, ![p].next[Key[a]] = q]
    /\ UNCHANGED <<assigned, caddyfile, settled, mine, section, provision, begun, expected,
                   overwritten, loose>>

\* It cannot be reached, or there is no port: it is skipped.
Skip(p) ==
    /\ plan[p].at = "plan" /\ plan[p].todo # <<>> /\ Free(p)
    /\ plan' = [plan EXCEPT ![p].todo = Tail(@)]
    /\ UNCHANGED <<assigned, caddyfile, settled, mine, section, provision, begun, expected,
                   overwritten, loose>>

\* saveAssignments(): the row is what this run has planned, and no more.  A run that has
\* planned nothing ends here.
Save(p) ==
    LET run == plan[p] IN
    /\ run.at = "plan" /\ run.todo = <<>> /\ Free(p)
    /\ assigned' = run.next
    /\ plan' = [plan EXCEPT ![p] = IF Claimed(run.routes) = {} THEN Resting
                                   ELSE [at |-> "apply", routes |-> run.routes]]
    /\ loose' = loose \cup {k \in Keys : \/ Shared(k)
                                         \/ run.row[k] # assigned[k]
                                         \/ k \notin Routed(run.routes)}
    /\ UNCHANGED <<caddyfile, settled, mine, section, provision, begun, expected, overwritten>>

-----------------------------------------------------------------------------
(* Sections: the file is read, its regions are rendered and it is written  *)
(* before the lock is given up.                                            *)

Enter(p, owns, new) == section' = [at |-> "write", by |-> p, owns |-> owns, new |-> new]

\* apply(): its own region, and the WAF block from this process's state.
Apply(p) ==
    /\ plan[p].at = "apply" /\ section = Resting
    /\ plan' = [plan EXCEPT ![p] = Resting]
    /\ Enter(p, {"routes", "waf"},
             [caddyfile EXCEPT !.routes = plan[p].routes, !.waf = mine[p]])
    /\ UNCHANGED <<assigned, caddyfile, settled, mine, provision, begun, expected, overwritten,
                   loose>>

\* The audit log is not to be had, validation fails, or the file cannot be written.
Refuse(p) ==
    /\ section.at = "write" /\ section.by = p
    /\ section' = Resting
    /\ UNCHANGED <<assigned, caddyfile, settled, mine, plan, provision, begun, expected,
                   overwritten, loose>>

\* updateWAF(): the settings are stored, and this process has them.
Update(p) ==
    /\ section = Resting /\ settled < MaxUpdates
    /\ settled' = settled + 1 /\ mine' = [mine EXCEPT ![p] = settled + 1]
    /\ UNCHANGED <<assigned, caddyfile, plan, section, provision, begun, expected, overwritten,
                   loose>>

\* patchWAFCaddyfile(): the WAF block, from this process's state, and no other region.
Patch(p) ==
    /\ section = Resting /\ caddyfile.waf # mine[p]
    /\ Enter(p, {"waf"}, [caddyfile EXCEPT !.waf = mine[p]])
    /\ UNCHANGED <<assigned, caddyfile, settled, mine, plan, provision, begun, expected,
                   overwritten, loose>>

\* The file is renamed into place.
Write(p) ==
    /\ section.at = "write" /\ section.by = p
    /\ caddyfile' = section.new
    /\ expected' = [r \in DOMAIN expected |->
                      IF r \in section.owns THEN section.new[r] ELSE expected[r]]
    /\ section' = Resting
    /\ UNCHANGED <<assigned, settled, mine, plan, provision, begun, overwritten, loose>>

-----------------------------------------------------------------------------
(* catwaf provision: provision.apply(), without the lock.                  *)

\* The file is read, and kept for a roll-back.
ReadDashboard ==
    /\ provision = Resting /\ caddyfile.dashboard < MaxProvisions
    /\ provision' = [at |-> "write", previous |-> caddyfile,
                     new |-> [caddyfile EXCEPT !.dashboard = @ + 1]]
    /\ UNCHANGED <<assigned, caddyfile, settled, mine, plan, section, begun, expected,
                   overwritten, loose>>

\* It is written, before it is validated.
WriteDashboard ==
    /\ provision.at = "write"
    /\ caddyfile' = provision.new
    /\ expected' = [expected EXCEPT !.dashboard = provision.new.dashboard]
    /\ overwritten' = (overwritten \/ caddyfile # provision.previous \/ section # Resting)
    /\ provision' = [provision EXCEPT !.at = "validate"]
    /\ UNCHANGED <<assigned, settled, mine, plan, section, begun, loose>>

\* It is valid.
KeepDashboard ==
    /\ provision.at = "validate" /\ provision' = Resting
    /\ UNCHANGED <<assigned, caddyfile, settled, mine, plan, section, begun, expected,
                   overwritten, loose>>

\* It is not: the file is what it was before.
RevertDashboard ==
    /\ provision.at = "validate" /\ provision' = Resting
    /\ caddyfile' = provision.previous
    /\ expected' = [expected EXCEPT !.dashboard = provision.previous.dashboard]
    /\ overwritten' = (overwritten \/ caddyfile # provision.new \/ section # Resting)
    /\ UNCHANGED <<assigned, settled, mine, plan, section, begun, loose>>

-----------------------------------------------------------------------------
Bare == [routes |-> None(Apps), waf |-> 0, dashboard |-> 0]

AutoRoutesInit ==
    /\ assigned = None(Keys) /\ caddyfile = Bare
    /\ settled = 0 /\ mine = [p \in Processes |-> 0]
    /\ plan = [p \in Processes |-> Resting]
    /\ section = Resting /\ provision = Resting /\ begun = 0
    /\ expected = Bare /\ overwritten = FALSE /\ loose = {}

AutoRoutesNext ==
    \/ \E p \in Processes :
         \/ Discover(p) \/ Route(p) \/ Skip(p) \/ Save(p)
         \/ Apply(p) \/ Refuse(p) \/ Update(p) \/ Patch(p) \/ Write(p)
    \/ ReadDashboard \/ WriteDashboard \/ KeepDashboard \/ RevertDashboard

AutoRoutesSpec == AutoRoutesInit /\ [][AutoRoutesNext]_routeVars

-----------------------------------------------------------------------------
(***************************************************************************)
(* "Listen ports are sticky across runs": a container that is routed again *)
(* has the port it had, unless some run has skipped it or has not found it,*)
(* another run has overlapped with one, or containers share its key.       *)
(***************************************************************************)
PortsStick ==
    [][\A a \in Apps : \/ caddyfile.routes[a] = NoPort
                       \/ caddyfile'.routes[a] \in {NoPort, caddyfile.routes[a]}
                       \/ Key[a] \in loose]_routeVars

(***************************************************************************)
(* Every region of the Caddyfile is as its writer has written it last: no  *)
(* writer undoes what another one has done, unless `catwaf provision` was  *)
(* between its reading and its writing.                                    *)
(***************************************************************************)
RegionsSurvive == overwritten \/ caddyfile = expected

=============================================================================
