----------------------------- MODULE Discovery ------------------------------
(***************************************************************************)
(* How CatWAF finds the web applications among the containers of a host:   *)
(* discovery/index.js observes each container, correlates web servers with *)
(* the backends their configuration names, and classifies what it found.   *)
(*                                                                         *)
(* Everything goes by evidence and points.  A container is given by what   *)
(* is true of it; Docker may refuse any question about it, and discovery   *)
(* then goes on with less.  Text is left out: an image, a process, a file  *)
(* or a configuration is what the patterns find in it.                     *)
(***************************************************************************)
EXTENDS Integers, FiniteSets, FiniteSetsExt, SequencesExt

CONSTANTS
    Worlds,         \* the hosts tried: sequences of containers, in the order of `docker ps`
    NoPort,         \* no port of the host
    MaxFaults       \* bound: questions that Docker refuses

Servers == {"nginx", "apache", "caddy"}
Files == {"index.php", "composer.json", "vendor", "artisan", "wp-config.php", "settings.php"}

\* What is true of a container.  A FastCGI target of its configuration is the name of a
\* container or, with `local`, a socket; it may be commented out.
Target == [to : STRING, local : BOOLEAN, commented : BOOLEAN]
IsContainer(c) ==
    /\ c.image \subseteq Servers \cup {"node", "python", "php", "fpm"}
    /\ c.runs \subseteq Servers \cup {"node", "python", "php", "php-fpm"}
    /\ c.running \in BOOLEAN /\ c.http \in BOOLEAN
    /\ DOMAIN c.ports \subseteq 1..65535 /\ Range(c.ports) \subseteq 1..65535 \cup {NoPort}
    /\ IsFiniteSet(c.nets) /\ c.labels \subseteq {"traefik", "caddy"}
    /\ c.listens \subseteq Nat /\ Range(c.passes) \subseteq Target
    /\ c.env \subseteq {"WORDPRESS", "PHP_VERSION"} /\ c.files \subseteq Files
    /\ c.page \subseteq {"powered", "body"}

DiscoveryAssumption ==
    /\ \A w \in Worlds : \A c \in Range(w) : IsContainer(c)
    /\ MaxFaults \in Nat /\ NoPort \notin 1..65535

VARIABLES
    world,
    outcomes,       \* of the containers observed so far, what Docker has answered
    records,        \* what is known of them
    stage           \* "observe", "classify", "over" or "refused"

discoveryVars == <<world, outcomes, records, stage>>

Points(condition, n) == IF condition THEN n ELSE 0

-----------------------------------------------------------------------------
(* containers.js, runtime.js, webservers.js *)

\* normalize: without `docker inspect` there are no ports, networks, labels or environment,
\* and "running" is not "up".
Normalize(c, inspected) ==
    IF inspected THEN c
    ELSE [c EXCEPT !.ports = <<>>, !.nets = {}, !.labels = {}, !.env = {}, !.running = FALSE,
                   !.service = c.name]

\* webservers.detect: the profile with the most confidence, the first of equals.
Confidence(c, processes, s) ==
    IF s \notin processes \cup c.image THEN 0
    ELSE Min({100, Points(s \in processes, 55) + Points(s \in c.image, 45)
                   + Points({80, 443} \cap DOMAIN c.ports # {}, 10)})
DetectServer(c, processes) ==
    LET Better(best, s) == IF Confidence(c, processes, s) >
                              (IF best = "none" THEN 0 ELSE Confidence(c, processes, best))
                           THEN s ELSE best
    IN  FoldLeft(Better, "none", <<"nginx", "apache", "caddy">>)

\* detectNode, and then detectPython.
DetectApp(c, processes) ==
    LET apps == (c.image \cup processes) \cap {"node", "python"}
    IN  IF apps = {} THEN "none" ELSE IF "node" \in apps THEN "node" ELSE "python"

\* readConfig: nothing unless the container runs and has a shell.
Unread == [text |-> FALSE, listens |-> {}, passes |-> <<>>, proxies |-> <<>>]
ReadConfig(c, server, executed) ==
    IF server = "none" \/ ~c.running \/ ~executed THEN Unread
    ELSE [text |-> TRUE, listens |-> c.listens, passes |-> c.passes, proxies |-> c.proxies]

-----------------------------------------------------------------------------
(* web.js *)

COMMON_HTTP_PORTS == {80, 443, 8080, 8081, 8000, 8001, 8888, 3000, 3001, 4000, 5000, 5173,
                      9000, 9090}
WEB_THRESHOLD == 30
UsableNetworks(c) == c.nets \ {"host", "none"}
NotWeb == [isWeb |-> FALSE, port |-> NoPort, hostPort |-> NoPort, nets |-> {}, http |-> FALSE]

\* What speaks for a port before it is tried.
PortScore(c, server, app, config, p) ==
    Points("traefik" \in c.labels, 15) + Points("caddy" \in c.labels, 15)
    + (IF server # "none" THEN 25 ELSE Points(app # "none", 15))
    + Points(c.ports[p] # NoPort, 20) + Points(p \in config.listens, 25)
    + Points(p \in COMMON_HTTP_PORTS, 15)
    + Points((server # "none" \/ app # "none") /\ Cardinality(DOMAIN c.ports) = 1, 10)

\* detectWebPort: of equals the published one, then the lowest; if it is published it is
\* asked for a page.
DetectWebPort(c, server, app, config, answered) ==
    LET score(p) == PortScore(c, server, app, config, p)
        Before(p, q) ==
            \/ score(p) > score(q)
            \/ score(p) = score(q) /\ c.ports[p] # NoPort /\ c.ports[q] = NoPort
            \/ /\ score(p) = score(q) /\ (c.ports[p] = NoPort) = (c.ports[q] = NoPort)
               /\ p < q
        best == CHOOSE p \in DOMAIN c.ports : \A q \in DOMAIN c.ports \ {p} : Before(p, q)
        http == c.ports[best] # NoPort /\ c.running /\ answered
    IN  IF DOMAIN c.ports = {} THEN NotWeb
        ELSE [isWeb |-> /\ Min({100, score(best) + Points(http, 30)}) >= WEB_THRESHOLD
                        /\ c.ports[best] # NoPort \/ UsableNetworks(c) # {},
              port |-> best, hostPort |-> c.ports[best], nets |-> UsableNetworks(c),
              http |-> http]

-----------------------------------------------------------------------------
(* fastcgi.js *)

Seen(r) == r.container
FpmBackend(r) == "php-fpm" \in r.processes \/ "fpm" \in Seen(r).image
SharesNetwork(r, s) == Seen(r).nets \cap Seen(s).nets # {}
MatchesHost(r, host) == host \in {Seen(r).name, Seen(r).service}

\* The first of a set of places.
First(S) == IF S = {} THEN 0 ELSE Min(S)

\* The backend a target names: a PHP-FPM one, or else any; perhaps the web server itself.
BackendOf(rs, w, target) ==
    LET named == {i \in DOMAIN rs : MatchesHost(rs[i], target.to)
                                    /\ SharesNetwork(rs[w], rs[i])}
        fpm == {i \in named : FpmBackend(rs[i])}
    IN  IF target.local THEN 0 ELSE First(IF fpm # {} THEN fpm ELSE named)

NoLink == [basis |-> "none", backend |-> 0]

\* Without a configuration, the only PHP-FPM container that shares a network.
Inferred(rs, w) ==
    LET candidates == {i \in DOMAIN rs \ {w} : FpmBackend(rs[i]) /\ SharesNetwork(rs[w], rs[i])}
    IN  IF Cardinality(candidates) = 1
        THEN [basis |-> "network-inference", backend |-> First(candidates)]
        ELSE NoLink

\* The link of a web server: the first remote target that is a container here, or else a
\* socket.  parseFastcgiTargets reads what is commented out as well.
Link(rs, w) ==
    LET passes == rs[w].config.passes
        remote == {k \in DOMAIN passes : BackendOf(rs, w, passes[k]) # 0}
    IN  CASE rs[w].server = "none" -> NoLink
          [] rs[w].server # "none" /\ remote # {} ->
                [basis |-> "config", backend |-> BackendOf(rs, w, passes[First(remote)])]
          [] rs[w].server # "none" /\ remote = {} /\ \E k \in DOMAIN passes : passes[k].local ->
                [basis |-> "local", backend |-> 0]
          [] rs[w].server # "none" /\ ~rs[w].config.text -> Inferred(rs, w)
          [] OTHER -> NoLink

\* correlateHttpProxies: the first upstream that is another container here.
Proxied(rs, w) ==
    LET Backend(host) == First({i \in DOMAIN rs \ {w} : MatchesHost(rs[i], host)
                                                        /\ SharesNetwork(rs[w], rs[i])})
        proxies == rs[w].config.proxies
        known == {k \in DOMAIN proxies : Backend(proxies[k]) # 0}
    IN  IF known = {} THEN 0 ELSE Backend(proxies[First(known)])

-----------------------------------------------------------------------------
(* php.js *)

LIKELY_CONFIDENCE == 40
HIGH_CONFIDENCE == 70
FASTCGI_POINTS == [none |-> 0, config |-> 45, local |-> 30] @@ ("network-inference" :> 25)

\* detect: settings.php speaks for Drupal only if nothing else was found.
PhpScore(r) ==
    LET c == Seen(r)
        files == IF c.running /\ r.executed THEN c.files ELSE {}
        page == IF r.web.http THEN c.page ELSE {}
        framework == "WORDPRESS" \in c.env \/ {"artisan", "wp-config.php"} \cap files # {}
    IN  Points("php" \in c.image, 40)
        + (IF "php-fpm" \in r.processes THEN 40 ELSE Points("php" \in r.processes, 25))
        + FASTCGI_POINTS[r.fastcgi.basis] + Points(r.server \in {"nginx", "apache"}, 10)
        + Points("WORDPRESS" \in c.env, 10) + Points("PHP_VERSION" \in c.env, 5)
        + Points("index.php" \in files, 15) + Points("composer.json" \in files, 10)
        + Points("vendor" \in files, 5) + Points("artisan" \in files, 15)
        + Points("wp-config.php" \in files, 20)
        + Points(~framework /\ "settings.php" \in files, 15)
        + Points("powered" \in page, 10) + Points("body" \in page, 10)

\* runtime.classify
Runtime(rs, i) ==
    LET r == rs[i]
        app == DetectApp(Seen(r), r.processes)
        behind == IF r.proxy = 0 THEN "none"
                  ELSE DetectApp(Seen(rs[r.proxy]), rs[r.proxy].processes)
    IN  CASE PhpScore(r) >= LIKELY_CONFIDENCE -> "php"
          [] PhpScore(r) < LIKELY_CONFIDENCE /\ app # "none" -> app
          [] PhpScore(r) < LIKELY_CONFIDENCE /\ app = "none" /\ behind # "none" -> behind
          [] OTHER -> CASE ~r.web.isWeb -> "none"
                        [] r.web.isWeb /\ r.server # "none" -> "static"
                        [] OTHER -> "unknown"

-----------------------------------------------------------------------------
(* index.js *)

\* What Docker may answer about a container, and whether its page comes in time.
Outcomes == [inspect : BOOLEAN, top : BOOLEAN, exec : BOOLEAN, page : BOOLEAN]
Faults(o) == Cardinality({f \in DOMAIN o : ~o[f]})

\* observeOne
ObserveOne(c, o) ==
    LET seen == Normalize(c, o.inspect)
        processes == IF seen.running /\ o.top THEN c.runs ELSE {}
        server == DetectServer(seen, processes)
        app == DetectApp(seen, processes)
        config == ReadConfig(seen, server, o.exec)
    IN  [container |-> seen, processes |-> processes, server |-> server, config |-> config,
         executed |-> o.exec, fastcgi |-> NoLink, proxy |-> 0, serves |-> {},
         web |-> DetectWebPort(seen, server, app, config, o.page /\ c.http),
         php |-> 0, runtime |-> "none"]

\* correlate
Correlated(rs) ==
    [w \in DOMAIN rs |->
        [rs[w] EXCEPT !.fastcgi = Link(rs, w), !.proxy = Proxied(rs, w),
                      !.serves = {v \in DOMAIN rs : Link(rs, v).backend = w}]]

\* classifyOne; and who serves FastCGI for another is no application of its own.
Classified(rs) ==
    [i \in DOMAIN rs |->
        [rs[i] EXCEPT !.php = Min({100, PhpScore(rs[i])}), !.runtime = Runtime(rs, i),
                      !.web.isWeb = @ /\ rs[i].serves = {}]]

DiscoveryInit ==
    /\ world \in Worlds /\ outcomes = <<>> /\ records = <<>>
    /\ stage = "observe"

\* Docker is not there, or does not list its containers.
Refuse ==
    /\ stage = "observe" /\ records = <<>> /\ stage' = "refused"
    /\ UNCHANGED <<world, outcomes, records>>

Observe(o) ==
    /\ stage = "observe" /\ Len(records) < Len(world)
    /\ FoldSeq(LAMBDA x, n : n + Faults(x), Faults(o), outcomes) <= MaxFaults
    /\ outcomes' = Append(outcomes, o)
    /\ records' = Append(records, ObserveOne(world[Len(records) + 1], o))
    /\ UNCHANGED <<world, stage>>

Correlate ==
    /\ stage = "observe" /\ Len(records) = Len(world)
    /\ stage' = "classify" /\ records' = Correlated(records)
    /\ UNCHANGED <<world, outcomes>>

Classify ==
    /\ stage = "classify" /\ stage' = "over" /\ records' = Classified(records)
    /\ UNCHANGED <<world, outcomes>>

DiscoveryNext == Refuse \/ (\E o \in Outcomes : Observe(o)) \/ Correlate \/ Classify

DiscoveryTypeOK ==
    /\ world \in Worlds /\ stage \in {"observe", "classify", "over", "refused"}
    /\ outcomes \in Seq(Outcomes) /\ Len(outcomes) = Len(records)
    /\ \A r \in Range(records) :
         /\ r.processes \subseteq Seen(r).runs /\ r.server \in Servers \cup {"none"}
         /\ r.fastcgi.basis \in DOMAIN FASTCGI_POINTS
         /\ {r.fastcgi.backend, r.proxy} \subseteq 0..Len(world)
         /\ r.serves \subseteq DOMAIN records /\ r.php \in 0..100
         /\ r.web.isWeb \in BOOLEAN /\ r.web.port \in 1..65535 \cup {NoPort}
         /\ r.runtime \in {"php", "node", "python", "static", "unknown", "none"}

-----------------------------------------------------------------------------
(* Properties *)

Over == stage = "over"
Whole(i) == world[i].running /\ Faults(outcomes[i]) = 0
Names(c) == {c.name, c.service}
Neighbours(i, j) == world[i].nets \cap world[j].nets # {}
PassesTo(v, i) ==
    \E t \in Range(world[v].passes) : ~t.local /\ t.to \in Names(world[i])

\* A running web server that can be reached on its only port, or on one that its
\* configuration names, is an application, and on such a port.  Who is taken for a PHP-FPM
\* backend is not: who is named in somebody's FastCGI targets, its own included, and a web
\* server with PHP-FPM beside one whose configuration cannot be read.
Serving(i) ==
    /\ Whole(i) /\ world[i].runs \cap Servers # {}
    /\ Cardinality(DOMAIN world[i].ports) = 1 \/ world[i].listens \cap DOMAIN world[i].ports # {}
    /\ world[i].nets \ {"host", "none"} # {} \/ NoPort \notin Range(world[i].ports)
TakenForBackend(i) ==
    \/ \E v \in DOMAIN world : PassesTo(v, i)
    \/ /\ {"php-fpm", "fpm"} \cap (world[i].runs \cup world[i].image) # {}
       /\ \E v \in DOMAIN world \ {i} : Neighbours(v, i) /\ ~records[v].config.text
                                       /\ records[v].server # "none"
AppsAreFound ==
    Over => \A i \in DOMAIN world : Serving(i) =>
        LET web == records[i].web
        IN  /\ web.isWeb \/ TakenForBackend(i)
            /\ \/ web.port \in world[i].listens \/ web.hostPort # NoPort
               \/ world[i].listens \cap DOMAIN world[i].ports = {}

\* Who serves FastCGI for a web server is not routed to, and the web server is PHP: the two
\* together are the application.
Pair(w, i) ==
    /\ Whole(w) /\ Whole(i) /\ w # i /\ Neighbours(w, i)
    /\ world[w].runs \cap {"nginx", "apache"} # {} /\ "php-fpm" \in world[i].runs
    /\ world[w].passes # <<>>
    /\ \A t \in Range(world[w].passes) : ~t.local /\ t.to \in Names(world[i])
    /\ \A j \in DOMAIN world \ {i} : Names(world[i]) \cap Names(world[j]) = {}
BackendsStayBehind ==
    Over => \A w, i \in DOMAIN world : Pair(w, i) =>
        /\ ~records[i].web.isWeb
        /\ records[w].runtime = "php" /\ records[w].php >= LIKELY_CONFIDENCE

\* PHP has evidence: an image, a process or a FastCGI target (even one in a comment, which
\* a stock nginx.conf has), two files, or signals of two kinds.  A stray file is not enough.
Kinds(i) ==
    Points(world[i].files # {}, 1) + Points(world[i].env # {}, 1) + Points(world[i].page # {}, 1)
    + Points(records[i].fastcgi.basis = "network-inference", 1)
PhpIsEarned ==
    Over => \A i \in DOMAIN world : records[i].php >= LIKELY_CONFIDENCE =>
        \/ "php" \in world[i].image \/ world[i].runs \cap {"php", "php-fpm"} # {}
        \/ world[i].passes # <<>>
        \/ Cardinality(world[i].files) >= 2 \/ Kinds(i) >= 2

\* What Docker refuses about one container changes nothing for those that share no network
\* with it or with one of its neighbours.
AllWell == [f \in {"inspect", "top", "exec", "page"} |-> TRUE]
Unhindered == Classified(Correlated([i \in DOMAIN world |-> ObserveOne(world[i], AllWell)]))
Near(i) == {j \in DOMAIN world : i = j \/ Neighbours(i, j)}
FaultsStayLocal ==
    Over => LET unhindered == Unhindered
            IN  \A i \in DOMAIN world :
                    (\A j \in UNION {Near(k) : k \in Near(i)} : Faults(outcomes[j]) = 0) =>
                        records[i] = unhindered[i]

DiscoveryHolds == AppsAreFound /\ BackendsStayBehind /\ PhpIsEarned /\ FaultsStayLocal

=============================================================================
