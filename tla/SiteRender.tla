----------------------------- MODULE SiteRender -----------------------------
(***************************************************************************)
(* What the settings make of the protected site: render/site.js, and the   *)
(* part of render/global.js that reports, called by renderCaddyfile() and  *)
(* by the preview of a draft.                                              *)
(*                                                                         *)
(* A feature has the options a renderer tells apart.  Of a rendering only  *)
(* this is kept: which features have a directive, the order of the handle  *)
(* blocks, what is reported as skipped, and the files written beside the   *)
(* Caddyfile.  Requests are not steps: a property asks what becomes of     *)
(* each of them.                                                           *)
(***************************************************************************)
EXTENDS Naturals, FiniteSets

CONSTANTS
    Hosts,      \* what there may be: a set of sets of Things
    MaxChanges  \* bound: settings that are changed; a draft is the last of them

VARIABLES
    settings,   \* option of each feature, as stored
    written,    \* what the Caddyfile was rendered from
    assets,     \* content of the generated files
    report,     \* LAST_RENDER: the features reported as skipped
    drafted,    \* history: the last rendering was of settings that are not stored
    changed     \* history: settings changed so far

siteVars == <<settings, written, assets, report, drafted, changed>>

CONSTANT NoFile

Things == {"backend", "upstream", "hostname", "known_hosts",
           "replace_response", "cache", "rate_limit", "dns_provider"}

\* f where it says something, and g elsewhere.
Over(f, g) == [x \in DOMAIN f \cup DOMAIN g |-> IF x \in DOMAIN f THEN f[x] ELSE g[x]]

\* The groups of the schema that reach the site.  The first option of a feature is the
\* default one.
ClientChoices ==
    [methods |-> <<"any", "browsing", "reading", "none_listed">>,
     unknown_host |-> <<"off", "on">>, request_body |-> <<"off", "on">>,
     file_cache |-> <<"off", "on">>, basic_auth |-> <<"off", "on", "no_user">>,
     mtls |-> <<"off", "on", "no_ca", "depth">>, real_ip |-> <<"off", "on", "no_ranges">>,
     proxy_protocol |-> <<"off", "on", "no_ranges">>, connections |-> <<"off", "on">>]

TlsChoices ==
    [tls |-> <<"default", "profile", "custom", "renewed", "custom_missing", "dns", "dns_no_token">>]

OriginChoices ==
    [origin |-> <<"reverse-proxy", "static", "php", "no_root", "no_php">>,
     proxy |-> <<"plain", "tuned">>, websockets |-> <<"allow", "deny">>,
     auth_request |-> <<"off", "on", "no_url">>, cache |-> <<"off", "on">>]

ResponseChoices ==
    [headers |-> <<"off", "on", "all_empty">>,
     cors |-> <<"off", "any", "listed", "deny", "no_origins", "any_with_credentials">>,
     cookies |-> <<"off", "on", "no_flags">>, compression |-> <<"off", "on", "no_algorithms">>,
     client_cache |-> <<"off", "on">>]

ContentChoices ==
    [html_injection |-> <<"off", "on", "no_snippet", "delimiter">>,
     robots |-> <<"off", "text1", "text2">>, security_txt |-> <<"off", "text1", "invalid">>,
     error_pages |-> <<"off", "on", "no_pages">>, redirects |-> <<"off", "on", "no_target">>]

GateChoices ==
    [challenge |-> <<"off", "on">>, enforcement |-> <<"off", "on">>]

ScanChoices == [upload_scan |-> <<"off", "on", "no_paths">>]

RawChoices == [raw |-> <<"off", "on", "blank">>]

Choices ==
    Over(ClientChoices, Over(TlsChoices, Over(OriginChoices, Over(ResponseChoices,
        Over(ContentChoices, Over(GateChoices, Over(ScanChoices, RawChoices)))))))

Features == DOMAIN Choices
Options(f) == {Choices[f][i] : i \in DOMAIN Choices[f]}
Default(f) == Choices[f][1]
Files == {"robots", "security_txt", "tls", "error_pages"}

SiteRenderAssumption == Hosts \subseteq SUBSET Things /\ MaxChanges \in Nat

SiteTypeOK ==
    /\ \A f \in Features : settings[f] \in Options(f) /\ written.settings[f] \in Options(f)
    /\ written.host \in Hosts /\ report \subseteq Features /\ drafted \in BOOLEAN
    /\ \A a \in Files : assets[a] \in Options(a) \cup {NoFile}
    /\ changed \in 0..MaxChanges

-----------------------------------------------------------------------------
(* build(): each operator is the part of one or more renderers. *)

\* enforce.isActive() counts the challenge among its features.
On(s, f) == s[f] # Default(f) \/ (f = "enforcement" /\ s.challenge = "on")

\* What a renderer needs, the options it cannot express and reports, and those that ask
\* for the feature and leave it nothing to render.
Rule(needs, refused, empty) == [needs |-> needs, refused |-> refused, empty |-> empty]
Always == Rule({}, {}, {})

Gates ==
    [methods |-> Rule({}, {}, {"none_listed"}), challenge |-> Rule({"backend"}, {}, {}),
     enforcement |-> Rule({"backend"}, {}, {}),
     upload_scan |-> Rule({"backend", "upstream"}, {}, {"no_paths"})]

Published ==
    [robots |-> Always, security_txt |-> Rule({}, {"invalid"}, {}),
     cors |-> Rule({}, {"no_origins", "any_with_credentials"}, {})]

Responses ==
    [headers |-> Rule({}, {}, {"all_empty"}), cookies |-> Rule({}, {}, {"no_flags"}),
     compression |-> Rule({}, {}, {"no_algorithms"}), client_cache |-> Always,
     html_injection |-> Rule({"replace_response"}, {"delimiter"}, {"no_snippet"})]

Admission ==
    [redirects |-> Rule({}, {}, {"no_target"}), basic_auth |-> Rule({}, {"no_user"}, {}),
     auth_request |-> Rule({}, {"no_url"}, {}), request_body |-> Always,
     error_pages |-> Rule({}, {}, {"no_pages"})]

Transport ==
    [tls |-> Rule({"hostname"}, {"custom_missing"}, {}), mtls |-> Rule({"hostname"}, {"no_ca"}, {})]

Upstream ==
    [proxy |-> Rule({"upstream"}, {}, {}), websockets |-> Always, cache |-> Rule({"cache"}, {}, {})]

Origins ==
    [origin |-> Rule({}, {"no_root", "no_php"}, {}), raw |-> Rule({}, {}, {"blank"})]

Servers ==
    [real_ip |-> Rule({}, {"no_ranges"}, {}), proxy_protocol |-> Rule({}, {"no_ranges"}, {}),
     connections |-> Always, file_cache |-> Rule({}, {"on"}, {})]

CatchAll == [unknown_host |-> Rule({"known_hosts"}, {}, {})]

Rules ==
    Over(Gates, Over(Published, Over(Responses, Over(Admission, Over(Transport,
        Over(Upstream, Over(Origins, Over(Servers, CatchAll))))))))

Needs(f) == Rules[f].needs
Inexpressible(f) == Rules[f].refused
Nothing(f) == Rules[f].empty

\* tls(): one directive for the certificate and for the clients' certificates; whoever
\* fails first takes the other along.
TlsAsked(s) == On(s, "tls") \/ On(s, "mtls")
TlsFails(s, h) ==
    IF "hostname" \notin h \/ s.tls = "custom_missing" THEN {"tls"}
    ELSE IF s.mtls = "no_ca" THEN {"mtls"} ELSE {}

\* proxyBehaviour(): without an option of reverse_proxy it returns at once.
ProxyActs(s) == s.origin = "reverse-proxy" /\ On(s, "proxy")

\* Whether the renderer of f gets as far as its directive.
Emits(s, h, f) ==
    /\ On(s, f)
    /\ s[f] \notin Nothing(f)
    /\ CASE f \in {"tls", "mtls"} -> TlsFails(s, h) = {}
         [] f \in {"proxy", "websockets"} -> ProxyActs(s) /\ "upstream" \in h
         [] OTHER -> s[f] \notin Inexpressible(f) /\ Needs(f) \subseteq h

\* out.skipped of build() and of the global one
Skipped(s, h) ==
    {f \in Features \ {"tls", "mtls", "proxy"} :
        On(s, f) /\ s[f] \notin Nothing(f)
            /\ (s[f] \in Inexpressible(f) \/ ~(Needs(f) \subseteq h))}
    \cup (IF TlsAsked(s) THEN TlsFails(s, h) ELSE {})
    \cup {f \in {"tls"} : s.tls = "dns_no_token" /\ TlsAsked(s) /\ TlsFails(s, h) # {"tls"}}
    \cup {f \in {"tls"} : s.tls = "dns" /\ "dns_provider" \notin h}
    \cup {f \in {"mtls"} : s.mtls = "depth" /\ TlsFails(s, h) = {}}
    \cup {f \in {"proxy"} : ProxyActs(s) /\ "upstream" \notin h}
    \cup {f \in {"connections"} : On(s, f) /\ "rate_limit" \notin h}

Rendered(s, h) == {f \in Features : Emits(s, h, f)}

\* Wrong variant: the scanner after the proxy.
ScansLast ==
    [methods |-> 10, challenge |-> 20, robots |-> 30, security_txt |-> 31, cors |-> 40,
     preflight |-> 41, websockets |-> 50, proxy |-> 90, upload_scan |-> 92, origin |-> 95]

\* The handle blocks by priority, with 40 for a refused origin and 41 for a preflight.
Priority ==
    [methods |-> 10, challenge |-> 20, robots |-> 30, security_txt |-> 31, cors |-> 40,
     preflight |-> 41, upload_scan |-> 45, websockets |-> 50, proxy |-> 90, origin |-> 95]

HandleOf(s, h, block) ==
    CASE block = "cors" -> Emits(s, h, "cors") /\ s.cors = "deny"
      [] block = "preflight" -> Emits(s, h, "cors")
      [] OTHER -> Emits(s, h, block)

\* wellknown.js: the text of a file, none if it is off or would not be valid
Text(s, f) == IF On(s, f) /\ s[f] \notin Inexpressible(f) THEN s[f] ELSE NoFile

\* The files a rendering writes; a certificate is written before the clients' ones are
\* looked at.
Written(s, h, a) ==
    CASE a \in {"robots", "security_txt"} -> Text(s, a)
      [] a = "tls" /\ s.tls \in {"custom", "renewed"} /\ "hostname" \in h -> s.tls
      [] a = "error_pages" /\ Emits(s, h, a) -> s.error_pages
      [] OTHER -> NoFile

-----------------------------------------------------------------------------
(* Requests. *)

Methods == {"GET", "POST", "OPTIONS", "DELETE"}
Paths == {"page", "challenge", "robots", "security_txt", "upload"}
Requests == [method : Methods, path : Paths, upgrade : BOOLEAN,
             from : {"same_site", "listed", "elsewhere"}]

\* access.allowed_methods
Allowed(s) ==
    CASE s.methods = "browsing" -> {"GET", "POST", "OPTIONS"}
      [] s.methods = "reading" -> {"GET"}
      [] OTHER -> Methods

\* The matcher of a block; an upload is a POST to one of the nominated paths.
Matches(s, block, r) ==
    CASE block = "methods" -> r.method \notin Allowed(s)
      [] block \in {"challenge", "robots", "security_txt"} -> r.path = block
      [] block = "cors" -> r.from = "elsewhere"
      [] block = "preflight" -> r.method = "OPTIONS"
      [] block = "upload_scan" -> r.path = "upload" /\ r.method = "POST"
      [] block = "websockets" -> r.upgrade
      [] OTHER -> TRUE

\* The block that takes the request, or what the operator has written after the region.
TakenBy(s, h, r) ==
    LET taking == {b \in DOMAIN Priority : HandleOf(s, h, b) /\ Matches(s, b, r)} IN
    IF taking = {} THEN "operator"
    ELSE CHOOSE b \in taking : \A c \in taking : Priority[b] <= Priority[c]

\* The matcher of the hop to /api/enforce
Gated(s, h, r) == Emits(s, h, "enforcement") /\ r.path # "challenge"

-----------------------------------------------------------------------------
WriteAssets(s, h) ==
    assets' = [a \in Files |->
                  IF Written(s, h, a) # NoFile THEN Written(s, h, a) ELSE assets[a]]

\* renderCaddyfile() as a whole
Render(s) == WriteAssets(s, written.host) /\ report' = Skipped(s, written.host)

\* configTx.apply() of one setting, with success.
Change(f, option) ==
    LET s == [settings EXCEPT ![f] = option] IN
    /\ option # settings[f] /\ changed < MaxChanges /\ changed' = changed + 1
    /\ settings' = s /\ written' = [written EXCEPT !.settings = s]
    /\ Render(s) /\ drafted' = FALSE

\* A draft is previewed, or refused by the validation: settings and Caddyfile are put back,
\* files and report are not.
Draft(f, option) ==
    /\ option # settings[f] /\ ~drafted /\ changed < MaxChanges
    /\ Render([settings EXCEPT ![f] = option]) /\ drafted' = TRUE
    /\ changed' = MaxChanges /\ UNCHANGED <<settings, written>>

\* updateWAF(), or a reload a job asks for
Rerender ==
    /\ drafted /\ Render(settings) /\ drafted' = FALSE
    /\ written' = [written EXCEPT !.settings = settings]
    /\ UNCHANGED <<settings, changed>>

SiteInit ==
    /\ settings = [f \in Features |-> Default(f)]
    /\ \E h \in Hosts : written = [settings |-> settings, host |-> h]
    /\ assets = [a \in Files |-> NoFile] /\ report = {}
    /\ drafted = FALSE /\ changed = 0

SiteNext ==
    \/ \E f \in Features : \E option \in Options(f) : Change(f, option) \/ Draft(f, option)
    \/ Rerender

-----------------------------------------------------------------------------
(***************************************************************************)
(* No setting does nothing silently: what is switched on is in the         *)
(* Caddyfile or in the report of what is not.  Excepted are options that   *)
(* leave nothing to render, refused upgrades when nothing else of the proxy*)
(* is tuned, the proxy of a site that has none, and the half of the TLS    *)
(* directive that goes with the half that fails.                           *)
(***************************************************************************)
NothingSilent ==
    ~drafted => \A f \in Features :
        LET s == written.settings IN
        On(s, f) =>
            \/ f \in Rendered(s, written.host) \/ f \in report
            \/ s[f] \in Nothing(f)
            \/ f = "websockets" /\ (~ProxyActs(s) \/ "proxy" \in report)
            \/ f = "proxy" /\ s.origin # "reverse-proxy"
            \/ {f, "tls"} = {"tls", "mtls"} /\ {"tls", "mtls"} \cap report # {}
            \/ f = "tls" /\ "mtls" \in report

(***************************************************************************)
(* Blocks exclude each other and the first one that matches answers, so    *)
(* their order has to keep every promise at once: a method that is not     *)
(* allowed is refused before anything else, who is sent to the challenge   *)
(* gets it without being judged again (but cannot answer it where POST is  *)
(* not allowed), an upload does not reach the application unscanned, a file*)
(* CatWAF publishes is served, what reaches the application has passed     *)
(* every refusal that is rendered, and no block takes a request it cannot  *)
(* pass on.                                                                *)
(***************************************************************************)
OrderKeepsPromises ==
    LET s == written.settings
        h == written.host
        Refuses(b, r) == HandleOf(s, h, b) /\ Matches(s, b, r)
    IN  ~drafted => \A r \in Requests :
          LET by == TakenBy(s, h, r) IN
          /\ Refuses("methods", r) => by = "methods"
          /\ r.path = "challenge" /\ Emits(s, h, "challenge") =>
                 by \in {"challenge", "methods"} /\ ~Gated(s, h, r)
          /\ Refuses("upload_scan", r) => by \notin {"proxy", "origin", "operator"}
          /\ r.path \in {"robots", "security_txt"} /\ Emits(s, h, r.path) =>
                 by \in {r.path, "methods"}
          /\ by \in {"proxy", "origin", "operator", "upload_scan"} =>
                 ~Refuses("cors", r) /\ ~Refuses("preflight", r)
          /\ by \in {"proxy", "origin", "operator"} => ~Refuses("websockets", r)
          /\ by \in {"challenge", "upload_scan"} => "backend" \in h
          /\ by \in {"upload_scan", "proxy"} => "upstream" \in h

(***************************************************************************)
(* What is served beside the Caddyfile is what is stored: after a rendering*)
(* of the stored settings the files are of these settings and the report is*)
(* about them.  A draft that is previewed or refused overwrites them, and  *)
(* the site serves its text until the next rendering.                      *)
(***************************************************************************)
FilesAreStored ==
    ~drafted =>
        /\ written.settings = settings
        /\ \A a \in Files : Written(settings, written.host, a) \in {NoFile, assets[a]}
        /\ changed > 0 => report = Skipped(settings, written.host)

=============================================================================
