--------------------------- MODULE MCAccessProofs ---------------------------
(***************************************************************************)
(* What the run of MCAccess checks, proved: each part of it runs as its own*)
(* module says, its constants are as the theorems about that module assume,*)
(* and so what AccessProofs, PanelProofs and TrafficProofs prove for every *)
(* value of the constants holds here.  The rendered site is here as a      *)
(* whole, since MCAccess extends its module: its theorem is for all hosts  *)
(* and any number of changes.                                              *)
(***************************************************************************)
EXTENDS MCAccess, WellFoundedInduction, TLAPS

\* The modules with the theorems, with the constants of MCAccess.
Access == INSTANCE AccessProofs WITH
    Jtis <- {"a1", "b1"}, Owner <- [a1 |-> "a", b1 |-> "b"], Target <- "a",
    Places <- {"home", "away"}, MaxAges <- {1, 3}, IdleTimeouts <- {2},
    MAX_CONCURRENT <- 1, ROLLING <- FALSE, MaxDuring <- 1, MaxTicks <- 3,
    Calls <- {"ask", "logout"}, Logouts <- {"logout"}, MaxTokens <- 2, Skews <- {-2, 1},
    WINDOW <- 1, MAX_SKEW <- 1, NONCE_TTL <- 3, MaxClock <- 3,
    Users <- {"u"}, Server <- "server", Console <- "cli",
    RECOVERY_CODE_COUNT <- 1, MaxFresh <- 3, MaxStep <- 3

Panel == INSTANCE PanelProofs WITH
    Names <- {"n1", "n2"}, Tokens <- {"t1"}, MaxChanges <- 3, MaxFaults <- 1, MaxTime <- 3,
    Domains <- {"d"}, Builds <- {"b1", "b2", "b3"}, Broken <- {"b3"}, MaxRuns <- 2, MaxEdits <- 1,
    Operators <- {"a", "b"}, Pids <- 1..3, MaxCommands <- 3,
    Editors <- {"plain", "grouped"}, OwnToast <- {"plain"}, Entries <- {"entry"},
    Secret <- NewSecret, Kept <- OldSecret, Blank <- Emptied, Missing <- Unfilled,
    MaxRequests <- 2

\* The audit log has no part in it: nobody maintains it here.
Traffic == INSTANCE TrafficProofs WITH
    Procs <- {0}, ApiServer <- 0, Nobody <- -1, MaxRows <- 0, MaxNow <- 1,
    MaxCrashes <- 0,
    exists <- part, log <- part, written <- part, coraza <- part, caddyfile <- part,
    sidecar <- part, requestLog <- part, saved <- part, auditPath <- part, offset <- part,
    pc <- part, job <- part, holder <- part, now <- part, crashes <- part, disturbed <- part,
    Requests <- {"r1", "r2"},
    Kinds <- {[uri |-> "page", agent |-> "plain"], [uri |-> "page", agent |-> "close"],
              [uri |-> "exempt", agent |-> "tool"], [uri |-> "canary", agent |-> "plain"]},
    Configs <- {[Modest EXCEPT !.signals = {"threat_feed"}, !.fail_open = FALSE,
                               !.fingerprint = FALSE],
                [Modest EXCEPT !.signals = {"rdns"}, !.community = TRUE, !.probe = "all",
                               !.onListed = "challenge", !.onProbe = "challenge"],
                [Modest EXCEPT !.signals = {"asn", "dnsbl"}, !.greylisted = TRUE,
                               !.fingerprint = FALSE, !.probe = "suspicious"]},
    VERDICT_TTL <- 2, VERDICT_TTL_EMERGENCY <- 1, DEADLINE <- 1, BAN_TIME <- 3, MaxInstant <- 3,
    Uploaded <- {"u"}, max_scan_bytes <- 2, MaxPieces <- 4,
    Settings <- {Scanning("pass", "block", TRUE), Scanning("block", "block", FALSE),
                 Scanning("pass", "flag", FALSE),
                 [Scanning("pass", "block", FALSE) EXCEPT !.enabled = FALSE]},
    Sources <- {"s", "t"}, Refreshers <- {"job", "run"}, Server <- "server", Cli <- "cli",
    ProcessOf <- [job |-> "server", run |-> "cli"], MaxEdits <- 2, MaxVersions <- 2

-----------------------------------------------------------------------------
(* Tables.                                                                 *)

\* One table over another: its entries, and those of the other where it has none.
LEMMA OverDomain ==
    \A f, g, x : x \in DOMAIN Over(f, g) <=> (x \in DOMAIN f \/ x \in DOMAIN g)
  BY DEF Over

LEMMA OverFirst == \A f, g, x : x \in DOMAIN f => Over(f, g)[x] = f[x]
  BY DEF Over

LEMMA OverSecond ==
    \A f, g, x : x \in DOMAIN g => (x \notin DOMAIN f => Over(f, g)[x] = g[x])
  BY DEF Over

\* Every entry of a table of choices has a first option.
Menu(g) == \A x \in DOMAIN g : 1 \in DOMAIN g[x]

LEMMA OverMenus == ASSUME NEW f, NEW g, Menu(f), Menu(g) PROVE Menu(Over(f, g))
<1> SUFFICES ASSUME NEW x \in DOMAIN Over(f, g) PROVE 1 \in DOMAIN Over(f, g)[x]
  BY DEF Menu
<1>1. CASE x \in DOMAIN f
  BY <1>1, OverFirst DEF Menu
<1>2. CASE x \notin DOMAIN f
  <2>1. x \in DOMAIN g
    BY <1>2, OverDomain
  <2> QED
    BY <1>2, <2>1, OverSecond DEF Menu
<1> QED
  BY <1>1, <1>2

\* Every feature can be at its default.
LEMMA DefaultIsAnOption == \A f \in Features : Default(f) \in Options(f)
<1>1. Menu(ClientChoices) /\ Menu(TlsChoices) /\ Menu(OriginChoices) /\ Menu(ResponseChoices)
  BY DEF Menu, ClientChoices, TlsChoices, OriginChoices, ResponseChoices
<1>2. Menu(ContentChoices) /\ Menu(GateChoices) /\ Menu(ScanChoices) /\ Menu(RawChoices)
  BY DEF Menu, ContentChoices, GateChoices, ScanChoices, RawChoices
<1>3. Menu(Choices)
  BY <1>1, <1>2, OverMenus DEF Choices
<1> QED
  BY <1>3 DEF Menu, Features, Default, Options

\* The features the renderers name.
LEMMA NamedFeatures ==
    /\ {"tls", "mtls", "origin", "proxy", "websockets", "cors", "methods"} \subseteq Features
    /\ {"robots", "security_txt", "error_pages", "connections", "challenge",
        "enforcement", "upload_scan"} \subseteq Features
    /\ Files \subseteq Features
<1>1. \A x : x \in Features <=>
        \/ x \in DOMAIN ClientChoices \/ x \in DOMAIN TlsChoices \/ x \in DOMAIN OriginChoices
        \/ x \in DOMAIN ResponseChoices \/ x \in DOMAIN ContentChoices
        \/ x \in DOMAIN GateChoices \/ x \in DOMAIN ScanChoices \/ x \in DOMAIN RawChoices
  BY OverDomain DEF Features, Choices
<1>2. {"tls", "mtls", "origin", "proxy", "websockets", "cors", "methods"} \subseteq Features
  BY <1>1 DEF ClientChoices, TlsChoices, OriginChoices, ResponseChoices
<1>3. {"robots", "security_txt", "error_pages", "connections", "challenge",
        "enforcement", "upload_scan"} \subseteq Features
  BY <1>1 DEF ClientChoices, ContentChoices, GateChoices, ScanChoices
<1> QED
  BY <1>2, <1>3 DEF Files

\* The challenge is off unless it is switched on.
LEMMA ChallengeIsOff == Default("challenge") = "off"
<1>1. "challenge" \notin DOMAIN ClientChoices /\ "challenge" \notin DOMAIN TlsChoices
  BY DEF ClientChoices, TlsChoices
<1>2. "challenge" \notin DOMAIN OriginChoices /\ "challenge" \notin DOMAIN ResponseChoices
  BY DEF OriginChoices, ResponseChoices
<1>3. "challenge" \notin DOMAIN ContentChoices
  BY DEF ContentChoices
<1>4. "challenge" \in DOMAIN GateChoices /\ GateChoices["challenge"] = <<"off", "on">>
  BY DEF GateChoices
<1>5. \A a, b, c, d, e, f, g, x :
        /\ x \notin DOMAIN a /\ x \notin DOMAIN b /\ x \notin DOMAIN c /\ x \notin DOMAIN d
        /\ x \notin DOMAIN e /\ x \in DOMAIN f
        => Over(a, Over(b, Over(c, Over(d, Over(e, Over(f, g))))))[x] = f[x]
  <2> TAKE a, b, c, d, e, f, g, x
  <2> HAVE /\ x \notin DOMAIN a /\ x \notin DOMAIN b /\ x \notin DOMAIN c /\ x \notin DOMAIN d
           /\ x \notin DOMAIN e /\ x \in DOMAIN f
  <2>1. x \in DOMAIN Over(f, g) /\ Over(f, g)[x] = f[x]
    BY OverDomain, OverFirst
  <2>2. x \in DOMAIN Over(e, Over(f, g)) /\ Over(e, Over(f, g))[x] = f[x]
    BY <2>1, OverDomain, OverSecond
  <2>3. /\ x \in DOMAIN Over(d, Over(e, Over(f, g)))
        /\ Over(d, Over(e, Over(f, g)))[x] = f[x]
    BY <2>2, OverDomain, OverSecond
  <2>4. /\ x \in DOMAIN Over(c, Over(d, Over(e, Over(f, g))))
        /\ Over(c, Over(d, Over(e, Over(f, g))))[x] = f[x]
    BY <2>3, OverDomain, OverSecond
  <2>5. /\ x \in DOMAIN Over(b, Over(c, Over(d, Over(e, Over(f, g)))))
        /\ Over(b, Over(c, Over(d, Over(e, Over(f, g)))))[x] = f[x]
    BY <2>4, OverDomain, OverSecond
  <2> QED
    BY <2>5, OverSecond
<1>7. Choices["challenge"] = <<"off", "on">>
  BY <1>1, <1>2, <1>3, <1>4, <1>5 DEF Choices
<1> QED
  BY <1>7 DEF Default

\* What the gates need.
LEMMA GatesNeed ==
    Needs("challenge") = {"backend"} /\ Needs("upload_scan") = {"backend", "upstream"}
<1>1. {"challenge", "upload_scan"} \subseteq DOMAIN Gates
  BY DEF Gates
<1>2. Rules["challenge"] = Gates["challenge"] /\ Rules["upload_scan"] = Gates["upload_scan"]
  BY <1>1, OverDomain, OverFirst, OverSecond DEF Rules
<1> QED
  BY <1>2 DEF Needs, Gates, Rule

-----------------------------------------------------------------------------
(* What a rendering does.                                                  *)

\* Options for every feature.
AllSet(s) == s = [f \in Features |-> s[f]] /\ \A f \in Features : s[f] \in Options(f)

LEMMA OneChanged ==
    ASSUME NEW s, AllSet(s), NEW f \in Features, NEW option \in Options(f)
    PROVE  AllSet([s EXCEPT ![f] = option])
  BY DEF AllSet

LEMMA SkippedAreFeatures == ASSUME NEW s, NEW h PROVE Skipped(s, h) \subseteq Features
<1> DEFINE generic == {f \in Features \ {"tls", "mtls", "proxy"} :
        On(s, f) /\ s[f] \notin Nothing(f)
            /\ (s[f] \in Inexpressible(f) \/ ~(Needs(f) \subseteq h))}
<1>1. generic \subseteq Features
  OBVIOUS
<1> HIDE DEF generic
<1>2. TlsFails(s, h) \subseteq {"tls", "mtls"}
  BY DEF TlsFails
<1> QED
  BY <1>1, <1>2, NamedFeatures DEF Skipped, generic

\* A file that is written is an option of its feature.
LEMMA FilesAreOptions ==
    ASSUME NEW s, AllSet(s), NEW h, NEW a \in Files
    PROVE  Written(s, h, a) \in Options(a) \cup {NoFile}
<1>1. s[a] \in Options(a)
  BY NamedFeatures DEF AllSet
<1>2. a \in {"robots", "security_txt", "tls", "error_pages"}
  BY DEF Files
<1>3. CASE a \in {"robots", "security_txt"}
  BY <1>1, <1>3 DEF Written, Text
<1>4. CASE a = "tls"
  BY <1>1, <1>4 DEF Written
<1>5. CASE a = "error_pages"
  BY <1>1, <1>5 DEF Written
<1> QED
  BY <1>2, <1>3, <1>4, <1>5

-----------------------------------------------------------------------------
(* The invariant. *)

SiteSpec == SiteInit /\ [][SiteNext]_siteVars

\* Everything is an option of its feature, and before the first change it is the default.
SiteInv ==
    /\ AllSet(settings) /\ AllSet(written.settings)
    /\ written = [settings |-> written.settings, host |-> written.host]
    /\ written.host \in Hosts /\ report \subseteq Features /\ drafted \in BOOLEAN
    /\ changed \in 0..MaxChanges
    /\ assets = [a \in Files |-> assets[a]]
    /\ \A a \in Files : assets[a] \in Options(a) \cup {NoFile}
    /\ changed = 0 => drafted = FALSE /\ settings = [f \in Features |-> Default(f)]
    /\ FilesAreStored

\* A rendering of s for the host leaves files and a report of s.
LEMMA RenderDoes ==
    ASSUME SiteInv, NEW s, AllSet(s), Render(s)
    PROVE  /\ report' = Skipped(s, written.host) /\ report' \subseteq Features
           /\ assets' = [a \in Files |-> assets'[a]]
           /\ \A a \in Files : assets'[a] \in Options(a) \cup {NoFile}
           /\ \A a \in Files : Written(s, written.host, a) \in {NoFile, assets'[a]}
<1>1. report' = Skipped(s, written.host) /\ report' \subseteq Features
  BY SkippedAreFeatures DEF Render
<1>2. assets' = [a \in Files |->
          IF Written(s, written.host, a) # NoFile THEN Written(s, written.host, a) ELSE assets[a]]
  BY DEF Render, WriteAssets
<1>3. \A a \in Files : Written(s, written.host, a) \in Options(a) \cup {NoFile}
  BY FilesAreOptions
<1>4. \A a \in Files : assets[a] \in Options(a) \cup {NoFile}
  BY DEF SiteInv
<1> QED
  BY <1>1, <1>2, <1>3, <1>4

\* Nothing is on, so the first Caddyfile has no files.
LEMMA SiteInvInit == SiteRenderAssumption /\ SiteInit => SiteInv
<1> SUFFICES ASSUME SiteRenderAssumption, SiteInit PROVE SiteInv
  OBVIOUS
<1> DEFINE default == [f \in Features |-> Default(f)]
<1>1. settings = default
  BY DEF SiteInit
<1>2. PICK h \in Hosts : written = [settings |-> settings, host |-> h]
  BY DEF SiteInit
<1>3. AllSet(default)
  BY DefaultIsAnOption DEF AllSet
<1>4. /\ assets = [a \in Files |-> NoFile] /\ report = {} /\ drafted = FALSE /\ changed = 0
  BY DEF SiteInit
<1>5. written.settings = default /\ written.host = h
  BY <1>1, <1>2
<1>6. default.tls = Default("tls") /\ default["robots"] = Default("robots")
      /\ default["security_txt"] = Default("security_txt")
      /\ default["error_pages"] = Default("error_pages") /\ default.challenge = "off"
  BY NamedFeatures, ChallengeIsOff
<1>7. \A f \in Features : ~On(default, f)
  BY <1>6 DEF On
<1>8. Default("tls") = "default"
  <2>1. Choices["tls"] = TlsChoices["tls"]
    BY OverDomain, OverFirst, OverSecond DEF Choices, ClientChoices, TlsChoices
  <2> QED
    BY <2>1 DEF Default, TlsChoices
<1>9. \A a \in Files : Written(default, h, a) = NoFile
  <2> TAKE a \in Files
  <2>1. ~On(default, a)
    BY <1>7, NamedFeatures
  <2>2. ~Emits(default, h, "error_pages")
    BY <1>7, NamedFeatures DEF Emits
  <2>3. default.tls \notin {"custom", "renewed"}
    BY <1>6, <1>8
  <2>4. a \in {"robots", "security_txt", "tls", "error_pages"}
    BY DEF Files
  <2>5. CASE a \in {"robots", "security_txt"}
    BY <2>1, <2>5 DEF Written, Text
  <2>6. CASE a = "tls"
    BY <2>3, <2>6 DEF Written
  <2>7. CASE a = "error_pages"
    BY <2>2, <2>7 DEF Written
  <2> QED
    BY <2>4, <2>5, <2>6, <2>7
<1> HIDE DEF default
<1>10. FilesAreStored
  BY <1>1, <1>4, <1>5, <1>9 DEF FilesAreStored
<1>11. AllSet(settings) /\ AllSet(written.settings)
  BY <1>1, <1>3, <1>5
<1>12. written = [settings |-> written.settings, host |-> written.host] /\ written.host \in Hosts
  BY <1>2
<1>13. /\ report \subseteq Features /\ drafted \in BOOLEAN /\ changed \in 0..MaxChanges
       /\ assets = [a \in Files |-> assets[a]]
       /\ \A a \in Files : assets[a] \in Options(a) \cup {NoFile}
  <2>1. changed \in 0..MaxChanges
    BY <1>4 DEF SiteRenderAssumption
  <2>2. report \subseteq Features /\ drafted \in BOOLEAN
    BY <1>4
  <2>3. assets = [a \in Files |-> assets[a]] /\ \A a \in Files : assets[a] = NoFile
    BY <1>4
  <2> QED
    BY <2>1, <2>2, <2>3
<1>14. changed = 0 => drafted = FALSE /\ settings = [f \in Features |-> Default(f)]
  BY <1>1, <1>4 DEF default
<1> QED
  BY <1>10, <1>11, <1>12, <1>13, <1>14 DEF SiteInv

LEMMA ChangeKeepsSiteInv ==
    ASSUME SiteRenderAssumption, SiteInv, NEW f \in Features, NEW option \in Options(f),
           Change(f, option)
    PROVE  SiteInv'
<1> DEFINE s == [settings EXCEPT ![f] = option]
<1>1. AllSet(s)
  BY OneChanged DEF SiteInv
<1>2. /\ changed' = changed + 1 /\ changed < MaxChanges /\ drafted' = FALSE
      /\ settings' = s /\ written' = [written EXCEPT !.settings = s] /\ Render(s)
  BY DEF Change
<1> HIDE DEF s
<1>3. written' = [settings |-> s, host |-> written.host] /\ written.host \in Hosts
  BY <1>2 DEF SiteInv
<1>4. written'.settings = s /\ written'.host = written.host
  BY <1>3
<1>5. changed' \in 0..MaxChanges /\ changed' # 0
  BY <1>2 DEF SiteInv, SiteRenderAssumption
<1>6. FilesAreStored'
  BY <1>1, <1>2, <1>4, RenderDoes DEF FilesAreStored
<1> QED
  BY <1>1, <1>2, <1>3, <1>4, <1>5, <1>6, RenderDoes DEF SiteInv

LEMMA DraftKeepsSiteInv ==
    ASSUME SiteRenderAssumption, SiteInv, NEW f \in Features, NEW option \in Options(f),
           Draft(f, option)
    PROVE  SiteInv'
<1> DEFINE s == [settings EXCEPT ![f] = option]
<1>1. AllSet(s)
  BY OneChanged DEF SiteInv
<1>2. /\ changed' = MaxChanges /\ changed < MaxChanges /\ drafted' = TRUE
      /\ UNCHANGED <<settings, written>> /\ Render(s)
  BY DEF Draft
<1> HIDE DEF s
<1>3. changed' \in 0..MaxChanges /\ changed' # 0
  BY <1>2 DEF SiteInv, SiteRenderAssumption
<1>4. FilesAreStored'
  BY <1>2 DEF FilesAreStored
<1> QED
  BY <1>1, <1>2, <1>3, <1>4, RenderDoes DEF SiteInv

LEMMA RerenderKeepsSiteInv == ASSUME SiteInv, Rerender PROVE SiteInv'
<1>1. /\ drafted /\ drafted' = FALSE /\ written' = [written EXCEPT !.settings = settings]
      /\ UNCHANGED <<settings, changed>> /\ Render(settings)
  BY DEF Rerender
<1>2. AllSet(settings)
  BY DEF SiteInv
<1>3. written' = [settings |-> settings, host |-> written.host] /\ written.host \in Hosts
  BY <1>1 DEF SiteInv
<1>4. written'.settings = settings /\ written'.host = written.host
  BY <1>3
<1>5. FilesAreStored'
  BY <1>1, <1>2, <1>4, RenderDoes DEF FilesAreStored
<1> QED
  BY <1>1, <1>2, <1>3, <1>4, <1>5, RenderDoes DEF SiteInv

LEMMA SiteInvariant == ASSUME SiteRenderAssumption PROVE SiteSpec => []SiteInv
<1>1. SiteInit => SiteInv
  BY SiteInvInit
<1>2. SiteInv /\ [SiteNext]_siteVars => SiteInv'
  <2>1. SiteInv /\ UNCHANGED siteVars => SiteInv'
    BY DEF SiteInv, siteVars, FilesAreStored
  <2>2. SiteInv /\ SiteNext => SiteInv'
    BY ChangeKeepsSiteInv, DraftKeepsSiteInv, RerenderKeepsSiteInv DEF SiteNext
  <2> QED
    BY <2>1, <2>2
<1> QED
  BY <1>1, <1>2, PTL DEF SiteSpec

LEMMA SiteInvTypes == SiteInv => SiteTypeOK
  BY DEF SiteInv, SiteTypeOK, AllSet

-----------------------------------------------------------------------------
(* No setting does nothing silently. *)

\* What is on, is rendered or reported, with the exceptions NothingSilent names.
LEMMA OnIsRenderedOrSkipped ==
    ASSUME NEW s, NEW h, NEW f \in Features, On(s, f)
    PROVE  \/ f \in Rendered(s, h) \/ f \in Skipped(s, h)
           \/ s[f] \in Nothing(f)
           \/ f = "websockets" /\ (~ProxyActs(s) \/ "proxy" \in Skipped(s, h))
           \/ f = "proxy" /\ s.origin # "reverse-proxy"
           \/ {f, "tls"} = {"tls", "mtls"} /\ {"tls", "mtls"} \cap Skipped(s, h) # {}
           \/ f = "tls" /\ "mtls" \in Skipped(s, h)
<1> SUFFICES ASSUME s[f] \notin Nothing(f), ~Emits(s, h, f), f \notin Skipped(s, h)
             PROVE  \/ f = "websockets" /\ (~ProxyActs(s) \/ "proxy" \in Skipped(s, h))
                    \/ f = "proxy" /\ s.origin # "reverse-proxy"
                    \/ {f, "tls"} = {"tls", "mtls"} /\ {"tls", "mtls"} \cap Skipped(s, h) # {}
                    \/ f = "tls" /\ "mtls" \in Skipped(s, h)
  BY DEF Rendered
<1>1. TlsFails(s, h) \in {{}, {"tls"}, {"mtls"}}
  BY DEF TlsFails
<1>2. TlsAsked(s) => TlsFails(s, h) \subseteq Skipped(s, h)
  BY DEF Skipped
<1>3. ProxyActs(s) /\ "upstream" \notin h => "proxy" \in Skipped(s, h)
  BY DEF Skipped
<1>4. CASE f = "tls"
  <2>1. TlsAsked(s) /\ TlsFails(s, h) # {}
    BY <1>4 DEF TlsAsked, Emits
  <2> QED
    BY <1>1, <1>2, <1>4, <2>1
<1>5. CASE f = "mtls"
  <2>1. TlsAsked(s) /\ TlsFails(s, h) # {}
    BY <1>5 DEF TlsAsked, Emits
  <2> QED
    BY <1>1, <1>2, <1>5, <2>1
<1>6. CASE f = "proxy"
  <2>1. ~(ProxyActs(s) /\ "upstream" \in h)
    BY <1>6 DEF Emits
  <2> QED
    BY <1>3, <1>6, <2>1 DEF ProxyActs
<1>7. CASE f = "websockets"
  <2>1. ~(ProxyActs(s) /\ "upstream" \in h)
    BY <1>7 DEF Emits
  <2> QED
    BY <1>3, <1>7, <2>1
<1>8. CASE f \notin {"tls", "mtls", "proxy", "websockets"}
  <2>1. s[f] \in Inexpressible(f) \/ ~(Needs(f) \subseteq h)
    BY <1>8 DEF Emits
  <2> QED
    BY <1>8, <2>1 DEF Skipped
<1> QED
  BY <1>4, <1>5, <1>6, <1>7, <1>8

LEMMA SiteInvSilent == SiteInv => NothingSilent
<1> SUFFICES ASSUME SiteInv, ~drafted, NEW f \in Features, On(written.settings, f)
             PROVE  LET s == written.settings IN
                    \/ f \in Rendered(s, written.host) \/ f \in report
                    \/ s[f] \in Nothing(f)
                    \/ f = "websockets" /\ (~ProxyActs(s) \/ "proxy" \in report)
                    \/ f = "proxy" /\ s.origin # "reverse-proxy"
                    \/ {f, "tls"} = {"tls", "mtls"} /\ {"tls", "mtls"} \cap report # {}
                    \/ f = "tls" /\ "mtls" \in report
  BY DEF NothingSilent
<1>1. written.settings = settings
  BY DEF SiteInv, FilesAreStored
<1>2. changed # 0
  <2> SUFFICES ASSUME changed = 0 PROVE FALSE
    OBVIOUS
  <2>1. settings = [x \in Features |-> Default(x)]
    BY DEF SiteInv
  <2>2. settings[f] = Default(f) /\ settings.challenge = "off"
    BY <2>1, NamedFeatures, ChallengeIsOff
  <2> QED
    BY <1>1, <2>2 DEF On
<1>3. report = Skipped(written.settings, written.host)
  <2>1. changed > 0
    BY <1>2 DEF SiteInv
  <2> QED
    BY <1>1, <2>1 DEF SiteInv, FilesAreStored
<1> QED
  BY <1>3, OnIsRenderedOrSkipped

-----------------------------------------------------------------------------
(* The order of the blocks. *)

\* Of some blocks one has the least number.
LEMMA OneIsFirst ==
    ASSUME NEW T \in SUBSET DOMAIN Priority, T # {}
    PROVE  \E b \in T : \A c \in T : Priority[b] <= Priority[c]
<1> DEFINE numbers == {Priority[b] : b \in T}
           R == OpToRel(<, Nat)
<1>1. \A b \in DOMAIN Priority : Priority[b] \in Nat
  BY DEF Priority
<1>2. numbers \in SUBSET Nat /\ numbers # {}
  BY <1>1
<1>3. IsWellFoundedOn(R, Nat)
  BY NatLessThanWellFounded
<1>4. \A x, y \in Nat : x < y => <<x, y>> \in R
  BY DEF OpToRel
<1> HIDE DEF R, numbers
<1>5. PICK n \in numbers : \A m \in numbers : <<m, n>> \notin R
  BY <1>2, <1>3, WFMin
<1>6. ASSUME NEW m \in numbers PROVE n <= m
  <2>1. n \in Nat /\ m \in Nat
    BY <1>2
  <2>2. ~(m < n)
    BY <1>4, <1>5, <2>1
  <2> QED
    BY <2>1, <2>2
<1> QED
  BY <1>6 DEF numbers

\* Who takes a request: nobody before him wants it.
LEMMA TakenByTheFirst ==
    ASSUME NEW s, NEW h, NEW r,
           NEW b, b = TakenBy(s, h, r),
           NEW T, T = {c \in DOMAIN Priority : HandleOf(s, h, c) /\ Matches(s, c, r)}
    PROVE  \/ b = "operator" /\ T = {}
           \/ b \in T /\ \A c \in T : Priority[b] <= Priority[c]
<1>1. CASE T = {}
  BY <1>1 DEF TakenBy
<1>2. CASE T # {}
  <2>1. b = CHOOSE x \in T : \A c \in T : Priority[x] <= Priority[c]
    BY <1>2 DEF TakenBy
  <2>2. \E x \in T : \A c \in T : Priority[x] <= Priority[c]
    BY <1>2, OneIsFirst
  <2> QED
    BY <2>1, <2>2
<1> QED
  BY <1>1, <1>2

\* The numbers, as far as the promises depend on them.
LEMMA Order ==
    /\ DOMAIN Priority = {"methods", "challenge", "robots", "security_txt", "cors", "preflight",
                          "upload_scan", "websockets", "proxy", "origin"}
    /\ \A b \in DOMAIN Priority :
          /\ Priority[b] <= Priority["methods"] => b = "methods"
          /\ Priority[b] <= Priority["challenge"] => b \in {"methods", "challenge"}
          /\ Priority[b] <= Priority["robots"] => b \in {"methods", "challenge", "robots"}
          /\ Priority[b] <= Priority["security_txt"] =>
                b \in {"methods", "challenge", "robots", "security_txt"}
          /\ Priority[b] <= Priority["cors"] =>
                b \notin {"preflight", "upload_scan", "websockets", "proxy", "origin"}
          /\ Priority[b] <= Priority["preflight"] =>
                b \notin {"upload_scan", "websockets", "proxy", "origin"}
          /\ Priority[b] <= Priority["upload_scan"] => b \notin {"websockets", "proxy", "origin"}
          /\ Priority[b] <= Priority["websockets"] => b \notin {"proxy", "origin"}
  BY DEF Priority

LEMMA PromisesAreKept ==
    ASSUME NEW s, NEW h, NEW r, NEW by, by = TakenBy(s, h, r)
    PROVE  LET Wants(b) == HandleOf(s, h, b) /\ Matches(s, b, r) IN
           /\ Wants("methods") => by = "methods"
           /\ r.path = "challenge" /\ Emits(s, h, "challenge") =>
                  by \in {"challenge", "methods"} /\ ~Gated(s, h, r)
           /\ Wants("upload_scan") => by \notin {"proxy", "origin", "operator"}
           /\ r.path \in {"robots", "security_txt"} /\ Emits(s, h, r.path) =>
                  by \in {r.path, "methods"}
           /\ by \in {"proxy", "origin", "operator", "upload_scan"} =>
                  ~Wants("cors") /\ ~Wants("preflight")
           /\ by \in {"proxy", "origin", "operator"} => ~Wants("websockets")
           /\ by \in {"challenge", "upload_scan"} => "backend" \in h
           /\ by \in {"upload_scan", "proxy"} => "upstream" \in h
<1> DEFINE Wants(b) == HandleOf(s, h, b) /\ Matches(s, b, r)
           T == {c \in DOMAIN Priority : Wants(c)}
<1>1. \/ by = "operator" /\ T = {}
      \/ by \in T /\ \A c \in T : Priority[by] <= Priority[c]
  <2>1. T = {c \in DOMAIN Priority : HandleOf(s, h, c) /\ Matches(s, c, r)}
    OBVIOUS
  <2> HIDE DEF T
  <2> QED
    BY <2>1, TakenByTheFirst
<1>2. \A c : c \in T <=> (c \in DOMAIN Priority /\ Wants(c))
  OBVIOUS
<1>3. by \in T => Wants(by) /\ by \in DOMAIN Priority
  BY <1>2
<1> HIDE DEF T
\* A block that wants the request is there to take it, unless an earlier one does.
<1>4. \A c \in DOMAIN Priority : Wants(c) => by \in T /\ Priority[by] <= Priority[c]
  BY <1>1, <1>2
<1>5. /\ HandleOf(s, h, "challenge") = Emits(s, h, "challenge")
      /\ HandleOf(s, h, "robots") = Emits(s, h, "robots")
      /\ HandleOf(s, h, "security_txt") = Emits(s, h, "security_txt")
      /\ HandleOf(s, h, "upload_scan") = Emits(s, h, "upload_scan")
      /\ HandleOf(s, h, "proxy") = Emits(s, h, "proxy")
  BY DEF HandleOf
<1>6. /\ Matches(s, "challenge", r) = (r.path = "challenge")
      /\ Matches(s, "robots", r) = (r.path = "robots")
      /\ Matches(s, "security_txt", r) = (r.path = "security_txt")
  BY DEF Matches
<1> HIDE DEF Wants
<1>7. Wants("methods") => by = "methods"
  BY <1>3, <1>4, Order
<1>8. ASSUME r.path = "challenge", Emits(s, h, "challenge")
      PROVE  by \in {"challenge", "methods"} /\ ~Gated(s, h, r)
  <2>1. Wants("challenge")
    BY <1>5, <1>6, <1>8 DEF Wants
  <2> QED
    BY <1>3, <1>4, <1>8, <2>1, Order DEF Gated
<1>9. Wants("upload_scan") => by \notin {"proxy", "origin", "operator"}
  BY <1>3, <1>4, Order
<1>10. ASSUME r.path \in {"robots", "security_txt"}, Emits(s, h, r.path)
       PROVE  by \in {r.path, "methods"}
  <2>1. Wants(r.path)
    BY <1>5, <1>6, <1>10 DEF Wants
  <2>2. by \in {"methods", "challenge", "robots", "security_txt"}
    BY <1>3, <1>4, <1>10, <2>1, Order
  <2>3. by \in {"challenge", "robots", "security_txt"} => by = r.path
    <3>1. Wants(by)
      BY <1>3, <1>4, <1>10, <2>1, Order
    <3> QED
      BY <1>6, <3>1 DEF Wants
  <2> QED
    BY <2>2, <2>3
<1>11. by \in {"proxy", "origin", "operator", "upload_scan"} =>
           ~Wants("cors") /\ ~Wants("preflight")
  BY <1>3, <1>4, Order
<1>12. by \in {"proxy", "origin", "operator"} => ~Wants("websockets")
  BY <1>3, <1>4, Order
<1>13. by # "operator" => Wants(by)
  BY <1>1, <1>3
<1>14. by \in {"challenge", "upload_scan"} => "backend" \in h
  <2>1. \A f \in {"challenge", "upload_scan"} : Emits(s, h, f) => Needs(f) \subseteq h
    BY DEF Emits
  <2> QED
    BY <1>5, <1>13, <2>1, GatesNeed DEF Wants
<1>15. by \in {"upload_scan", "proxy"} => "upstream" \in h
  <2>1. Emits(s, h, "upload_scan") => Needs("upload_scan") \subseteq h
    BY DEF Emits
  <2>2. Emits(s, h, "proxy") => "upstream" \in h
    BY DEF Emits
  <2> QED
    BY <1>5, <1>13, <2>1, <2>2, GatesNeed DEF Wants
<1> QED
  BY <1>7, <1>8, <1>9, <1>10, <1>11, <1>12, <1>14, <1>15 DEF Wants

\* The order keeps them whatever is set and whatever host it is rendered for.
LEMMA BlocksKeepPromises == OrderKeepsPromises
  BY PromisesAreKept DEF OrderKeepsPromises

(***************************************************************************)
(* What renderCaddyfile() makes of the settings, for every set of things a *)
(* host may have and every number of changes: no setting does nothing      *)
(* silently, the handle blocks of render/site.js keep each other's         *)
(* promises, and after a rendering of the stored settings the files and the*)
(* report are of these.                                                    *)
(***************************************************************************)
THEOREM TheSiteIsAsConfigured ==
    ASSUME SiteRenderAssumption
    PROVE  SiteSpec => [](SiteTypeOK /\ NothingSilent /\ OrderKeepsPromises /\ FilesAreStored)
<1>1. SiteInv => FilesAreStored
  BY DEF SiteInv
<1> QED
  BY <1>1, SiteInvariant, SiteInvTypes, SiteInvSilent, BlocksKeepPromises, PTL

-----------------------------------------------------------------------------
(* The parts run as specified: a step of MCAccess is one of theirs, or they*)
(* stand still.                                                            *)

\* The accounts (PanelProofs).
LEMMA AccountsRuns == Spec => Panel!Spec
<1>1. A!Init => Panel!Init
  BY DEF A!Init, A!None, A!Nothing, Panel!Init, Panel!None, Panel!Nothing
<1>2. A!Next => Panel!Next
  BY DEF A!Next, A!Roles, A!Cli, A!Route, A!Wizard, A!Login, A!Mint, A!Request, A!Fail, A!Bootstrap,
      A!Restart, A!Second, A!Change, A!Nothing, A!mem, A!Remember, A!Holder, A!Recent, A!Server,
      A!None, A!RefreshUsers, A!Live, A!Iat, A!Grants, A!Added, A!Reset, A!MayTurn, A!MayRemove,
      A!USER_REVALIDATE, A!Believed, A!ReadFails, A!Admins, Panel!Next, Panel!Roles, Panel!Cli,
      Panel!Route, Panel!Wizard, Panel!Login, Panel!Mint, Panel!Request, Panel!Fail,
      Panel!Bootstrap, Panel!Restart, Panel!Second, Panel!Change, Panel!Nothing, Panel!mem,
      Panel!Remember, Panel!Holder, Panel!Recent, Panel!Server, Panel!None, Panel!RefreshUsers,
      Panel!Live, Panel!Iat, Panel!Grants, Panel!Added, Panel!Reset, Panel!MayTurn, Panel!MayRemove,
      Panel!USER_REVALIDATE, Panel!Believed, Panel!ReadFails, Panel!Admins
<1>3. UNCHANGED accountVars => UNCHANGED Panel!vars
  BY DEF accountVars, Panel!vars, Panel!mem, Panel!history
<1>4. Next => A!Next \/ UNCHANGED accountVars
  BY DEF Next, AccountsStep, SessionsStep, ClientStep, FactorStep, VerdictsStep, UploadsStep,
         ListsStep, SetupStep, ServiceStep, FormStep, SiteStep,
         panelVars, trafficVars, hostVars
<1>5. UNCHANGED <<part, panelVars, trafficVars>> => UNCHANGED accountVars
  BY DEF panelVars, trafficVars, hostVars
<1>6. Init => Panel!Init
  BY <1>1 DEF Init
<1>7. Next => Panel!Next \/ UNCHANGED Panel!vars
  BY <1>2, <1>3, <1>4
<1>8. UNCHANGED <<part, panelVars, trafficVars>> => UNCHANGED Panel!vars
  BY <1>3, <1>5
<1> QED
  BY <1>6, <1>7, <1>8, PTL DEF Spec, Panel!Spec

\* The sessions (AccessProofs).
LEMMA SessionsRuns == Spec => Access!SessionsSpec
<1>1. S!SessionsInit => Access!SessionsInit
  BY DEF S!SessionsInit, S!NoRun, S!NoReply, Access!SessionsInit, Access!NoRun, Access!NoReply
<1>2. S!SessionsNext => Access!SessionsNext
  BY DEF S!SessionsNext, S!Open, S!Use, S!Logout, S!RevokeAll, S!List, S!Configure, S!Cli,
      S!HalfMinute, S!Dropped, S!Fresh, S!Without, S!NoReply, S!ServerStep, S!Good, S!Touch,
      S!Passes, S!Revoked, S!Promise, S!Mine, S!Pruned, S!rows, S!CliLoads, S!CliReadsRevoked,
      S!CliRevokes, S!CliPersists, S!CliDies, S!IsRevoked, S!Elsewhere, S!IsIdle, S!Seen, S!Adopted,
      S!NoRun, S!Cardinality, Access!SessionsNext, Access!Open, Access!Use, Access!Logout,
      Access!RevokeAll, Access!List, Access!Configure, Access!Cli, Access!HalfMinute,
      Access!Dropped, Access!Fresh, Access!Without, Access!NoReply, Access!ServerStep, Access!Good,
      Access!Touch, Access!Passes, Access!Revoked, Access!Promise, Access!Mine, Access!Pruned,
      Access!rows, Access!CliLoads, Access!CliReadsRevoked, Access!CliRevokes, Access!CliPersists,
      Access!CliDies, Access!IsRevoked, Access!Elsewhere, Access!IsIdle, Access!Seen,
      Access!Adopted, Access!NoRun, Access!Cardinality
<1>3. UNCHANGED sessionVars => UNCHANGED Access!sessionVars
  BY DEF sessionVars, Access!sessionVars, Access!rows
<1>4. Next => S!SessionsNext \/ UNCHANGED sessionVars
  BY DEF Next, AccountsStep, SessionsStep, ClientStep, FactorStep, VerdictsStep, UploadsStep,
         ListsStep, SetupStep, ServiceStep, FormStep, SiteStep,
         panelVars, trafficVars, hostVars
<1>5. UNCHANGED <<part, panelVars, trafficVars>> => UNCHANGED sessionVars
  BY DEF panelVars, trafficVars, hostVars
<1>6. Init => Access!SessionsInit
  BY <1>1 DEF Init
<1>7. Next => Access!SessionsNext \/ UNCHANGED Access!sessionVars
  BY <1>2, <1>3, <1>4
<1>8. UNCHANGED <<part, panelVars, trafficVars>> => UNCHANGED Access!sessionVars
  BY <1>3, <1>5
<1> QED
  BY <1>6, <1>7, <1>8, PTL DEF Spec, Access!SessionsSpec

\* The API client (AccessProofs).
LEMMA ClientRuns == Spec => Access!ClientSpec
<1>1. C!ClientInit => Access!ClientInit
  BY DEF C!ClientInit, C!NoSession, C!New, C!Nonces, C!NoGate, Access!ClientInit, Access!NoSession,
      Access!New, Access!Nonces, Access!NoGate
<1>2. C!ClientNext => Access!ClientNext
  BY DEF C!ClientNext, C!Arrive, C!Handshake, C!Call, C!Gate, C!Receive, C!Unreachable, C!Die,
      C!Restart, C!Login, C!Minutes, C!Verdict, C!RememberNonce, C!Answer, C!CurrentWindow, C!New,
      C!Trusted, C!Sent, C!Asked, C!Conclude, C!Done, C!NoGate, C!Refusals, C!browser, C!Nonces,
      C!IsValidSegment, C!Distance, C!NonceSeen, C!NoSession, Access!ClientNext, Access!Arrive,
      Access!Handshake, Access!Call, Access!Gate, Access!Receive, Access!Unreachable, Access!Die,
      Access!Restart, Access!Login, Access!Minutes, Access!Verdict, Access!RememberNonce,
      Access!Answer, Access!CurrentWindow, Access!New, Access!Trusted, Access!Sent, Access!Asked,
      Access!Conclude, Access!Done, Access!NoGate, Access!Refusals, Access!browser, Access!Nonces,
      Access!IsValidSegment, Access!Distance, Access!NonceSeen, Access!NoSession
<1>3. UNCHANGED clientVars => UNCHANGED Access!clientVars
  BY DEF clientVars, Access!clientVars, Access!browser
<1>4. Next => C!ClientNext \/ UNCHANGED clientVars
  BY DEF Next, AccountsStep, SessionsStep, ClientStep, FactorStep, VerdictsStep, UploadsStep,
         ListsStep, SetupStep, ServiceStep, FormStep, SiteStep,
         panelVars, trafficVars, hostVars
<1>5. UNCHANGED <<part, panelVars, trafficVars>> => UNCHANGED clientVars
  BY DEF panelVars, trafficVars, hostVars
<1>6. Init => Access!ClientInit
  BY <1>1 DEF Init
<1>7. Next => Access!ClientNext \/ UNCHANGED Access!clientVars
  BY <1>2, <1>3, <1>4
<1>8. UNCHANGED <<part, panelVars, trafficVars>> => UNCHANGED Access!clientVars
  BY <1>3, <1>5
<1> QED
  BY <1>6, <1>7, <1>8, PTL DEF Spec, Access!ClientSpec

\* The second factor (AccessProofs).
LEMMA TotpRuns == Spec => Access!TotpSpec
<1>1. F!TotpInit => Access!TotpInit
  BY DEF F!TotpInit, F!Processes, F!Idle, Access!TotpInit, Access!Processes, Access!Idle
<1>2. F!TotpNext => Access!TotpNext
  BY DEF F!TotpNext, F!Processes, F!Asking, F!Ask, F!Ops, F!Read, F!Return, F!Enroll, F!Confirm,
      F!Recover, F!Verify, F!Disable, F!RegenerateRecoveryCodes, F!NextStep, F!Idle, F!IsEnabled,
      F!Codes, F!MayGoOn, F!Save, F!NewCodes, F!Counter, F!Accept, F!RecoveryCode, F!StepCode,
      F!Enrolled, F!NoCode, F!Matches, F!Numbers, F!DEFAULT_WINDOW, Access!TotpNext,
      Access!Processes, Access!Asking, Access!Ask, Access!Ops, Access!Read, Access!Return,
      Access!Enroll, Access!Confirm, Access!Recover, Access!Verify, Access!Disable,
      Access!RegenerateRecoveryCodes, Access!NextStep, Access!Idle, Access!IsEnabled, Access!Codes,
      Access!MayGoOn, Access!Save, Access!NewCodes, Access!Counter, Access!Accept,
      Access!RecoveryCode, Access!StepCode, Access!Enrolled, Access!NoCode, Access!Matches,
      Access!Numbers, Access!DEFAULT_WINDOW
<1>3. UNCHANGED factorVars => UNCHANGED Access!totpVars
  BY DEF factorVars, Access!totpVars
<1>4. Next => F!TotpNext \/ UNCHANGED factorVars
  BY DEF Next, AccountsStep, SessionsStep, ClientStep, FactorStep, VerdictsStep, UploadsStep,
         ListsStep, SetupStep, ServiceStep, FormStep, SiteStep,
         panelVars, trafficVars, hostVars
<1>5. UNCHANGED <<part, panelVars, trafficVars>> => UNCHANGED factorVars
  BY DEF panelVars, trafficVars, hostVars
<1>6. Init => Access!TotpInit
  BY <1>1 DEF Init
<1>7. Next => Access!TotpNext \/ UNCHANGED Access!totpVars
  BY <1>2, <1>3, <1>4
<1>8. UNCHANGED <<part, panelVars, trafficVars>> => UNCHANGED Access!totpVars
  BY <1>3, <1>5
<1> QED
  BY <1>6, <1>7, <1>8, PTL DEF Spec, Access!TotpSpec

\* The judgement of requests (TrafficProofs).
LEMMA VerdictsRuns == Spec => Traffic!EnforcementSpec
<1>1. V!EnforcementInit => Traffic!EnforcementInit
  BY DEF V!EnforcementInit, V!NoVerdict, V!NoPass, V!NoAnswer, V!Out, Traffic!EnforcementInit,
      Traffic!NoVerdict, Traffic!NoPass, Traffic!NoAnswer, Traffic!Out
<1>2. V!EnforcementNext => Traffic!EnforcementNext
  BY DEF V!EnforcementNext, V!Remember, V!Judge, V!Ask, V!Gather, V!Probe, V!Fail, V!SetEmergency,
      V!SetAllowlist, V!Tick, V!NoPass, V!Cached, V!Answer, V!switches, V!Local, V!Conclude,
      V!LocalOutcome, V!NoAnswer, V!Finds, V!Signals, V!Answered, V!Out, V!Unsettled,
      V!CanaryMatches, V!VerdictTtl, V!AsnFinds, V!RdnsFinds, V!DnsblFinds, V!FeedFinds,
      V!NetworkFinds, V!Decisions, V!Asking, V!Settled, V!SettledOutcome, V!Evidence, V!Bans,
      V!Probes, V!ShouldChallenge, V!Gathered, V!IsExempt, V!Decides, Traffic!EnforcementNext,
      Traffic!Remember, Traffic!Judge, Traffic!Ask, Traffic!Gather, Traffic!Probe, Traffic!Fail,
      Traffic!SetEmergency, Traffic!SetAllowlist, Traffic!Tick, Traffic!NoPass, Traffic!Cached,
      Traffic!Answer, Traffic!switches, Traffic!Local, Traffic!Conclude, Traffic!LocalOutcome,
      Traffic!NoAnswer, Traffic!Finds, Traffic!Signals, Traffic!Answered, Traffic!Out,
      Traffic!Unsettled, Traffic!CanaryMatches, Traffic!VerdictTtl, Traffic!AsnFinds,
      Traffic!RdnsFinds, Traffic!DnsblFinds, Traffic!FeedFinds, Traffic!NetworkFinds,
      Traffic!Decisions, Traffic!Asking, Traffic!Settled, Traffic!SettledOutcome, Traffic!Evidence,
      Traffic!Bans, Traffic!Probes, Traffic!ShouldChallenge, Traffic!Gathered, Traffic!IsExempt,
      Traffic!Decides
<1>3. UNCHANGED verdictVars => UNCHANGED Traffic!enforceVars
  BY DEF verdictVars, Traffic!enforceVars
<1>4. Next => V!EnforcementNext \/ UNCHANGED verdictVars
  BY DEF Next, AccountsStep, SessionsStep, ClientStep, FactorStep, VerdictsStep, UploadsStep,
         ListsStep, SetupStep, ServiceStep, FormStep, SiteStep,
         panelVars, trafficVars, hostVars
<1>5. UNCHANGED <<part, panelVars, trafficVars>> => UNCHANGED verdictVars
  BY DEF panelVars, trafficVars, hostVars
<1>6. Init => Traffic!EnforcementInit
  BY <1>1 DEF Init
<1>7. Next => Traffic!EnforcementNext \/ UNCHANGED Traffic!enforceVars
  BY <1>2, <1>3, <1>4
<1>8. UNCHANGED <<part, panelVars, trafficVars>> => UNCHANGED Traffic!enforceVars
  BY <1>3, <1>5
<1> QED
  BY <1>6, <1>7, <1>8, PTL DEF Spec, Traffic!EnforcementSpec

\* The uploads (TrafficProofs).
LEMMA UploadsRuns == Spec => Traffic!UploadsSpec
<1>1. U!UploadsInit => Traffic!UploadsInit
  BY DEF U!UploadsInit, U!None, Traffic!UploadsInit, Traffic!None
<1>2. U!UploadsNext => Traffic!UploadsNext
  BY DEF U!UploadsNext, U!Arrive, U!Piece, U!ReadAll, U!Abort, U!Scan, U!Send, U!SendEmpty, U!Pipe,
      U!OriginAnswers, U!OriginFails, U!StreamEnds, U!StreamBreaks, U!Configure, U!None, U!Set,
      U!Is, U!AfterReading, U!Replies, U!Interpret, Traffic!UploadsNext, Traffic!Arrive,
      Traffic!Piece, Traffic!ReadAll, Traffic!Abort, Traffic!Scan, Traffic!Send, Traffic!SendEmpty,
      Traffic!Pipe, Traffic!OriginAnswers, Traffic!OriginFails, Traffic!StreamEnds,
      Traffic!StreamBreaks, Traffic!Configure, Traffic!None, Traffic!Set, Traffic!Is,
      Traffic!AfterReading, Traffic!Replies, Traffic!Interpret
<1>3. UNCHANGED uploadVars => UNCHANGED Traffic!uploadVars
  BY DEF uploadVars, Traffic!uploadVars
<1>4. Next => U!UploadsNext \/ UNCHANGED uploadVars
  BY DEF Next, AccountsStep, SessionsStep, ClientStep, FactorStep, VerdictsStep, UploadsStep,
         ListsStep, SetupStep, ServiceStep, FormStep, SiteStep,
         panelVars, trafficVars, hostVars
<1>5. UNCHANGED <<part, panelVars, trafficVars>> => UNCHANGED uploadVars
  BY DEF panelVars, trafficVars, hostVars
<1>6. Init => Traffic!UploadsInit
  BY <1>1 DEF Init
<1>7. Next => Traffic!UploadsNext \/ UNCHANGED Traffic!uploadVars
  BY <1>2, <1>3, <1>4
<1>8. UNCHANGED <<part, panelVars, trafficVars>> => UNCHANGED Traffic!uploadVars
  BY <1>3, <1>5
<1> QED
  BY <1>6, <1>7, <1>8, PTL DEF Spec, Traffic!UploadsSpec

\* The lists (TrafficProofs).
LEMMA ListsRuns == Spec => Traffic!ListsSpec
<1>1. L!ListsInit => Traffic!ListsInit
  BY DEF L!ListsInit, L!Resting, Traffic!ListsInit, Traffic!Resting
<1>2. L!ListsNext => Traffic!ListsNext
  BY DEF L!ListsNext, L!Begin, L!End, L!Store, L!Skip, L!Edit, L!Publish, L!Clear, L!Lookup, L!Stop,
      L!history, L!Orphans, L!Invalidate, L!Resting, L!Stored, L!Refreshing, Traffic!ListsNext,
      Traffic!Begin, Traffic!End, Traffic!Store, Traffic!Skip, Traffic!Edit, Traffic!Publish,
      Traffic!Clear, Traffic!Lookup, Traffic!Stop, Traffic!history, Traffic!Orphans,
      Traffic!Invalidate, Traffic!Resting, Traffic!Stored, Traffic!Refreshing
<1>3. UNCHANGED listVars => UNCHANGED Traffic!listVars
  BY DEF listVars, Traffic!listVars
<1>4. Next => L!ListsNext \/ UNCHANGED listVars
  BY DEF Next, AccountsStep, SessionsStep, ClientStep, FactorStep, VerdictsStep, UploadsStep,
         ListsStep, SetupStep, ServiceStep, FormStep, SiteStep,
         panelVars, trafficVars, hostVars
<1>5. UNCHANGED <<part, panelVars, trafficVars>> => UNCHANGED listVars
  BY DEF panelVars, trafficVars, hostVars
<1>6. Init => Traffic!ListsInit
  BY <1>1 DEF Init
<1>7. Next => Traffic!ListsNext \/ UNCHANGED Traffic!listVars
  BY <1>2, <1>3, <1>4
<1>8. UNCHANGED <<part, panelVars, trafficVars>> => UNCHANGED Traffic!listVars
  BY <1>3, <1>5
<1> QED
  BY <1>6, <1>7, <1>8, PTL DEF Spec, Traffic!ListsSpec

\* The installer (PanelProofs).
LEMMA SetupRuns == Spec => Panel!SetupSpec
<1>1. I!SetupInit => Panel!SetupInit
  BY DEF I!SetupInit, I!EmptyEnv, I!NoDomain, I!NoBuild, I!NoRun, Panel!SetupInit, Panel!EmptyEnv,
      Panel!NoDomain, Panel!NoBuild, Panel!NoRun
<1>2. I!SetupNext => Panel!SetupNext
  BY DEF I!SetupNext, I!Editions, I!NoDomain, I!Begin, I!Interrupt, I!ChangeByHand,
      I!EnsureJwtSecret, I!WriteCaddyfile, I!ConfigureDomain, I!WriteFrontendEnv, I!BuildDashboard,
      I!CreateAdminUser, I!ConfigureCatAI, I!RecordEdition, I!StartService, I!CheckDomain,
      I!Configure, I!Validate, I!FirstAdmin, I!Assets, I!Dependencies, I!WritePin, I!Deploy,
      I!SetEnvVar, I!InstallUnit, I!RunSetup, I!Idle, I!WizardSteps, I!BatchSteps, I!InstallerSteps,
      I!Die, I!Rewrites, I!EmptyEnv, I!Invalid, I!NoBuild, I!At, I!Go, I!MakesSecret, I!WriteEnv,
      I!Address, I!RunDomain, I!Build, I!GiveUp, I!Works, I!PinAllows, I!Then, I!Outcome,
      Panel!SetupNext, Panel!Editions, Panel!NoDomain, Panel!Begin, Panel!Interrupt,
      Panel!ChangeByHand, Panel!EnsureJwtSecret, Panel!WriteCaddyfile, Panel!ConfigureDomain,
      Panel!WriteFrontendEnv, Panel!BuildDashboard, Panel!CreateAdminUser, Panel!ConfigureCatAI,
      Panel!RecordEdition, Panel!StartService, Panel!CheckDomain, Panel!Configure, Panel!Validate,
      Panel!FirstAdmin, Panel!Assets, Panel!Dependencies, Panel!WritePin, Panel!Deploy,
      Panel!SetEnvVar, Panel!InstallUnit, Panel!RunSetup, Panel!Idle, Panel!WizardSteps,
      Panel!BatchSteps, Panel!InstallerSteps, Panel!Die, Panel!Rewrites, Panel!EmptyEnv,
      Panel!Invalid, Panel!NoBuild, Panel!At, Panel!Go, Panel!MakesSecret, Panel!WriteEnv,
      Panel!Address, Panel!RunDomain, Panel!Build, Panel!GiveUp, Panel!Works, Panel!PinAllows,
      Panel!Then, Panel!Outcome
<1>3. UNCHANGED setupVars => UNCHANGED Panel!setupVars
  BY DEF setupVars, Panel!setupVars
<1>4. Next => I!SetupNext \/ UNCHANGED setupVars
  BY DEF Next, AccountsStep, SessionsStep, ClientStep, FactorStep, VerdictsStep, UploadsStep,
         ListsStep, SetupStep, ServiceStep, FormStep, SiteStep,
         panelVars, trafficVars, hostVars
<1>5. UNCHANGED <<part, panelVars, trafficVars>> => UNCHANGED setupVars
  BY DEF panelVars, trafficVars, hostVars
<1>6. Init => Panel!SetupInit
  BY <1>1 DEF Init
<1>7. Next => Panel!SetupNext \/ UNCHANGED Panel!setupVars
  BY <1>2, <1>3, <1>4
<1>8. UNCHANGED <<part, panelVars, trafficVars>> => UNCHANGED Panel!setupVars
  BY <1>3, <1>5
<1> QED
  BY <1>6, <1>7, <1>8, PTL DEF Spec, Panel!SetupSpec

\* The server process (PanelProofs).
LEMMA ServiceRuns == Spec => Panel!ServiceSpec
<1>1. P!ServiceInit => Panel!ServiceInit
  BY DEF P!ServiceInit, P!NoCommand, Panel!ServiceInit, Panel!NoCommand
<1>2. P!ServiceNext => Panel!ServiceNext
  BY DEF P!ServiceNext, P!Reboot, P!Install, P!Boots, P!Ends, P!Reused, P!Issue, P!Dies, P!Start,
      P!Record, P!Waited, P!StopNothing, P!Stop, P!Kill, P!Ended, P!Busy, P!Ours, P!Gone,
      P!NoCommand, P!Is, P!Alive, P!Running, P!Say, P!Cleared, P!Set, P!LooksLikeCatwaf, P!Stopped,
      Panel!ServiceNext, Panel!Reboot, Panel!Install, Panel!Boots, Panel!Ends, Panel!Reused,
      Panel!Issue, Panel!Dies, Panel!Start, Panel!Record, Panel!Waited, Panel!StopNothing,
      Panel!Stop, Panel!Kill, Panel!Ended, Panel!Busy, Panel!Ours, Panel!Gone, Panel!NoCommand,
      Panel!Is, Panel!Alive, Panel!Running, Panel!Say, Panel!Cleared, Panel!Set,
      Panel!LooksLikeCatwaf, Panel!Stopped
<1>3. UNCHANGED serviceVars => UNCHANGED Panel!serviceVars
  BY DEF serviceVars, Panel!serviceVars
<1>4. Next => P!ServiceNext \/ UNCHANGED serviceVars
  BY DEF Next, AccountsStep, SessionsStep, ClientStep, FactorStep, VerdictsStep, UploadsStep,
         ListsStep, SetupStep, ServiceStep, FormStep, SiteStep,
         panelVars, trafficVars, hostVars
<1>5. UNCHANGED <<part, panelVars, trafficVars>> => UNCHANGED serviceVars
  BY DEF panelVars, trafficVars, hostVars
<1>6. Init => Panel!ServiceInit
  BY <1>1 DEF Init
<1>7. Next => Panel!ServiceNext \/ UNCHANGED Panel!serviceVars
  BY <1>2, <1>3, <1>4
<1>8. UNCHANGED <<part, panelVars, trafficVars>> => UNCHANGED Panel!serviceVars
  BY <1>3, <1>5
<1> QED
  BY <1>6, <1>7, <1>8, PTL DEF Spec, Panel!ServiceSpec

\* The settings pages (PanelProofs).
LEMMA FormRuns == Spec => Panel!FormSpec
<1>1. M!FormInit => Panel!FormInit
  BY DEF M!FormInit, M!NoDraft, Panel!FormInit, Panel!NoDraft
<1>2. M!FormNext => Panel!FormNext
  BY DEF M!FormNext, M!Open, M!Edit, M!Discard, M!Serve, M!Receive, M!Lose, M!Submit, M!Caddy,
      M!Loaded, M!Free, M!Ask, M!NoDraft, M!Shown, M!SetField, M!Dirty, M!Over, M!Answer, M!Refuse,
      M!Store, M!Defaults, M!Fill, M!Patch, M!Redacted, Panel!FormNext, Panel!Open, Panel!Edit,
      Panel!Discard, Panel!Serve, Panel!Receive, Panel!Lose, Panel!Submit, Panel!Caddy,
      Panel!Loaded, Panel!Free, Panel!Ask, Panel!NoDraft, Panel!Shown, Panel!SetField, Panel!Dirty,
      Panel!Over, Panel!Answer, Panel!Refuse, Panel!Store, Panel!Defaults, Panel!Fill, Panel!Patch,
      Panel!Redacted
<1>3. UNCHANGED formVars => UNCHANGED Panel!formVars
  BY DEF formVars, Panel!formVars
<1>4. Next => M!FormNext \/ UNCHANGED formVars
  BY DEF Next, AccountsStep, SessionsStep, ClientStep, FactorStep, VerdictsStep, UploadsStep,
         ListsStep, SetupStep, ServiceStep, FormStep, SiteStep,
         panelVars, trafficVars, hostVars
<1>5. UNCHANGED <<part, panelVars, trafficVars>> => UNCHANGED formVars
  BY DEF panelVars, trafficVars, hostVars
<1>6. Init => Panel!FormInit
  BY <1>1 DEF Init
<1>7. Next => Panel!FormNext \/ UNCHANGED Panel!formVars
  BY <1>2, <1>3, <1>4
<1>8. UNCHANGED <<part, panelVars, trafficVars>> => UNCHANGED Panel!formVars
  BY <1>3, <1>5
<1> QED
  BY <1>6, <1>7, <1>8, PTL DEF Spec, Panel!FormSpec

\* The rendered site.
LEMMA SiteRuns == Spec => SiteSpec
<1>1. Init => SiteInit
  BY DEF Init
<1>2. Next => SiteNext \/ UNCHANGED siteVars
  BY DEF Next, AccountsStep, SessionsStep, ClientStep, FactorStep, VerdictsStep, UploadsStep,
         ListsStep, SetupStep, ServiceStep, FormStep, SiteStep,
         panelVars, trafficVars, hostVars
<1>3. UNCHANGED <<part, panelVars, trafficVars>> => UNCHANGED siteVars
  BY DEF trafficVars
<1> QED
  BY <1>1, <1>2, <1>3, PTL DEF Spec, SiteSpec

-----------------------------------------------------------------------------
(* What the constants are taken to be.                                     *)

\* Those of the modules AccessProofs is about, and so on.
LEMMA AccessConstants ==
    Access!SessionsConstants /\ Access!ClientAssumption /\ Access!TotpAssumption
<1>1. Access!SessionsConstants
  BY AccessAssumption DEF AccessAssumption, Access!SessionsConstants, S!SessionsAssumption,
      S!SessionSettingsAssumption, Access!SessionsAssumption, Access!SessionSettingsAssumption
<1>2. Access!ClientAssumption
  BY AccessAssumption DEF AccessAssumption, Access!ClientAssumption, C!WindowAssumption,
      C!ClientBoundsAssumption, Access!WindowAssumption, Access!ClientBoundsAssumption
<1>3. Access!TotpAssumption
  BY AccessAssumption DEF AccessAssumption, F!TotpAssumption, Access!TotpAssumption
<1> QED
  BY <1>1, <1>2, <1>3

LEMMA PanelConstants ==
    /\ Panel!AccountsConstants /\ Panel!SetupAssumption /\ Panel!ServiceAssumption
    /\ Panel!FormAssumption
<1>1. Panel!AccountsConstants
  BY AccessAssumption DEF AccessAssumption, Panel!AccountsConstants, A!AccountsAssumption,
      A!AccountBoundsAssumption, A!Account, A!Found, A!Token, A!Roles, Panel!AccountsAssumption,
      Panel!AccountBoundsAssumption, Panel!Account, Panel!Found, Panel!Token, Panel!Roles
<1>2. Panel!SetupAssumption
  BY AccessAssumption DEF AccessAssumption, I!SetupAssumption, I!NoDomain, I!Invalid, I!NoBuild,
      Panel!SetupAssumption, Panel!NoDomain, Panel!Invalid, Panel!NoBuild
<1>3. Panel!ServiceAssumption
  BY AccessAssumption DEF AccessAssumption, P!ServiceAssumption, Panel!ServiceAssumption
<1>4. Panel!FormAssumption
  BY AccessAssumption DEF AccessAssumption, M!FormAssumption, M!Values, M!Previews, M!Answers,
      M!Asked, M!Drafts, M!Defaults, M!Typed, Panel!FormAssumption, Panel!Values, Panel!Previews,
      Panel!Answers, Panel!Asked, Panel!Drafts, Panel!Defaults, Panel!Typed
<1> QED
  BY <1>1, <1>2, <1>3, <1>4

LEMMA TrafficConstants ==
    Traffic!EnforcementAssumption /\ Traffic!UploadsAssumption /\ Traffic!ListsAssumption
<1>1. Traffic!EnforcementAssumption
  BY AccessAssumption DEF AccessAssumption, V!EnforcementAssumption, V!Signals, V!Actions,
      Traffic!EnforcementAssumption, Traffic!Signals, Traffic!Actions
<1>2. Traffic!UploadsAssumption
  BY AccessAssumption DEF AccessAssumption, U!UploadsAssumption, Traffic!UploadsAssumption
<1>3. Traffic!ListsAssumption
  BY AccessAssumption DEF AccessAssumption, L!ListsAssumption, Traffic!ListsAssumption
<1> QED
  BY <1>1, <1>2, <1>3

\* What the theorems say of the requests, the uploads and the lists.
LEMMA TrafficRuns ==
    Spec => /\ [](Traffic!EnforcementTypeOK /\ Traffic!VerdictsHold)
            /\ [](Traffic!UploadsTypeOK /\ Traffic!InfectedStaysOut /\ Traffic!OriginGetsTheBody)
            /\ [](Traffic!ListsTypeOK /\ Traffic!ListsHold)
<1>1. Traffic!EnforcementSpec => [](Traffic!EnforcementTypeOK /\ Traffic!VerdictsHold)
  BY TrafficConstants, Traffic!VerdictsAreSound
<1>2. Traffic!UploadsSpec =>
        [](Traffic!UploadsTypeOK /\ Traffic!InfectedStaysOut /\ Traffic!OriginGetsTheBody)
  BY TrafficConstants, Traffic!UploadsAreScreened
<1>3. Traffic!ListsSpec => [](Traffic!ListsTypeOK /\ Traffic!ListsHold)
  BY TrafficConstants, Traffic!SubscriptionsHold
<1> QED
  BY <1>1, <1>2, <1>3, VerdictsRuns, UploadsRuns, ListsRuns

\* Hosts have nothing the renderer does not know.
LEMMA SiteConstants == SiteRenderAssumption
  BY AccessAssumption DEF AccessAssumption

-----------------------------------------------------------------------------
(* The theorems.                                                           *)

(***************************************************************************)
(* Every variable of the part that runs keeps its type.                    *)
(***************************************************************************)
THEOREM TypeCorrect == Spec => []TypeOK
<1>1. Panel!AccountsTypeOK => A!AccountsTypeOK
  BY DEF A!AccountsTypeOK, A!Lists, A!Found, A!Token, A!Roles, A!Account, Panel!AccountsTypeOK,
      Panel!Lists, Panel!Found, Panel!Token, Panel!Roles, Panel!Account
<1>2. Access!SessionsTypeOK => S!SessionsTypeOK
  BY DEF S!SessionsTypeOK, S!Maps, S!Record, Access!SessionsTypeOK, Access!Maps, Access!Record
<1>3. Access!ClientTypeOK => C!ClientTypeOK
  BY DEF C!ClientTypeOK, C!Steps, C!Replies, C!Nonces, Access!ClientTypeOK, Access!Steps,
      Access!Replies, Access!Nonces
<1>4. Access!TotpTypeOK => F!TotpTypeOK
  BY DEF F!TotpTypeOK, F!Row, F!Processes, F!Idle, F!Asking, F!Ops, F!StepCode, F!RecoveryCode,
      F!NoCode, F!Entry, F!Numbers, F!DEFAULT_WINDOW, Access!TotpTypeOK, Access!Row,
      Access!Processes, Access!Idle, Access!Asking, Access!Ops, Access!StepCode,
      Access!RecoveryCode, Access!NoCode, Access!Entry, Access!Numbers, Access!DEFAULT_WINDOW
<1>5. Traffic!EnforcementTypeOK => V!EnforcementTypeOK
  BY DEF V!EnforcementTypeOK, V!Outcome, V!NoPass, Traffic!EnforcementTypeOK, Traffic!Outcome,
      Traffic!NoPass
<1>6. Traffic!UploadsTypeOK => U!UploadsTypeOK
  BY DEF U!UploadsTypeOK, U!None, U!Upload, U!Answers, Traffic!UploadsTypeOK, Traffic!None,
      Traffic!Upload, Traffic!Answers
<1>7. Traffic!ListsTypeOK => L!ListsTypeOK
  BY DEF L!ListsTypeOK, Traffic!ListsTypeOK
<1>8. Panel!SetupTypeOK => I!SetupTypeOK
  BY DEF I!SetupTypeOK, I!Editions, I!NoDomain, I!Invalid, I!Addresses, I!NoBuild, I!Said, I!Steps,
      Panel!SetupTypeOK, Panel!Editions, Panel!NoDomain, Panel!Invalid, Panel!Addresses,
      Panel!NoBuild, Panel!Said, Panel!Steps, I!Range, Panel!Range
<1>9. Panel!ServiceTypeOK => P!ServiceTypeOK
  BY DEF P!ServiceTypeOK, P!Programs, P!NoCommand, P!Places, Panel!ServiceTypeOK, Panel!Programs,
      Panel!NoCommand, Panel!Places
<1>10. Panel!FormTypeOK => M!FormTypeOK
  BY DEF M!FormTypeOK, M!Values, M!Drafts, M!Previews, M!Asked, M!Defaults, M!Typed, M!Answers,
      Panel!FormTypeOK, Panel!Values, Panel!Drafts, Panel!Previews, Panel!Asked, Panel!Defaults,
      Panel!Typed, Panel!Answers
<1>11. Panel!AccountsInv => Panel!AccountsTypeOK
  BY DEF Panel!AccountsInv
<1>12. Spec => [](Panel!AccountsInv /\ Panel!SetupTypeOK /\ Panel!ServiceTypeOK /\ Panel!FormTypeOK)
  BY PanelConstants, AccountsRuns, SetupRuns, ServiceRuns, FormRuns, Panel!AccountsInvariant,
     Panel!SetupIsWhole, Panel!TheServerIsKnown, Panel!TheScreenIsTrue, PTL
<1>13. Spec => [](Access!SessionsTypeOK /\ Access!ClientTypeOK /\ Access!TotpTypeOK)
  BY AccessConstants, SessionsRuns, ClientRuns, TotpRuns, Access!SignedOutForGood,
     Access!RequestsWorkOnce, Access!NoCodeWorksTwice, PTL
<1>14. Spec => [](Traffic!EnforcementTypeOK /\ Traffic!UploadsTypeOK /\ Traffic!ListsTypeOK)
  BY TrafficRuns, PTL
<1>15. Spec => []SiteTypeOK
  BY SiteConstants, SiteRuns, TheSiteIsAsConfigured, PTL
<1>16. /\ Panel!AccountsInv /\ Panel!SetupTypeOK /\ Panel!ServiceTypeOK /\ Panel!FormTypeOK
       /\ Access!SessionsTypeOK /\ Access!ClientTypeOK /\ Access!TotpTypeOK
       /\ Traffic!EnforcementTypeOK /\ Traffic!UploadsTypeOK /\ Traffic!ListsTypeOK
       /\ SiteTypeOK
       => TypeOK
  BY <1>1, <1>2, <1>3, <1>4, <1>5, <1>6, <1>7, <1>8, <1>9, <1>10, <1>11 DEF TypeOK
<1> QED
  BY <1>12, <1>13, <1>14, <1>15, <1>16, PTL

(***************************************************************************)
(* What proves that a request is genuine works once: the nonce of a call,  *)
(* as verifySignature() remembers it, and the code of a second factor, as  *)
(* totp.js accepts it.                                                     *)
(***************************************************************************)
THEOREM WorksOnce == Spec => []OnceOnly
<1>1. Access!CarriedOutOnce => C!CarriedOutOnce
  BY DEF C!CarriedOutOnce, Access!CarriedOutOnce
<1>2. Access!CodesWorkOnce => F!CodesWorkOnce
  BY DEF F!CodesWorkOnce, Access!CodesWorkOnce
<1>3. Spec => [](Access!CarriedOutOnce /\ Access!CodesWorkOnce)
  BY AccessConstants, ClientRuns, TotpRuns, Access!RequestsWorkOnce, Access!NoCodeWorksTwice, PTL
<1>4. Access!CarriedOutOnce /\ Access!CodesWorkOnce => OnceOnly
  BY <1>1, <1>2 DEF OnceOnly
<1> QED
  BY <1>3, <1>4, PTL

(***************************************************************************)
(* evaluate() bans who asks for a canary path, refuses nobody without      *)
(* grounds, and follows the allowlist and the emergency mode at once; and  *)
(* the upload scanner passes malware on only where the settings say so, and*)
(* nothing but what has arrived.                                           *)
(***************************************************************************)
THEOREM Judged == Spec => []RequestsAreJudged
<1>1. Traffic!VerdictsHold => V!VerdictsHold
  BY DEF V!VerdictsHold, V!CanaryIsCaught, V!RefusalsHaveGrounds, V!AllowlistTakesHold,
      V!EmergencyTakesHold, V!CanaryMatches, Traffic!VerdictsHold, Traffic!CanaryIsCaught,
      Traffic!RefusalsHaveGrounds, Traffic!AllowlistTakesHold, Traffic!EmergencyTakesHold,
      Traffic!CanaryMatches
<1>2. Traffic!InfectedStaysOut /\ Traffic!OriginGetsTheBody =>
        U!InfectedStaysOut /\ U!OriginGetsTheBody
  BY DEF U!InfectedStaysOut, U!OriginGetsTheBody, U!None, Traffic!InfectedStaysOut,
      Traffic!OriginGetsTheBody, Traffic!None
<1>3. Spec => [](Traffic!VerdictsHold /\ Traffic!InfectedStaysOut /\ Traffic!OriginGetsTheBody)
  BY TrafficRuns, PTL
<1>4. Traffic!VerdictsHold /\ Traffic!InfectedStaysOut /\ Traffic!OriginGetsTheBody =>
        RequestsAreJudged
  BY <1>1, <1>2 DEF RequestsAreJudged
<1> QED
  BY <1>3, <1>4, PTL

(***************************************************************************)
(* The entries that answer a lookup are those of the sources that are      *)
(* subscribed, whatever the job, the command line and the admin do to them *)
(* meanwhile.                                                              *)
(***************************************************************************)
THEOREM Subscribed == Spec => []ListsHold
<1>1. Traffic!ListsHold => ListsHold
  BY DEF L!ListsHold, L!RowsFollowSubscriptions, L!LookupsAreCurrent, Traffic!ListsHold,
      Traffic!RowsFollowSubscriptions, Traffic!LookupsAreCurrent, ListsHold
<1>2. Spec => []Traffic!ListsHold
  BY TrafficRuns, PTL
<1> QED
  BY <1>1, <1>2, PTL

(***************************************************************************)
(* Who is served is so entitled by the users table within a second, a new  *)
(* password ends the tokens of the old one, the last admin cannot be       *)
(* removed, and the wizard makes no second account.                        *)
(***************************************************************************)
THEOREM Entitled == Spec => TokensAreEntitled
<1>1. Panel!TokensFollowAccounts => A!TokensFollowAccounts
  BY DEF A!TokensFollowAccounts, A!Roles, Panel!TokensFollowAccounts, Panel!Roles
<1>2. Panel!ResetsEndTokens => A!ResetsEndTokens
  BY DEF A!ResetsEndTokens, A!Live, A!Grants, Panel!ResetsEndTokens, Panel!Live, Panel!Grants
<1>3. Panel!LastAdminStays => A!LastAdminStays
  BY DEF A!LastAdminStays, A!Admins, A!vars, A!Live, A!mem, A!history, Panel!LastAdminStays,
      Panel!Admins, Panel!vars, Panel!Live, Panel!mem, Panel!history
<1>4. Panel!WizardCloses => A!WizardCloses
  BY DEF A!WizardCloses, A!Live, A!vars, A!mem, A!history, Panel!WizardCloses, Panel!Live,
      Panel!vars, Panel!mem, Panel!history
<1>5. Spec => [](Panel!TokensFollowAccounts /\ Panel!ResetsEndTokens)
  BY PanelConstants, AccountsRuns, Panel!ServedAsEntitled, Panel!ResetsTakeHold, PTL
<1>6. Spec => [](A!TokensFollowAccounts /\ A!ResetsEndTokens)
  BY <1>1, <1>2, <1>5, PTL
<1>7. Spec => A!LastAdminStays /\ A!WizardCloses
  BY <1>3, <1>4, PanelConstants, AccountsRuns, Panel!AnAdminRemains, Panel!TheWizardIsShut
<1> QED
  BY <1>6, <1>7 DEF TokensAreEntitled

(***************************************************************************)
(* A token that was revoked stays so, also past a run of the command line  *)
(* on an older file; and a dashboard keeps its session through an outage of*)
(* the server.                                                             *)
(***************************************************************************)
THEOREM SignedOut == Spec => SignedOutStaysOut
<1>1. Access!SignedOutStaysOut => S!SignedOutStaysOut
  BY DEF S!SignedOutStaysOut, Access!SignedOutStaysOut
<1>2. Access!SessionsSurviveOutages => C!SessionsSurviveOutages
  BY DEF C!SessionsSurviveOutages, C!clientVars, C!browser, Access!SessionsSurviveOutages,
      Access!clientVars, Access!browser
<1>3. Spec => []Access!SignedOutStaysOut
  BY AccessConstants, SessionsRuns, Access!SignedOutForGood, PTL
<1>4. Spec => [](part = "sessions" => S!SignedOutStaysOut)
  BY <1>1, <1>3, PTL
<1>5. Spec => C!SessionsSurviveOutages
  BY <1>2, AccessConstants, ClientRuns, Access!OutagesEndNoSession
<1> QED
  BY <1>4, <1>5 DEF SignedOutStaysOut

(***************************************************************************)
(* What the installer or the wizard calls complete is whole, running it    *)
(* again preserves what is there, and `catwaf start`, `stop` and `status`  *)
(* speak of the process that runs and signal no other.                     *)
(***************************************************************************)
THEOREM Whole == Spec => SetupHolds
<1>1. Panel!SetupHolds => I!SetupHolds
  BY DEF I!SetupHolds, I!CompleteIsWhole, I!WizardAgrees, I!BuildIsPinned, I!NoDomain, I!Address,
      I!Works, I!NoBuild, Panel!SetupHolds, Panel!CompleteIsWhole, Panel!WizardAgrees,
      Panel!BuildIsPinned, Panel!NoDomain, Panel!Address, Panel!Works, Panel!NoBuild
<1>2. Panel!RerunPreserves => I!RerunPreserves
  BY DEF I!RerunPreserves, I!EmptyEnv, I!NoDomain, I!setupVars, Panel!RerunPreserves,
      Panel!EmptyEnv, Panel!NoDomain, Panel!setupVars
<1>3. Panel!ServerIsKnown => P!ServerIsKnown
  BY DEF P!ServerIsKnown, P!Busy, P!Running, P!NoCommand, Panel!ServerIsKnown, Panel!Busy,
      Panel!Running, Panel!NoCommand
<1>4. Panel!AnswersAreTrue => P!AnswersAreTrue
  BY DEF P!AnswersAreTrue, P!NoCommand, P!serviceVars, Panel!AnswersAreTrue, Panel!NoCommand,
      Panel!serviceVars
<1>5. Panel!StrangersAreLeftAlone => P!StrangersAreLeftAlone
  BY DEF P!StrangersAreLeftAlone, P!serviceVars, Panel!StrangersAreLeftAlone, Panel!serviceVars
<1>6. Spec => [](Panel!SetupHolds /\ Panel!ServerIsKnown)
  BY PanelConstants, SetupRuns, ServiceRuns, Panel!SetupIsWhole, Panel!TheServerIsKnown, PTL
<1>7. Spec => [](part = "setup" => I!SetupHolds) /\ [](part = "service" => P!ServerIsKnown)
  BY <1>1, <1>3, <1>6, PTL
<1>8. Spec => I!RerunPreserves /\ P!AnswersAreTrue /\ P!StrangersAreLeftAlone
  BY <1>2, <1>4, <1>5, PanelConstants, SetupRuns, ServiceRuns, Panel!RunningAgainPreserves,
     Panel!CommandsSayWhatIsSo, Panel!StrangersGetNoSignal
<1> QED
  BY <1>7, <1>8 DEF SetupHolds

(***************************************************************************)
(* No setting of the site does nothing silently, its blocks keep each      *)
(* other's promises and its files are those of the stored settings; a      *)
(* settings page stores what was edited, shows what is stored and says     *)
(* "Applied" of what is in force.                                          *)
(***************************************************************************)
THEOREM Configured == Spec => SiteIsAsConfigured
<1>1. Panel!ScreenIsTrue => M!ScreenIsTrue
  BY DEF M!ScreenIsTrue, M!Over, M!Loaded, M!Free, M!Dirty, M!Redacted, Panel!ScreenIsTrue,
      Panel!Over, Panel!Loaded, Panel!Free, Panel!Dirty, Panel!Redacted
<1>2. Panel!FormsHold => M!FormsHold
  BY DEF M!FormsHold, M!OnlyEditsAreStored, M!EditsStay, M!AppliedIsLive, M!Serve, M!ResetBy,
      M!formVars, M!Free, M!Receive, M!SaysApplied, M!Over, M!Answer, M!Refuse, M!Store, M!Defaults,
      M!Fill, M!Redacted, M!NoDraft, Panel!FormsHold, Panel!OnlyEditsAreStored, Panel!EditsStay,
      Panel!AppliedIsLive, Panel!Serve, Panel!ResetBy, Panel!formVars, Panel!Free, Panel!Receive,
      Panel!SaysApplied, Panel!Over, Panel!Answer, Panel!Refuse, Panel!Store, Panel!Defaults,
      Panel!Fill, Panel!Redacted, Panel!NoDraft
<1>3. Spec => [](NothingSilent /\ OrderKeepsPromises /\ FilesAreStored)
  BY SiteConstants, SiteRuns, TheSiteIsAsConfigured, PTL
<1>4. Spec => []Panel!ScreenIsTrue
  BY PanelConstants, FormRuns, Panel!TheScreenIsTrue, PTL
<1>5. Spec => Panel!FormsHold
  BY PanelConstants, FormRuns, Panel!FormsKeepTheirWord
<1>6. Spec => [](part = "site" => NothingSilent /\ OrderKeepsPromises /\ FilesAreStored)
  BY <1>3, PTL
<1>7. Spec => [](part = "form" => M!ScreenIsTrue)
  BY <1>1, <1>4, PTL
<1> QED
  BY <1>2, <1>5, <1>6, <1>7 DEF SiteIsAsConfigured

=============================================================================
