----------------------------- MODULE Caddyfile -----------------------------
(***************************************************************************)
(* Where the writers of the Caddyfile put their regions: caddy.js (WAF,    *)
(* global options, catch-all), edgeBans.js, sensitive.js, the origin lock  *)
(* of routes/cloudflare.js, proxy/apply.js (the discovered routes),        *)
(* provision.js (the dashboard) and `catwaf uninstall`.                    *)
(*                                                                         *)
(* The file is a sequence of tokens: the braces of its top-level blocks,   *)
(* the markers of the regions, the order directive, and one token for all  *)
(* the lines a region or the operator has at a place.  Braces inside a     *)
(* block are left out, since no writer anchors on them.  Each writer is one*)
(* step; their races are the subject of AutoRoutes and WafConfig.  Markers *)
(* are not edited by hand, so no writer finds one without the other, and   *)
(* the dashboard has one host, whose name is part of its markers.          *)
(***************************************************************************)
EXTENDS Naturals, Sequences

SX == INSTANCE SequencesExt

CONSTANTS
    Files,      \* the files an operator may start from
    MaxEdits    \* bound: writes of the file

VARIABLES
    text,
    own,        \* history: the file at the start
    wrote,      \* history: the regions of the last writer
    edits       \* history: how many writes there have been

caddyfileVars == <<text, own, wrote, edits>>

InSite == {"waf", "edge", "sensitive", "cf_lock"}
TopLevel == {"catchall", "auto", "dashboard"}
Regions == InSite \cup TopLevel \cup {"global"}

Options == <<"open", "options">>
Site == <<"open", "site">>
Close == <<"close", "block">>
Order == <<"order", "coraza_waf">>
Text == <<"text", "operator">>
StartOf(r) == <<"start", r>>
EndOf(r) == <<"end", r>>
Body(r) == <<"body", r>>
Tokens == {Options, Site, Close, Order, Text} \cup {"start", "end", "body"} \X Regions

CaddyfileAssumption ==
    /\ MaxEdits \in Nat
    /\ \A f \in Files : \A i \in DOMAIN f : f[i] \in {Options, Site, Close, Order, Text}

CaddyfileTypeOK ==
    /\ text \in Seq(Tokens) /\ own \in Files
    /\ wrote \subseteq Regions /\ edits \in 0..MaxEdits

-----------------------------------------------------------------------------
Has(f, t) == \E i \in DOMAIN f : f[i] = t
IndexOf(f, t) == SX!SelectInSeq(f, LAMBDA x : x = t)
LastIndexOf(f, t) == SX!SelectLastInSeq(f, LAMBDA x : x = t)
HasRegion(f, r) == Has(f, StartOf(r)) /\ Has(f, EndOf(r))

\* The tokens `new` in front of position i.
Insert(f, i, new) == SubSeq(f, 1, i - 1) \o new \o SubSeq(f, i, Len(f))

\* The end of globalOptionsRange(), 0 for none: a block without addresses opens the file.
GlobalEnd(f) == IF f # <<>> /\ f[1] = Options THEN IndexOf(f, Close) ELSE 0

\* lastSiteBlockClose(), 0 for none
LastSiteBlockClose(f) ==
    LET i == LastIndexOf(f, Close) IN IF i > GlobalEnd(f) THEN i ELSE 0

\* replaceRegion()
ReplaceRegion(f, r, new) ==
    SubSeq(f, 1, IndexOf(f, StartOf(r)) - 1) \o new
        \o SubSeq(f, IndexOf(f, EndOf(r)) + 1, Len(f))

\* What is in the file between the markers, or else in front of position i.
Put(f, r, i, new) == IF HasRegion(f, r) THEN ReplaceRegion(f, r, new) ELSE Insert(f, i, new)

Region(r, lines) == <<StartOf(r)>> \o lines \o <<EndOf(r)>>
Lines(r, on) == IF on THEN <<Body(r)>> ELSE <<>>
Block(r) == <<Site, Body(r), Close>>

-----------------------------------------------------------------------------
(* Writers of the configuration: renderCaddyfile(). *)

\* ensureGlobalOrderDirective()
EnsureGlobalOrderDirective(f) ==
    IF GlobalEnd(f) = 0 THEN <<Options, Order, Close>> \o f
    ELSE IF Has(SubSeq(f, 1, GlobalEnd(f)), Order) THEN f
    ELSE Insert(f, GlobalEnd(f), <<Order>>)

\* patchGlobalRegion()
PatchGlobalRegion(f, on) ==
    IF on \/ HasRegion(f, "global")
    THEN Put(f, "global", GlobalEnd(f), Region("global", Lines("global", on))) ELSE f

\* Wrong variant: it opens inside the global options.
InsideGlobal(f) == GlobalEnd(f)

AfterGlobal(f) == GlobalEnd(f) + 1

\* patchCatchAllRegion()
PatchCatchAllRegion(f, on) ==
    IF on \/ HasRegion(f, "catchall")
    THEN Put(f, "catchall", AfterGlobal(f), Region("catchall", IF on THEN Block("catchall") ELSE <<>>))
    ELSE f

\* renderCaddyfile(): it throws where there is neither a region nor a site block.
CanRender(f) == HasRegion(f, "waf") \/ LastSiteBlockClose(f) # 0
Render(f, global, catchall) ==
    LET waf == Put(f, "waf", LastSiteBlockClose(f), Region("waf", Lines("waf", TRUE)))
    IN  PatchCatchAllRegion(PatchGlobalRegion(EnsureGlobalOrderDirective(waf), global), catchall)

(* The other writers. *)

\* edgeBans.patchRegion(): an empty list of bans leaves the markers.
PatchRegion(f, on) == Put(f, "edge", LastSiteBlockClose(f), Region("edge", Lines("edge", on)))

\* sensitive.patchCaddyfile(): in front of the last brace of all; turned off, it is removed.
PatchSensitive(f, on) ==
    IF on THEN Put(f, "sensitive", LastIndexOf(f, Close), Region("sensitive", Lines("sensitive", TRUE)))
    ELSE IF HasRegion(f, "sensitive") THEN ReplaceRegion(f, "sensitive", <<>>) ELSE f

\* The route of the origin lock.
LockOrigin(f) == Put(f, "cf_lock", LastSiteBlockClose(f), Region("cf_lock", Lines("cf_lock", TRUE)))

\* proxy/apply.js: refreshManagedWafBlock(), then mergeIntoCaddyfile().
RefreshManagedWafBlock(f) ==
    IF HasRegion(f, "waf") THEN ReplaceRegion(f, "waf", Region("waf", Lines("waf", TRUE))) ELSE f

MergeIntoCaddyfile(f) == Put(f, "auto", Len(f) + 1, Region("auto", Block("auto")))
Protected(f) == EnsureGlobalOrderDirective(MergeIntoCaddyfile(RefreshManagedWafBlock(f)))

\* provision.apply() for Caddy
Provisioned(f) == Put(f, "dashboard", Len(f) + 1, Region("dashboard", Block("dashboard")))

\* cmdUninstall()
Uninstalled(f) == IF HasRegion(f, "waf") THEN ReplaceRegion(f, "waf", <<>>) ELSE f

-----------------------------------------------------------------------------
Write(new, regions) ==
    /\ edits < MaxEdits /\ edits' = edits + 1
    /\ text' = new /\ wrote' = regions /\ UNCHANGED own

PatchWAF(global, catchall) ==
    CanRender(text) /\ Write(Render(text, global, catchall), {"waf", "global", "catchall"})

RefreshEdge(on) ==
    /\ HasRegion(text, "edge") \/ LastSiteBlockClose(text) # 0
    /\ Write(PatchRegion(text, on), {"edge"})

\* It throws where the file has no brace.
ApplySensitive(on) ==
    /\ on => HasRegion(text, "sensitive") \/ Has(text, Close)
    /\ Write(PatchSensitive(text, on), {"sensitive"})

LockToCloudflare ==
    /\ HasRegion(text, "cf_lock") \/ LastSiteBlockClose(text) # 0
    /\ Write(LockOrigin(text), {"cf_lock"})

Protect == Write(Protected(text), {"auto", "waf"})
Provision == Write(Provisioned(text), {"dashboard"})
Uninstall == Write(Uninstalled(text), {"waf"})

CaddyfileInit == text \in Files /\ own = text /\ wrote = {} /\ edits = 0

CaddyfileNext ==
    \/ \E global, catchall \in BOOLEAN : PatchWAF(global, catchall)
    \/ \E on \in BOOLEAN : RefreshEdge(on) \/ ApplySensitive(on)
    \/ LockToCloudflare \/ Protect \/ Provision \/ Uninstall

-----------------------------------------------------------------------------
\* Blocks that are open in front of position i.
Depth(f, i) ==
    LET before == SubSeq(f, 1, i - 1) IN
    Len(SelectSeq(before, LAMBDA t : t[1] = "open")) - Len(SelectSeq(before, LAMBDA t : t = Close))

From(f, r) == IndexOf(f, StartOf(r))
To(f, r) == IndexOf(f, EndOf(r))
Inside(f, q, r) == From(f, r) < From(f, q) /\ To(f, q) < To(f, r)
Present(f) == {r \in Regions : HasRegion(f, r)}

\* The file less the regions in R.
Without(f, R) ==
    SX!FoldSet(LAMBDA r, g : IF HasRegion(g, r) THEN ReplaceRegion(g, r, <<>>) ELSE g, f, R)

\* The lines of r, less what other writers have put between them.
SectionOf(f, r) == Without(SubSeq(f, From(f, r) + 1, To(f, r) - 1), Regions \ {r})

(***************************************************************************)
(* Whatever the writers do one after the other, each region is in the file *)
(* at most once, with both of its markers, and of two regions one contains *)
(* the other or they are apart; the global region is in the global options,*)
(* the catch-all, the routes and the dashboard are at the top level, and   *)
(* what belongs to a site is inside of a block that is not the global one, *)
(* as long as the operator's file has a site block to begin with.          *)
(***************************************************************************)
WellPlaced ==
    /\ \A r \in Regions :
         /\ Len(SelectSeq(text, LAMBDA t : t = StartOf(r))) = Len(SelectSeq(text, LAMBDA t : t = EndOf(r)))
         /\ Len(SelectSeq(text, LAMBDA t : t = StartOf(r))) < 2
    /\ \A r \in Present(text) :
         LET depth == Depth(text, From(text, r)) IN
         /\ From(text, r) < To(text, r)
         /\ r \in TopLevel => depth = 0
         /\ r = "global" => From(text, r) < GlobalEnd(text) /\ depth = 1
         /\ r \in InSite /\ LastSiteBlockClose(own) # 0 =>
                depth = 1 /\ From(text, r) > GlobalEnd(text)
         /\ \A q \in Present(text) \ {r} :
              \/ To(text, r) < From(text, q) \/ To(text, q) < From(text, r)
              \/ Inside(text, q, r) \/ Inside(text, r, q)
    /\ Depth(text, Len(text) + 1) = 0

(***************************************************************************)
(* What the operator wrote stays as it was, but for the directive that runs*)
(* the WAF first, and that one is there whenever the WAF is.               *)
(***************************************************************************)
OperatorsTextStays ==
    LET rest == Without(text, Regions)
        strip(f) == SelectSeq(f, LAMBDA t : t # Order)
    IN  /\ strip(rest) = strip(own) \/ strip(rest) = <<Options, Close>> \o strip(own)
        /\ (HasRegion(text, "waf") \/ HasRegion(text, "auto")) =>
               Has(SubSeq(text, 1, GlobalEnd(text)), Order)

(***************************************************************************)
(* A write that is repeated changes nothing more.                          *)
(***************************************************************************)
WritesAreIdempotent ==
    /\ \A global, catchall \in BOOLEAN : CanRender(text) =>
         LET f == Render(text, global, catchall) IN Render(f, global, catchall) = f
    /\ \A on \in BOOLEAN : LET f == PatchSensitive(text, on) IN
         Has(text, Close) => PatchSensitive(f, on) = f
    /\ LET f == Protected(text) IN Protected(f) = f
    /\ LET f == Provisioned(text) IN Provisioned(f) = f

(***************************************************************************)
(* No writer changes a region of another one, unless that region is inside *)
(* of one it rewrites: the routes and the dashboard are the last blocks of *)
(* the file once they are in it, and what is enabled later lands in them.  *)
(***************************************************************************)
OthersStay ==
    [][\A r \in Present(text) \ wrote' :
          \/ r \in Present(text') /\ SectionOf(text', r) = SectionOf(text, r)
          \/ \E q \in wrote' \cap Present(text) : Inside(text, r, q)]_caddyfileVars

=============================================================================
