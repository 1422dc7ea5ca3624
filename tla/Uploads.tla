------------------------------- MODULE Uploads -------------------------------
(***************************************************************************)
(* The upload gate: Caddy sends the uploads of the nominated paths to      *)
(* /api/upload-gate of routes/gateway.js, which reads up to a limit, has   *)
(* clamd scan what it read (clamav.js) and sends the upload on to the      *)
(* origin.                                                                 *)
(*                                                                         *)
(* A body is a number of pieces and whether it is infected.  Uploads take  *)
(* their settings when they arrive; the administrator changes them freely  *)
(* meanwhile.  The keys of the hop, the headers and clamd's own chunks are *)
(* left out.                                                               *)
(***************************************************************************)
EXTENDS Naturals

CONSTANTS
    Uploaded,
    max_scan_bytes,     \* in pieces
    MaxPieces,          \* bound: the size of a body
    Settings            \* the values of the upload_scan group

UploadsAssumption ==
    /\ max_scan_bytes \in Nat /\ MaxPieces \in Nat
    /\ Settings \subseteq [enabled : BOOLEAN, oversize : {"pass", "block"},
                           action : {"block", "flag"}, fail_open : BOOLEAN]

VARIABLES
    upload_scan,    \* the stored settings
    uploads         \* Uploaded -> the request

uploadVars == <<upload_scan, uploads>>

Answers == {"none", "413 too large", "400 unread", "403 infected", "503 unscanned",
            "502 no origin", "origin's"}
None == [at |-> "none"]
Upload == [at : {"reading", "scanning", "sending", "streaming", "answered", "broken"},
           cfg : Settings, size : 0..MaxPieces, infected : BOOLEAN,
           read : 0..MaxPieces,         \* pieces in the buffer
           truncated : BOOLEAN,
           clean : {"yes", "no", "unknown", "not asked"},
           origin : 0..MaxPieces,       \* pieces the origin has
           whole : BOOLEAN,             \* ... and it has seen the end
           answer : Answers]

UploadsInit == upload_scan \in Settings /\ uploads = [u \in Uploaded |-> None]

UploadsTypeOK ==
    upload_scan \in Settings /\ \A u \in Uploaded : uploads[u] # None => uploads[u] \in Upload

Set(u, new) == uploads' = [uploads EXCEPT ![u] = new] /\ UNCHANGED upload_scan
Is(u, at) == uploads[u] # None /\ uploads[u].at = at

-----------------------------------------------------------------------------
(* Reading.                                                                *)

\* The origin is one that this Caddyfile proxies to; others get 502 and are left out.
Arrive(u) ==
    /\ uploads[u] = None
    /\ \E size \in 0..MaxPieces, infected \in BOOLEAN :
          /\ infected => size > 0
          /\ Set(u, [at |-> "reading", cfg |-> upload_scan, size |-> size, infected |-> infected,
                     read |-> 0, truncated |-> FALSE, clean |-> "not asked", origin |-> 0,
                     whole |-> FALSE, answer |-> "none"])

\* What follows the reading: scan, refuse what is too large, or send on.
AfterReading(up) ==
    IF ~up.cfg.enabled THEN [up EXCEPT !.at = "sending"]
    ELSE IF ~up.truncated THEN [up EXCEPT !.at = "scanning"]
    ELSE IF up.cfg.oversize = "block" THEN [up EXCEPT !.at = "answered", !.answer = "413 too large"]
    ELSE [up EXCEPT !.at = "sending"]

\* onData: the piece that goes over the limit is kept, and the socket paused.
Piece(u) ==
    LET up == uploads[u]
        more == [up EXCEPT !.read = up.read + 1]
    IN  /\ Is(u, "reading") /\ up.read < up.size
        /\ Set(u, IF more.read > max_scan_bytes
                  THEN AfterReading([more EXCEPT !.truncated = TRUE])
                  ELSE more)

ReadAll(u) ==
    /\ Is(u, "reading") /\ uploads[u].read = uploads[u].size
    /\ Set(u, AfterReading(uploads[u]))

\* The visitor goes away before the end.
Abort(u) ==
    /\ Is(u, "reading") /\ uploads[u].read < uploads[u].size
    /\ Set(u, [uploads[u] EXCEPT !.at = "answered", !.answer = "400 unread"])

-----------------------------------------------------------------------------
(* Scanning.                                                               *)

\* clamd's reply, "nothing" if there is none in time; it knows an infected body from others.
Replies(up) ==
    {IF up.infected THEN "FOUND" ELSE "OK", "ERROR", "", "something else", "nothing"}

\* interpret(), and scanBuffer's own failures.
Interpret(r) == IF r = "OK" THEN "yes" ELSE IF r = "FOUND" THEN "no" ELSE "unknown"

\* The scan has ended; the answer depends on the settings.  The ban of who uploads malware
\* is one of Bans, and no answer waits for it.
Scan(u) ==
    /\ Is(u, "scanning")
    /\ \E r \in Replies(uploads[u]) :
          LET done == [uploads[u] EXCEPT !.clean = Interpret(r)]
          IN  Set(u, IF done.clean = "no" /\ done.cfg.action = "block"
                     THEN [done EXCEPT !.at = "answered", !.answer = "403 infected"]
                     ELSE IF done.clean = "unknown" /\ ~done.cfg.fail_open
                     THEN [done EXCEPT !.at = "answered", !.answer = "503 unscanned"]
                     ELSE [done EXCEPT !.at = "sending"])

-----------------------------------------------------------------------------
(* Sending on.                                                             *)

\* The buffer goes first; the rest of a truncated body is piped after it.
Send(u) ==
    LET up == uploads[u]
    IN  /\ Is(u, "sending") /\ up.origin < up.read
        /\ Set(u, [up EXCEPT !.origin = up.read, !.whole = ~up.truncated])

\* Nothing is buffered: the body is empty.
SendEmpty(u) ==
    /\ Is(u, "sending") /\ uploads[u].read = 0 /\ ~uploads[u].whole
    /\ Set(u, [uploads[u] EXCEPT !.whole = TRUE])

Pipe(u) ==
    LET up == uploads[u]
    IN  /\ Is(u, "sending") /\ up.truncated /\ up.origin >= up.read /\ ~up.whole
        /\ Set(u, IF up.origin < up.size THEN [up EXCEPT !.origin = up.origin + 1]
                  ELSE [up EXCEPT !.whole = TRUE])

\* The origin begins its answer, which may be before it has read all.
OriginAnswers(u) ==
    /\ Is(u, "sending")
    /\ Set(u, [uploads[u] EXCEPT !.at = "streaming", !.answer = "origin's"])

\* The origin refuses, breaks off or is silent for two minutes.
OriginFails(u) ==
    /\ Is(u, "sending")
    /\ Set(u, [uploads[u] EXCEPT !.at = "answered", !.answer = "502 no origin"])

\* The end of the origin's answer is the visitor's; if the origin breaks off in the middle,
\* nothing ends the answer.
StreamEnds(u) == Is(u, "streaming") /\ Set(u, [uploads[u] EXCEPT !.at = "answered"])
StreamBreaks(u) == Is(u, "streaming") /\ Set(u, [uploads[u] EXCEPT !.at = "broken"])

Configure ==
    /\ upload_scan' \in Settings \ {upload_scan} /\ UNCHANGED uploads

UploadsNext ==
    \/ \E u \in Uploaded :
          \/ Arrive(u) \/ Piece(u) \/ ReadAll(u) \/ Abort(u) \/ Scan(u)
          \/ Send(u) \/ SendEmpty(u) \/ Pipe(u)
          \/ OriginAnswers(u) \/ OriginFails(u) \/ StreamEnds(u) \/ StreamBreaks(u)
    \/ Configure

UploadsSpec == UploadsInit /\ [][UploadsNext]_uploadVars

-----------------------------------------------------------------------------
\* clamav.js:182-184, gateway.js:288-297: nothing infected reaches the origin unless these
\* settings let it: no scanning, malware only flagged, too large, or no verdict.
InfectedStaysOut ==
    \A u \in Uploaded :
        uploads[u] # None /\ uploads[u].infected /\ uploads[u].origin > 0 =>
            LET up == uploads[u]
            IN  \/ ~up.cfg.enabled \/ up.cfg.action = "flag"
                \/ up.size > max_scan_bytes /\ up.cfg.oversize = "pass"
                \/ up.clean = "unknown" /\ up.cfg.fail_open

\* gateway.js:299-301: the origin gets all of a body or knows that it did not, with the limit
\* falling anywhere.
OriginGetsTheBody ==
    \A u \in Uploaded :
        uploads[u] # None /\ uploads[u].whole => uploads[u].origin = uploads[u].size

=============================================================================
