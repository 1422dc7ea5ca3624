---------------------------- MODULE TrafficProofs ----------------------------
(***************************************************************************)
(* What is proved of the modules of MCAccess that judge the traffic of the *)
(* protected site, for any numbers of requests, uploads, sources and       *)
(* refreshes, any settings and every bound.                                *)
(***************************************************************************)
EXTENDS Uploads, Lists, Enforcement, AuditRotation, TLAPS

-----------------------------------------------------------------------------
(* Uploads: what the origin gets of an upload.                             *)

\* The settings of its arrival let the origin have an upload.
MaySend(up) ==
    \/ ~up.cfg.enabled
    \/ up.truncated /\ up.cfg.oversize = "pass"
    \/ up.clean = "yes"
    \/ up.clean = "no" /\ up.cfg.action = "flag"
    \/ up.clean = "unknown" /\ up.cfg.fail_open

\* clamd's word is good; what is in the buffer is all of the body, or it was too small for
\* it; and the origin has nothing of an upload that may not be sent.
Sound(up) ==
    /\ up.clean = "yes" => ~up.infected
    /\ up.read <= up.size /\ up.origin <= up.size
    /\ up.truncated => up.size > max_scan_bytes /\ up.read > 0
    /\ up.at = "reading" => ~up.truncated /\ up.origin = 0 /\ ~up.whole
    /\ up.at = "scanning" => ~up.truncated /\ up.origin = 0 /\ ~up.whole
    /\ up.at \in {"scanning", "sending"} /\ ~up.truncated => up.read = up.size
    /\ up.at = "sending" \/ up.origin > 0 => MaySend(up)
    /\ up.whole => up.origin = up.size

UploadsInv ==
    /\ upload_scan \in Settings
    /\ uploads \in [Uploaded -> Upload \cup {None}]
    /\ \A u \in Uploaded : uploads[u] # None => Sound(uploads[u])

\* What the fields of an upload hold.
Typed(up) ==
    /\ MaxPieces \in Nat /\ max_scan_bytes \in Nat
    /\ up.size \in Nat /\ up.size <= MaxPieces /\ up.read \in Nat /\ up.origin \in Nat
    /\ up.truncated \in BOOLEAN /\ up.whole \in BOOLEAN /\ up.infected \in BOOLEAN
    /\ up.clean \in {"yes", "no", "unknown", "not asked"}
    /\ up.cfg.action \in {"block", "flag"}

LEMMA UploadFields ==
    ASSUME UploadsAssumption, NEW up \in Upload PROVE Typed(up)
<1>1. /\ MaxPieces \in Nat /\ max_scan_bytes \in Nat
      /\ up.size \in 0..MaxPieces /\ up.read \in 0..MaxPieces /\ up.origin \in 0..MaxPieces
  BY DEF Upload, UploadsAssumption
<1>2. up.size \in Nat /\ up.size <= MaxPieces /\ up.read \in Nat /\ up.origin \in Nat
  BY <1>1
<1>3. /\ up.truncated \in BOOLEAN /\ up.whole \in BOOLEAN /\ up.infected \in BOOLEAN
      /\ up.clean \in {"yes", "no", "unknown", "not asked"} /\ up.cfg.action \in {"block", "flag"}
  BY DEF Upload, UploadsAssumption
<1> QED
  BY <1>1, <1>2, <1>3 DEF Typed

\* An upload that is set to a sound one leaves the others as they are.
LEMMA SetStep ==
    ASSUME UploadsInv, NEW u \in Uploaded, NEW new \in Upload, Sound(new), Set(u, new)
    PROVE  UploadsInv'
<1>1. uploads' \in [Uploaded -> Upload \cup {None}] /\ uploads'[u] = new
      /\ \A v \in Uploaded \ {u} : uploads'[v] = uploads[v]
  BY DEF UploadsInv, Set
<1> QED
  BY <1>1 DEF UploadsInv, Set, Sound, MaySend

\* Reading has ended: the upload is scanned, refused or sent on.
LEMMA AfterReadingStep ==
    ASSUME UploadsAssumption, NEW up \in Upload, up.clean = "yes" => ~up.infected,
           up.read <= up.size, up.origin <= up.size,
           up.truncated => up.size > max_scan_bytes /\ up.read > 0,
           up.origin = 0, ~up.whole, ~up.truncated => up.read = up.size
    PROVE  AfterReading(up) \in Upload /\ Sound(AfterReading(up))
<1> DEFINE same(new) ==
        /\ new.clean = up.clean /\ new.infected = up.infected /\ new.size = up.size
        /\ new.read = up.read /\ new.origin = up.origin /\ new.truncated = up.truncated
        /\ new.whole = up.whole /\ new.cfg = up.cfg
<1>1. ASSUME NEW new, same(new), new.at \in {"scanning", "sending", "answered"},
             new.at = "scanning" => ~up.truncated, new.at = "sending" => MaySend(new)
      PROVE  Sound(new)
  <2>1. ~(up.origin > 0)
    OBVIOUS
  <2> QED
    BY <1>1, <2>1 DEF Sound
<1>2. CASE ~up.cfg.enabled
  <2> DEFINE new == [up EXCEPT !.at = "sending"]
  <2>1. new \in Upload /\ same(new) /\ new.at = "sending" /\ AfterReading(up) = new
    BY <1>2 DEF Upload, AfterReading
  <2>2. MaySend(new)
    BY <1>2, <2>1 DEF MaySend
  <2> HIDE DEF new
  <2> QED
    BY <1>1, <2>1, <2>2
<1>3. CASE up.cfg.enabled /\ ~up.truncated
  <2> DEFINE new == [up EXCEPT !.at = "scanning"]
  <2>1. new \in Upload /\ same(new) /\ new.at = "scanning" /\ AfterReading(up) = new
    BY <1>3 DEF Upload, AfterReading
  <2> HIDE DEF new
  <2> QED
    BY <1>1, <1>3, <2>1
<1>4. CASE up.cfg.enabled /\ up.truncated /\ up.cfg.oversize = "block"
  <2> DEFINE new == [up EXCEPT !.at = "answered", !.answer = "413 too large"]
  <2>1. new \in Upload /\ same(new) /\ new.at = "answered" /\ AfterReading(up) = new
    BY <1>4 DEF Upload, AfterReading, Answers
  <2> HIDE DEF new
  <2> QED
    BY <1>1, <2>1
<1>5. CASE up.cfg.enabled /\ up.truncated /\ up.cfg.oversize # "block"
  <2> DEFINE new == [up EXCEPT !.at = "sending"]
  <2>1. new \in Upload /\ same(new) /\ new.at = "sending" /\ AfterReading(up) = new
    BY <1>5 DEF Upload, AfterReading
  <2>2. up.cfg.oversize = "pass"
    BY <1>5 DEF Upload, UploadsAssumption
  <2>3. MaySend(new)
    BY <1>5, <2>1, <2>2 DEF MaySend
  <2> HIDE DEF new
  <2> QED
    BY <1>1, <2>1, <2>3
<1> QED
  BY <1>2, <1>3, <1>4, <1>5

\* Every step of the uploads keeps the invariant.
LEMMA UploadsStep ==
    ASSUME UploadsAssumption, UploadsInv, [UploadsNext]_uploadVars PROVE UploadsInv'
<1>1. \A u \in Uploaded : \A at : at # "none" /\ Is(u, at) =>
          uploads[u] \in Upload /\ Typed(uploads[u]) /\ Sound(uploads[u]) /\ uploads[u].at = at
  BY UploadFields DEF UploadsInv, Is, None
<1> USE DEF Answers
<1>2. ASSUME NEW u \in Uploaded, Arrive(u) PROVE UploadsInv'
  <2>1. PICK size \in 0..MaxPieces, infected \in BOOLEAN :
            Set(u, [at |-> "reading", cfg |-> upload_scan, size |-> size, infected |-> infected,
                    read |-> 0, truncated |-> FALSE, clean |-> "not asked", origin |-> 0,
                    whole |-> FALSE, answer |-> "none"])
    BY <1>2 DEF Arrive
  <2> DEFINE new == [at |-> "reading", cfg |-> upload_scan, size |-> size,
                     infected |-> infected, read |-> 0, truncated |-> FALSE,
                     clean |-> "not asked", origin |-> 0, whole |-> FALSE, answer |-> "none"]
  <2>2. new \in Upload
    <3>1. 0 \in 0..MaxPieces
      BY DEF UploadsAssumption
    <3> QED
      BY <3>1 DEF UploadsInv, Upload
  <2>3. Sound(new)
    BY DEF Sound
  <2> HIDE DEF new
  <2> QED
    BY <2>1, <2>2, <2>3, SetStep DEF new
<1>3. ASSUME NEW u \in Uploaded, Piece(u) PROVE UploadsInv'
  <2> DEFINE up == uploads[u]
             more == [up EXCEPT !.read = up.read + 1]
             full == [more EXCEPT !.truncated = TRUE]
  <2>1. up \in Upload /\ Typed(up) /\ Sound(up) /\ up.at = "reading" /\ up.read < up.size
    BY <1>1, <1>3 DEF Piece
  <2>2. more \in Upload /\ Sound(more) /\ more.read = up.read + 1
    <3>1. up.read \in Nat /\ up.size \in Nat /\ up.size <= MaxPieces
          /\ MaxPieces \in Nat /\ up.read < up.size
      BY <2>1 DEF Typed
    <3>2. up.read + 1 \in 0..MaxPieces /\ up.read + 1 <= up.size
      BY <3>1
    <3>3. more \in Upload
      BY <2>1, <3>2 DEF Upload
    <3>4. /\ more.read = up.read + 1 /\ more.at = up.at /\ more.clean = up.clean
          /\ more.infected = up.infected /\ more.size = up.size /\ more.origin = up.origin
          /\ more.truncated = up.truncated /\ more.whole = up.whole
      BY <2>1 DEF Upload
    <3>5. Sound(more)
      BY <2>1, <3>2, <3>4 DEF Sound
    <3> QED
      BY <3>3, <3>4, <3>5
  <2>3. ASSUME more.read > max_scan_bytes
        PROVE  AfterReading(full) \in Upload /\ Sound(AfterReading(full))
    <3>1. full \in Upload
      BY <2>2 DEF Upload
    <3>2. more.at = "reading" /\ more.origin = 0 /\ ~more.whole
      BY <2>1, <2>2 DEF Upload, Sound
    <3>3. /\ full.truncated /\ full.at = more.at /\ full.clean = more.clean
          /\ full.infected = more.infected /\ full.size = more.size /\ full.read = more.read
          /\ full.origin = more.origin /\ full.whole = more.whole
      BY <2>2 DEF Upload
    <3>4. more.size > max_scan_bytes /\ more.read > 0
      <4>1. /\ up.read \in Nat /\ up.size \in Nat /\ max_scan_bytes \in Nat
            /\ up.read < up.size
        BY <2>1 DEF Typed
      <4>2. up.size > max_scan_bytes /\ up.read + 1 > 0
        BY <2>2, <2>3, <4>1
      <4> QED
        BY <2>1, <2>2, <4>2 DEF Upload
    <3>5. /\ more.clean = "yes" => ~more.infected
          /\ more.read <= more.size /\ more.origin <= more.size
      BY <2>2 DEF Sound
    <3> HIDE DEF more, full
    <3>6. /\ full.clean = "yes" => ~full.infected
          /\ full.read <= full.size /\ full.origin <= full.size
          /\ full.size > max_scan_bytes /\ full.read > 0
          /\ full.origin = 0 /\ ~full.whole /\ full.truncated
      BY <3>2, <3>3, <3>4, <3>5
    <3> QED
      BY <3>1, <3>6, AfterReadingStep
  <2>4. Set(u, IF more.read > max_scan_bytes THEN AfterReading(full) ELSE more)
    BY <1>3 DEF Piece
  <2> HIDE DEF more, full
  <2> QED
    BY <2>2, <2>3, <2>4, SetStep
<1>4. ASSUME NEW u \in Uploaded, ReadAll(u) PROVE UploadsInv'
  <2>1. /\ uploads[u] \in Upload /\ Typed(uploads[u]) /\ Sound(uploads[u])
        /\ uploads[u].at = "reading" /\ uploads[u].read = uploads[u].size
        /\ Set(u, AfterReading(uploads[u]))
    BY <1>1, <1>4 DEF ReadAll
  <2>2. AfterReading(uploads[u]) \in Upload /\ Sound(AfterReading(uploads[u]))
    <3>1. /\ uploads[u].clean = "yes" => ~uploads[u].infected
          /\ uploads[u].read <= uploads[u].size /\ uploads[u].origin <= uploads[u].size
          /\ uploads[u].origin = 0 /\ ~uploads[u].whole /\ ~uploads[u].truncated
      BY <2>1 DEF Sound
    <3> QED
      BY <2>1, <3>1, AfterReadingStep
  <2> QED
    BY <2>1, <2>2, SetStep
<1>5. ASSUME NEW u \in Uploaded, Abort(u) PROVE UploadsInv'
  <2> DEFINE new == [uploads[u] EXCEPT !.at = "answered", !.answer = "400 unread"]
  <2>1. /\ uploads[u] \in Upload /\ Typed(uploads[u]) /\ Sound(uploads[u])
        /\ uploads[u].at = "reading" /\ Set(u, new)
    BY <1>1, <1>5 DEF Abort
  <2>2. new \in Upload
    BY <2>1 DEF Upload
  <2>3. Sound(new)
    BY <2>1 DEF Upload, Sound, MaySend
  <2> HIDE DEF new
  <2> QED
    BY <2>1, <2>2, <2>3, SetStep
<1>6. ASSUME NEW u \in Uploaded, Scan(u) PROVE UploadsInv'
  <2> DEFINE up == uploads[u]
             done(r) == [up EXCEPT !.clean = Interpret(r)]
             blocked(r) == [done(r) EXCEPT !.at = "answered", !.answer = "403 infected"]
             unscanned(r) == [done(r) EXCEPT !.at = "answered", !.answer = "503 unscanned"]
             sent(r) == [done(r) EXCEPT !.at = "sending"]
  <2>1. up \in Upload /\ Typed(up) /\ Sound(up) /\ up.at = "scanning"
    BY <1>1, <1>6 DEF Scan
  <2>2. PICK r \in Replies(up) :
            \/ Set(u, blocked(r))
            \/ Set(u, unscanned(r))
            \/ /\ ~(done(r).clean = "no" /\ done(r).cfg.action = "block")
               /\ ~(done(r).clean = "unknown" /\ ~done(r).cfg.fail_open)
               /\ Set(u, sent(r))
    BY <1>6 DEF Scan
  <2>3. /\ Interpret(r) \in {"yes", "no", "unknown"}
        /\ Interpret(r) = "yes" => ~up.infected
    BY <2>1 DEF Interpret, Replies
  <2>4. blocked(r) \in Upload /\ unscanned(r) \in Upload /\ sent(r) \in Upload
    BY <2>1, <2>3 DEF Upload
  <2>5. Sound(blocked(r)) /\ Sound(unscanned(r))
    <3> DEFINE same(new) ==
            /\ new.at = "answered" /\ new.clean = Interpret(r) /\ new.infected = up.infected
            /\ new.size = up.size /\ new.read = up.read /\ new.origin = up.origin
            /\ new.truncated = up.truncated /\ new.whole = up.whole
    <3>1. same(blocked(r))
      BY <2>1 DEF Upload
    <3>2. same(unscanned(r))
      BY <2>1 DEF Upload
    <3>3. up.origin = 0 /\ ~up.whole /\ ~up.truncated /\ up.read <= up.size /\ up.origin <= up.size
      BY <2>1 DEF Sound
    <3>4. ASSUME NEW new, same(new) PROVE Sound(new)
      BY <2>3, <3>3, <3>4 DEF Sound
    <3> QED
      BY <3>1, <3>2, <3>4
  <2>6. ASSUME ~(done(r).clean = "no" /\ done(r).cfg.action = "block"),
               ~(done(r).clean = "unknown" /\ ~done(r).cfg.fail_open)
        PROVE  Sound(sent(r))
    <3> DEFINE new == sent(r)
    <3>1. /\ new.at = "sending" /\ new.clean = Interpret(r) /\ new.infected = up.infected
          /\ new.size = up.size /\ new.read = up.read /\ new.origin = up.origin
          /\ new.truncated = up.truncated /\ new.whole = up.whole /\ new.cfg = up.cfg
      BY <2>1 DEF Upload
    <3>2. /\ up.origin = 0 /\ ~up.whole /\ ~up.truncated /\ up.read = up.size
          /\ up.read <= up.size /\ up.origin <= up.size
      BY <2>1 DEF Sound
    <3>3. ~(Interpret(r) = "no" /\ up.cfg.action = "block")
          /\ ~(Interpret(r) = "unknown" /\ ~up.cfg.fail_open)
      BY <2>1, <2>6 DEF Upload
    <3>4. MaySend(new)
      BY <2>1, <2>3, <3>1, <3>3 DEF MaySend, Typed
    <3> HIDE DEF new, done, sent
    <3>5. Sound(new)
      BY <2>3, <3>1, <3>2, <3>4 DEF Sound
    <3> QED
      BY <3>5 DEF new
  <2> HIDE DEF done, blocked, unscanned, sent
  <2> QED
    BY <2>2, <2>4, <2>6, <2>5, SetStep
<1>7. ASSUME NEW u \in Uploaded, Send(u) PROVE UploadsInv'
  <2> DEFINE new == [uploads[u] EXCEPT !.origin = uploads[u].read, !.whole = ~uploads[u].truncated]
  <2>1. /\ uploads[u] \in Upload /\ Typed(uploads[u]) /\ Sound(uploads[u])
        /\ uploads[u].at = "sending" /\ Set(u, new)
    BY <1>1, <1>7 DEF Send
  <2>2. new \in Upload
    BY <2>1 DEF Upload
  <2>3. Sound(new)
    <3> DEFINE up == uploads[u]
    <3>1. /\ new.at = "sending" /\ new.clean = up.clean /\ new.infected = up.infected
          /\ new.size = up.size /\ new.read = up.read /\ new.origin = up.read
          /\ new.truncated = up.truncated /\ new.whole = ~up.truncated /\ new.cfg = up.cfg
      BY <2>1 DEF Upload
    <3>2. MaySend(new)
      BY <2>1, <3>1 DEF MaySend, Sound
    <3>3. up.read <= up.size /\ (~up.truncated => up.read = up.size)
      BY <2>1 DEF Sound
    <3> HIDE DEF new
    <3> QED
      BY <2>1, <3>1, <3>2, <3>3 DEF Sound
  <2> HIDE DEF new
  <2> QED
    BY <2>1, <2>2, <2>3, SetStep
<1>8. ASSUME NEW u \in Uploaded, SendEmpty(u) PROVE UploadsInv'
  <2> DEFINE new == [uploads[u] EXCEPT !.whole = TRUE]
  <2>1. /\ uploads[u] \in Upload /\ Typed(uploads[u]) /\ Sound(uploads[u])
        /\ uploads[u].at = "sending" /\ uploads[u].read = 0 /\ Set(u, new)
    BY <1>1, <1>8 DEF SendEmpty
  <2>2. new \in Upload
    BY <2>1 DEF Upload
  <2>3. Sound(new)
    <3> DEFINE up == uploads[u]
    <3>1. /\ new.at = "sending" /\ new.clean = up.clean /\ new.infected = up.infected
          /\ new.size = up.size /\ new.read = up.read /\ new.origin = up.origin
          /\ new.truncated = up.truncated /\ new.whole /\ new.cfg = up.cfg
      BY <2>1 DEF Upload
    <3>2. MaySend(new)
      BY <2>1, <3>1 DEF MaySend, Sound
    <3>3. up.origin = up.size
      <4>1. /\ up.truncated => up.read > 0
            /\ ~up.truncated => up.read = up.size
            /\ up.origin <= up.size
        BY <2>1 DEF Sound
      <4>2. up.origin \in Nat /\ up.size \in Nat
        BY <2>1 DEF Typed
      <4>3. up.size = 0
        BY <2>1, <4>1
      <4> QED
        BY <4>1, <4>2, <4>3
    <3> HIDE DEF new
    <3> QED
      BY <2>1, <3>1, <3>2, <3>3 DEF Sound
  <2> HIDE DEF new
  <2> QED
    BY <2>1, <2>2, <2>3, SetStep
<1>9. ASSUME NEW u \in Uploaded, Pipe(u) PROVE UploadsInv'
  <2> DEFINE up == uploads[u]
             piece == [up EXCEPT !.origin = up.origin + 1]
             end == [up EXCEPT !.whole = TRUE]
  <2>1. /\ up \in Upload /\ Typed(up) /\ Sound(up) /\ up.at = "sending"
        /\ ~up.whole
        /\ Set(u, IF up.origin < up.size THEN piece ELSE end)
    BY <1>1, <1>9 DEF Pipe
  <2>2. CASE up.origin < up.size
    <3>1. /\ up.origin \in Nat /\ up.size \in Nat /\ up.size <= MaxPieces /\ MaxPieces \in Nat
          /\ up.origin < up.size
      BY <2>1, <2>2 DEF Typed
    <3>2. up.origin + 1 \in 0..MaxPieces /\ up.origin + 1 <= up.size
      BY <3>1
    <3>3. piece \in Upload
      BY <2>1, <3>2 DEF Upload
    <3>4. /\ piece.at = "sending" /\ piece.clean = up.clean /\ piece.infected = up.infected
          /\ piece.size = up.size /\ piece.read = up.read /\ piece.origin = up.origin + 1
          /\ piece.truncated = up.truncated /\ ~piece.whole /\ piece.cfg = up.cfg
      BY <2>1 DEF Upload
    <3>5. MaySend(piece)
      BY <2>1, <3>4 DEF MaySend, Sound
    <3> HIDE DEF piece
    <3>6. Sound(piece)
      BY <2>1, <3>2, <3>4, <3>5 DEF Sound
    <3> QED
      BY <2>1, <2>2, <3>3, <3>6, SetStep
  <2>3. CASE ~(up.origin < up.size)
    <3>1. end \in Upload
      BY <2>1 DEF Upload
    <3>2. /\ end.at = "sending" /\ end.clean = up.clean /\ end.infected = up.infected
          /\ end.size = up.size /\ end.read = up.read /\ end.origin = up.origin
          /\ end.truncated = up.truncated /\ end.whole /\ end.cfg = up.cfg
      BY <2>1 DEF Upload
    <3>3. MaySend(end)
      BY <2>1, <3>2 DEF MaySend, Sound
    <3>4. up.origin = up.size
      <4>1. up.origin \in Nat /\ up.size \in Nat /\ up.origin <= up.size /\ ~(up.origin < up.size)
        BY <2>1, <2>3 DEF Typed, Sound
      <4> QED
        BY <4>1
    <3> HIDE DEF end
    <3>5. Sound(end)
      BY <2>1, <3>2, <3>3, <3>4 DEF Sound
    <3> QED
      BY <2>1, <2>3, <3>1, <3>5, SetStep
  <2> QED
    BY <2>2, <2>3
<1>10. ASSUME NEW u \in Uploaded, NEW at \in {"streaming", "answered", "broken"},
             NEW said \in Answers, uploads[u] \in Upload, Typed(uploads[u]), Sound(uploads[u]),
             Set(u, [uploads[u] EXCEPT !.at = at, !.answer = said])
      PROVE  UploadsInv'
  <2> DEFINE new == [uploads[u] EXCEPT !.at = at, !.answer = said]
  <2>1. new \in Upload
    BY <1>10 DEF Upload
  <2>2. /\ new.at = at /\ new.clean = uploads[u].clean /\ new.infected = uploads[u].infected
        /\ new.size = uploads[u].size /\ new.read = uploads[u].read /\ new.whole = uploads[u].whole
        /\ new.origin = uploads[u].origin /\ new.truncated = uploads[u].truncated
        /\ new.cfg = uploads[u].cfg
    BY <1>10 DEF Upload
  <2>3. Set(u, new)
    BY <1>10
  <2> HIDE DEF new
  <2>4. Sound(new)
    BY <1>10, <2>2 DEF Sound, MaySend
  <2> QED
    BY <2>1, <2>3, <2>4, SetStep
<1>11. ASSUME NEW u \in Uploaded, OriginAnswers(u) \/ OriginFails(u) PROVE UploadsInv'
  BY <1>1, <1>10, <1>11 DEF OriginAnswers, OriginFails
<1>12. ASSUME NEW u \in Uploaded, StreamEnds(u) \/ StreamBreaks(u) PROVE UploadsInv'
  <2> DEFINE new(at) == [uploads[u] EXCEPT !.at = at]
  <2>1. PICK at \in {"answered", "broken"} : Set(u, new(at))
    BY <1>12 DEF StreamEnds, StreamBreaks
  <2>2. uploads[u] \in Upload /\ Typed(uploads[u]) /\ Sound(uploads[u])
    BY <1>1, <1>12 DEF StreamEnds, StreamBreaks
  <2>3. new(at) \in Upload /\ Sound(new(at))
    BY <2>2 DEF Upload, Sound, MaySend
  <2> HIDE DEF new
  <2> QED
    BY <2>1, <2>3, SetStep
<1>13. ASSUME Configure \/ UNCHANGED uploadVars PROVE UploadsInv'
  BY <1>13 DEF Configure, uploadVars, UploadsInv
<1> QED
  BY <1>2, <1>3, <1>4, <1>5, <1>6, <1>7, <1>8, <1>9, <1>11, <1>12, <1>13 DEF UploadsNext

(***************************************************************************)
(* "An unreadable verdict is not a negative one", of clamav.js, and the    *)
(* remark of the gate that a truncated body keeps its framing and has its  *)
(* remainder piped: for any uploads at once, any limit, bodies of any size *)
(* and settings that change at any time, nothing infected reaches the      *)
(* origin unless the settings of its arrival say so, and whatever the      *)
(* origin takes for a whole body is one.                                   *)
(***************************************************************************)
THEOREM UploadsAreScreened ==
    ASSUME UploadsAssumption
    PROVE  UploadsSpec => [](UploadsTypeOK /\ InfectedStaysOut /\ OriginGetsTheBody)
<1>1. UploadsInit => UploadsInv
  BY DEF UploadsInit, UploadsInv
<1>2. UploadsInv /\ [UploadsNext]_uploadVars => UploadsInv'
  BY UploadsStep
<1>3. ASSUME UploadsInv PROVE UploadsTypeOK /\ InfectedStaysOut /\ OriginGetsTheBody
  <2>1. ASSUME NEW u \in Uploaded, uploads[u] # None
        PROVE  uploads[u] \in Upload /\ Sound(uploads[u])
    BY <1>3, <2>1 DEF UploadsInv
  <2>2. \A u \in Uploaded : uploads[u] # None =>
            uploads[u].clean \in {"yes", "no", "unknown", "not asked"}
            /\ uploads[u].cfg.action \in {"block", "flag"}
    BY <2>1 DEF Upload, UploadsAssumption
  <2>3. InfectedStaysOut
    BY <2>1, <2>2 DEF InfectedStaysOut, Sound, MaySend
  <2>4. OriginGetsTheBody
    BY <2>1 DEF OriginGetsTheBody, Sound
  <2>5. UploadsTypeOK
    BY <1>3, <2>1 DEF UploadsTypeOK, UploadsInv
  <2> QED
    BY <2>3, <2>4, <2>5
<1> QED
  BY <1>1, <1>2, <1>3, PTL DEF UploadsSpec

-----------------------------------------------------------------------------
(* Lists: which rows are enforced, and looked up.                          *)

\* A refresh that knows the present list knows its sources and no other; one that does not
\* is counted as long as it runs, and one that has ended has nothing to do.
KnownInv ==
    /\ \A r \in Refreshers : refreshes[r].todo \subseteq refreshes[r].known
    /\ \A r \in Refreshing \ outdated :
          refreshes[r].known = {s \in Sources : subscribed[s] # "no"}
    /\ outdated \subseteq Refreshing
    /\ \A r \in Refreshers \ Refreshing : refreshes[r].todo = {}

\* What was stored for the present list is there, and is of the list; once the rows follow
\* the list nobody is left who does not know it.
FetchedInv ==
    /\ \A s \in fetched : rows[s] # NoRows /\ subscribed[s] # "no"
    /\ settled => outdated = {}

RowsInv == KnownInv /\ FetchedInv /\ RowsFollowSubscriptions

ListsInv == ListsTypeOK /\ RowsInv /\ LookupsAreCurrent

LEMMA ListsInitial == ASSUME ListsAssumption, ListsInit PROVE ListsInv
<1>1. ListsTypeOK
  <2>1. 1 \in 1..MaxVersions /\ 0 \in 0..MaxEdits
    BY DEF ListsAssumption
  <2> QED
    BY <2>1 DEF ListsInit, ListsTypeOK, Resting
<1>2. RowsInv
  BY DEF ListsInit, RowsInv, KnownInv, FetchedInv, RowsFollowSubscriptions, Refreshing, Resting
<1>3. LookupsAreCurrent
  BY DEF ListsInit, LookupsAreCurrent
<1> QED
  BY <1>1, <1>2, <1>3 DEF ListsInv

\* Every step keeps the types.
LEMMA ListsTypes ==
    ASSUME ListsAssumption, ListsTypeOK, [ListsNext]_listVars PROVE ListsTypeOK'
<1> USE DEF ListsTypeOK, ListsAssumption, history
<1>1. ASSUME NEW r \in Refreshers, Begin(r) PROVE ListsTypeOK'
  BY <1>1 DEF Begin
<1>2. ASSUME NEW r \in Refreshers, NEW s \in Sources, Store(r, s) PROVE ListsTypeOK'
  <2>1. rows' \in [Sources -> 1..MaxVersions \cup {NoRows}]
    BY <1>2 DEF Store
  <2>2. index' \in [{Server, Cli} -> [Sources -> 1..MaxVersions \cup {NoRows}] \cup {NotBuilt}]
        /\ unheard' \subseteq {Server, Cli}
    BY <1>2 DEF Store, Stored, Invalidate
  <2>3. refreshes' \in [Refreshers -> [todo : SUBSET Sources, known : SUBSET Sources, on : BOOLEAN]]
    BY <1>2 DEF Store
  <2>4. fetched' \subseteq Sources
    BY <1>2 DEF Store
  <2>5. /\ subscribed' = subscribed /\ published' = published /\ edits' = edits
        /\ outdated' = outdated /\ settled' = settled
    BY <1>2 DEF Store
  <2> QED
    BY <2>1, <2>2, <2>3, <2>4, <2>5
<1>3. ASSUME NEW r \in Refreshers, NEW s \in Sources, Skip(r, s) PROVE ListsTypeOK'
  BY <1>3 DEF Skip
<1>4. ASSUME NEW r \in Refreshers, End(r) PROVE ListsTypeOK'
  BY <1>4 DEF End, Invalidate, Resting
<1>5. ASSUME NEW p \in {Server, Cli}, Stop(p) PROVE ListsTypeOK'
  BY <1>5 DEF Stop, Resting
<1>6. ASSUME NEW s \in Sources, Edit(s) PROVE ListsTypeOK'
  <2>1. subscribed' \in [Sources -> {"no", "enabled", "disabled"}]
    BY <1>6 DEF Edit
  <2>2. edits' \in 0..MaxEdits
    <3>1. edits \in 0..MaxEdits /\ MaxEdits \in Nat /\ edits < MaxEdits /\ edits' = edits + 1
      BY <1>6 DEF Edit
    <3> QED
      BY ONLY <3>1
  <2>3. outdated' \subseteq Refreshers /\ settled' \in BOOLEAN /\ fetched' \subseteq Sources
    BY <1>6 DEF Edit, Refreshing
  <2>4. /\ published' = published /\ rows' = rows /\ index' = index
        /\ refreshes' = refreshes /\ unheard' = unheard
    BY <1>6 DEF Edit
  <2> QED
    BY <2>1, <2>2, <2>3, <2>4
<1>7. ASSUME NEW p \in {Server, Cli}, NEW cleared \in SUBSET Sources, Clear(p, cleared)
      PROVE  ListsTypeOK'
  BY <1>7 DEF Clear, Invalidate
<1>8. ASSUME NEW s \in Sources, Publish(s) PROVE ListsTypeOK'
  BY <1>8 DEF Publish
<1>9. ASSUME Lookup(Server) PROVE ListsTypeOK'
  BY <1>9 DEF Lookup
<1>10. CASE UNCHANGED listVars
  BY <1>10 DEF listVars
<1> HIDE DEF ListsTypeOK
<1> QED
  BY <1>1, <1>2, <1>3, <1>4, <1>5, <1>6, <1>7, <1>8, <1>9, <1>10 DEF ListsNext

\* Every step keeps what the refreshes know, and the rows true to it.
LEMMA RowsStep ==
    ASSUME ListsAssumption, ListsTypeOK, RowsInv, [ListsNext]_listVars PROVE RowsInv'
<1> USE DEF ListsTypeOK, ListsAssumption, history, RowsInv, KnownInv, FetchedInv,
           RowsFollowSubscriptions, Refreshing
<1>1. ASSUME NEW r \in Refreshers, Begin(r) PROVE RowsInv'
  BY <1>1 DEF Begin
<1>2. ASSUME NEW r \in Refreshers, NEW s \in Sources, Store(r, s) PROVE RowsInv'
  BY <1>2 DEF Store
<1>3. ASSUME NEW r \in Refreshers, NEW s \in Sources, Skip(r, s) PROVE RowsInv'
  BY <1>3 DEF Skip
<1>4. ASSUME NEW r \in Refreshers, End(r) PROVE RowsInv'
  BY <1>4 DEF End, Orphans, Resting
<1>5. ASSUME NEW p \in {Server, Cli}, Stop(p) PROVE RowsInv'
  BY <1>5 DEF Stop, Resting
<1>6. ASSUME NEW s \in Sources, Edit(s) PROVE RowsInv'
  BY <1>6 DEF Edit
<1>7. ASSUME NEW p \in {Server, Cli}, NEW cleared \in SUBSET Sources, Clear(p, cleared)
      PROVE  RowsInv'
  BY <1>7 DEF Clear
<1>8. ASSUME NEW s \in Sources, Publish(s) PROVE RowsInv'
  BY <1>8 DEF Publish
<1>9. ASSUME Lookup(Server) PROVE RowsInv'
  BY <1>9 DEF Lookup
<1>10. CASE UNCHANGED listVars
  BY <1>10 DEF listVars
<1> HIDE DEF ListsTypeOK, RowsInv
<1> QED
  BY <1>1, <1>2, <1>3, <1>4, <1>5, <1>6, <1>7, <1>8, <1>9, <1>10 DEF ListsNext

\* Whoever writes drops its own index, and everybody else has yet to hear of it.
LEMMA LookupsStep ==
    ASSUME ListsAssumption, ListsTypeOK, LookupsAreCurrent, [ListsNext]_listVars
    PROVE  LookupsAreCurrent'
<1>1. index \in [{Server, Cli} -> [Sources -> 1..MaxVersions \cup {NoRows}] \cup {NotBuilt}]
      /\ ProcessOf \in [Refreshers -> {Server, Cli}]
      /\ rows \in [Sources -> 1..MaxVersions \cup {NoRows}]
  BY DEF ListsTypeOK, ListsAssumption
<1>2. ASSUME NEW p \in {Server, Cli}, Invalidate(p) PROVE LookupsAreCurrent'
  BY <1>1, <1>2 DEF Invalidate, LookupsAreCurrent
<1> USE DEF history
<1>3. ASSUME UNCHANGED <<index, rows, unheard>> PROVE LookupsAreCurrent'
  BY <1>3 DEF LookupsAreCurrent
<1>4. ASSUME NEW r \in Refreshers, Begin(r) PROVE LookupsAreCurrent'
  BY <1>3, <1>4 DEF Begin
<1>5. ASSUME NEW r \in Refreshers, NEW s \in Sources, Store(r, s) PROVE LookupsAreCurrent'
  BY <1>1, <1>2, <1>5 DEF Store, Stored
<1>6. ASSUME NEW r \in Refreshers, NEW s \in Sources, Skip(r, s) PROVE LookupsAreCurrent'
  BY <1>3, <1>6 DEF Skip
<1>7. ASSUME NEW r \in Refreshers, End(r) PROVE LookupsAreCurrent'
  <2>1. CASE Orphans(r) = {}
    <3>1. rows' = rows
      BY <1>1, <1>7, <2>1 DEF End
    <3> QED
      BY <1>3, <1>7, <2>1, <3>1 DEF End
  <2>2. CASE Orphans(r) # {}
    BY <1>1, <1>2, <1>7, <2>2 DEF End
  <2> QED
    BY <2>1, <2>2
<1>8. ASSUME NEW p \in {Server, Cli}, Stop(p) PROVE LookupsAreCurrent'
  BY <1>1, <1>8 DEF Stop, LookupsAreCurrent
<1>9. ASSUME NEW s \in Sources, Edit(s) PROVE LookupsAreCurrent'
  BY <1>3, <1>9 DEF Edit
<1>10. ASSUME NEW p \in {Server, Cli}, NEW cleared \in SUBSET Sources, Clear(p, cleared)
       PROVE  LookupsAreCurrent'
  BY <1>2, <1>10 DEF Clear
<1>11. ASSUME NEW s \in Sources, Publish(s) PROVE LookupsAreCurrent'
  BY <1>3, <1>11 DEF Publish
<1>12. ASSUME Lookup(Server) PROVE LookupsAreCurrent'
  BY <1>1, <1>12 DEF Lookup, LookupsAreCurrent
<1>13. CASE UNCHANGED listVars
  BY <1>3, <1>13 DEF listVars
<1> QED
  BY <1>4, <1>5, <1>6, <1>7, <1>8, <1>9, <1>10, <1>11, <1>12, <1>13 DEF ListsNext

(***************************************************************************)
(* "Entries for sources that were removed from the configuration should    *)
(* not keep being enforced", and every process looks up what the table     *)
(* holds: for any sources, refreshes in any two processes that overlap one *)
(* another and the edits of the list, and processes that end in the middle,*)
(* once a refresh that knew the present list has ended, and none that did  *)
(* not is left, only subscribed sources have rows and what was fetched for *)
(* the list is there; an index is the table's unless the other process has *)
(* written since.                                                          *)
(***************************************************************************)
THEOREM SubscriptionsHold ==
    ASSUME ListsAssumption PROVE ListsSpec => [](ListsTypeOK /\ ListsHold)
<1>1. ListsInit => ListsInv
  BY ListsInitial
<1>2. ListsInv /\ [ListsNext]_listVars => ListsInv'
  BY ListsTypes, RowsStep, LookupsStep DEF ListsInv
<1>3. ListsInv => ListsTypeOK /\ ListsHold
  BY DEF ListsInv, RowsInv, ListsHold
<1> QED
  BY <1>1, <1>2, <1>3, PTL DEF ListsSpec

-----------------------------------------------------------------------------
(* Enforcement: which verdict is given, and for how long.                  *)

Pass == [at : {"gathering"}, kind : Kinds, begun : Nat, tasks : SUBSET Signals]
        \cup [at : {"probing"}, kind : Kinds, begun : Nat, suspicious : BOOLEAN]

\* A pass is under way for no longer than the deadline, and only for what was not decided
\* by what is local: no canary path, and no allowlisted address, unless it is allowed since.
OnTime(p) ==
    /\ p.begun <= instant /\ instant <= p.begun + DEADLINE
    /\ ~CanaryMatches(p.kind)
    /\ allowlisted => p.begun <= since.allowlisted

PassesInv == \A r \in Requests : passes[r] # NoPass => OnTime(passes[r])

\* A cached verdict has grounds, and is gone by the time it must no longer be given.
VerdictInv ==
    /\ verdict.until <= instant + VERDICT_TTL
    /\ verdict.out.action = "block" => verdict.out.grounds
    /\ verdict.out.action = "block" /\ allowlisted =>
          verdict.until <= since.allowlisted + DEADLINE + VERDICT_TTL
    /\ verdict.out.why = "untriggered" /\ emergency =>
          verdict.until <= since.emergency + VERDICT_TTL
    /\ since.emergency <= instant /\ since.allowlisted <= instant

ClockInv == instant \in 0..MaxInstant /\ since \in [{"emergency", "allowlisted"} -> 0..MaxInstant]
SwitchInv == cfg \in Configs /\ emergency \in BOOLEAN /\ allowlisted \in BOOLEAN
BanInv ==
    /\ ban \in 0..MaxInstant + BAN_TIME /\ verdict.out \in Outcome
    /\ verdict.until \in 0..MaxInstant + VERDICT_TTL
    /\ answer.given => answer.kind \in Kinds /\ answer.out \in Outcome

EnforcementInv ==
    /\ ClockInv /\ SwitchInv /\ BanInv /\ passes \in [Requests -> Pass \cup {NoPass}]
    /\ PassesInv /\ VerdictInv /\ VerdictsHold

\* The numbers of a state.
LEMMA Numbers ==
    ASSUME EnforcementAssumption, EnforcementInv
    PROVE  /\ instant \in Nat /\ instant <= MaxInstant /\ ban \in Nat /\ verdict.until \in Nat
           /\ since.emergency \in Nat /\ since.allowlisted \in Nat
           /\ VERDICT_TTL \in Nat /\ VERDICT_TTL > 0 /\ DEADLINE \in Nat
           /\ BAN_TIME \in Nat /\ BAN_TIME > 0 /\ MaxInstant \in Nat
           /\ VerdictTtl \in Nat /\ VerdictTtl <= VERDICT_TTL
<1>1. /\ instant \in 0..MaxInstant /\ since \in [{"emergency", "allowlisted"} -> 0..MaxInstant]
      /\ ban \in 0..MaxInstant + BAN_TIME /\ verdict.until \in 0..MaxInstant + VERDICT_TTL
  BY DEF EnforcementInv, ClockInv, BanInv
<1>2. /\ VERDICT_TTL \in Nat \ {0} /\ VERDICT_TTL_EMERGENCY \in 1..VERDICT_TTL
      /\ DEADLINE \in Nat /\ BAN_TIME \in Nat \ {0} /\ MaxInstant \in Nat
  BY DEF EnforcementAssumption
<1>3. since.emergency \in 0..MaxInstant /\ since.allowlisted \in 0..MaxInstant
  BY <1>1
<1> QED
  BY <1>1, <1>2, <1>3 DEF VerdictTtl

\* What is to hold of an outcome for it to be concluded.
Fit(k, out, bans) ==
    /\ out \in Outcome
    /\ out.action = "block" => out.grounds
    /\ allowlisted /\ out.action # "allow" => instant <= since.allowlisted + DEADLINE
    /\ out.why = "untriggered" => ~emergency
    /\ CanaryMatches(k) /\ out.why # "allowlist" => out.action = "block" /\ (bans \/ ban > instant)

\* A verdict that fits is one that may be given, and cached.
LEMMA ConcludeStep ==
    ASSUME EnforcementAssumption, EnforcementInv, NEW k \in Kinds, NEW out, NEW bans \in BOOLEAN,
           Fit(k, out, bans), Conclude(k, out, bans), UNCHANGED <<switches, instant>>
    PROVE  BanInv' /\ VerdictInv' /\ VerdictsHold'
<1> DEFINE until == instant + VerdictTtl
           new == instant + BAN_TIME
<1>1. /\ instant \in Nat /\ instant <= MaxInstant /\ ban \in Nat /\ verdict.until \in Nat
      /\ since.emergency \in Nat /\ since.allowlisted \in Nat
      /\ VERDICT_TTL \in Nat /\ VERDICT_TTL > 0 /\ DEADLINE \in Nat
      /\ BAN_TIME \in Nat /\ BAN_TIME > 0 /\ MaxInstant \in Nat
      /\ VerdictTtl \in Nat /\ VerdictTtl <= VERDICT_TTL
  BY Numbers
<1>2. /\ until \in 0..MaxInstant + VERDICT_TTL /\ until <= instant + VERDICT_TTL
      /\ new \in 0..MaxInstant + BAN_TIME /\ new > instant
  BY <1>1
<1>3. /\ cfg' = cfg /\ emergency' = emergency /\ allowlisted' = allowlisted /\ since' = since
      /\ instant' = instant
  BY DEF switches
<1>4. answer' = Answer(k, out) /\ answer'.given /\ answer'.kind = k /\ answer'.out = out
  BY DEF Conclude, Answer
<1>5. \/ verdict' = verdict
      \/ verdict'.out = out /\ verdict'.until = until
  BY DEF Conclude
<1>6. ban' = IF bans /\ new > ban THEN new ELSE ban
  BY DEF Conclude
<1>7. bans \/ ban > instant => ban' > instant
  BY <1>1, <1>2, <1>6
<1> HIDE DEF until, new
<1>8. BanInv'
  <2>1. ban' \in 0..MaxInstant + BAN_TIME
    BY <1>2, <1>6 DEF EnforcementInv, BanInv
  <2>2. verdict'.out \in Outcome /\ verdict'.until \in 0..MaxInstant + VERDICT_TTL
    BY <1>2, <1>5 DEF EnforcementInv, BanInv, Fit
  <2>3. answer'.given => answer'.kind \in Kinds /\ answer'.out \in Outcome
    BY <1>4 DEF Fit
  <2> QED
    BY <2>1, <2>2, <2>3 DEF BanInv
<1>9. VerdictInv'
  <2>1. CASE verdict' = verdict
    BY <1>3, <2>1 DEF EnforcementInv, VerdictInv
  <2>2. CASE verdict'.out = out /\ verdict'.until = until
    <3>1. out.action = "block" /\ allowlisted => until <= since.allowlisted + DEADLINE + VERDICT_TTL
      BY <1>1, <1>2 DEF Fit
    <3> QED
      BY <1>2, <1>3, <2>2, <3>1 DEF EnforcementInv, VerdictInv, Fit
  <2> QED
    BY <1>5, <2>1, <2>2
<1>10. CanaryIsCaught'
  BY <1>3, <1>4, <1>7 DEF CanaryIsCaught, CanaryMatches, Fit
<1>11. RefusalsHaveGrounds'
  BY <1>4 DEF RefusalsHaveGrounds, Fit
<1>12. AllowlistTakesHold'
  <2>1. instant <= since.allowlisted + DEADLINE =>
            ~(instant - since.allowlisted >= VERDICT_TTL + DEADLINE)
    BY <1>1
  <2> QED
    BY <1>3, <1>4, <2>1 DEF AllowlistTakesHold, Fit
<1>13. EmergencyTakesHold'
  BY <1>3, <1>4 DEF EmergencyTakesHold, Fit
<1> QED
  BY <1>8, <1>9, <1>10, <1>11, <1>12, <1>13 DEF VerdictsHold

\* What is decided before anything is asked fits.
LEMMA LocalFits ==
    ASSUME EnforcementInv, NEW k \in Kinds, Local(k)
    PROVE  Fit(k, LocalOutcome(k), LocalOutcome(k).why \in {"tool", "canary"})
<1>1. CASE allowlisted
  BY <1>1 DEF Fit, LocalOutcome, Out, Outcome
<1>2. CASE ~allowlisted /\ ban > instant
  BY <1>2 DEF Fit, LocalOutcome, Out, Outcome
<1>3. CASE ~allowlisted /\ ~(ban > instant) /\ cfg.fingerprint /\ k.agent = "tool"
  BY <1>3 DEF Fit, LocalOutcome, Out, Outcome
<1>4. CASE ~allowlisted /\ ~(ban > instant) /\ ~(cfg.fingerprint /\ k.agent = "tool")
  BY <1>4 DEF Fit, LocalOutcome, Out, Outcome
<1> QED
  BY <1>1, <1>2, <1>3, <1>4

\* A pass that is under way may conclude anything that has grounds.
LEMMA PassFits ==
    ASSUME NEW p, p.kind \in Kinds, p.begun \in Nat, OnTime(p),
           EnforcementAssumption, EnforcementInv, NEW out \in Outcome,
           out.action = "block" => out.grounds, out.why = "untriggered" => ~emergency,
           NEW bans \in BOOLEAN
    PROVE  Fit(p.kind, out, bans)
<1>1. allowlisted => instant <= since.allowlisted + DEADLINE
  <2>1. instant \in Nat /\ since.allowlisted \in Nat /\ DEADLINE \in Nat
    BY Numbers
  <2>2. instant <= p.begun + DEADLINE /\ (allowlisted => p.begun <= since.allowlisted)
    BY DEF OnTime
  <2> QED
    BY <2>1, <2>2
<1> QED
  BY <1>1 DEF Fit, OnTime

\* What remains if no signal decides challenges nobody by itself, and under attack lets
\* nobody in for want of a suspicion.
LEMMA UnsettledFits ==
    ASSUME NEW k, NEW suspicious \in BOOLEAN
    PROVE  /\ Unsettled(k, suspicious) \in Outcome
           /\ Unsettled(k, suspicious).action # "block"
           /\ Unsettled(k, suspicious).why = "untriggered" => ~emergency
  BY DEF Unsettled, ShouldChallenge, Out, Outcome

\* A refusal by the signals has its evidence.
LEMMA SettledFits ==
    ASSUME EnforcementAssumption, SwitchInv, NEW k, NEW found,
           NEW listed \in {"nothing", "allow", "block"}, NEW decisions, NEW out,
           decisions = Decisions(k, found, listed), Settled(decisions),
           out = SettledOutcome(decisions, Evidence(found, listed))
    PROVE  /\ out \in Outcome /\ out.why = "signal" /\ (out.action = "block" => out.grounds)
           /\ Bans(decisions) \in BOOLEAN
<1>1. cfg.onListed \in Actions
  BY DEF EnforcementAssumption, SwitchInv
<1>2. ASSUME NEW s, NEW d, d \in {"block", "ban"}, <<s, d>> \in decisions
      PROVE  Evidence(found, listed)
  <2>1. CASE <<s, d>> \in Gathered(found)
    <3>1. PICK t \in {t \in DOMAIN found : found[t] # "late"} : <<s, d>> = <<t, Decides(found[t])>>
      BY <2>1 DEF Gathered
    <3>2. t \in DOMAIN found /\ Decides(found[t]) = d
      BY <3>1
    <3>3. found[t] \in {"blocked", "listed"} \/ (found[t] = "down" /\ ~cfg.fail_open)
      BY <1>1, <1>2, <3>2 DEF Decides, Actions
    <3> QED
      BY <3>2, <3>3 DEF Evidence
  <2>2. CASE <<s, d>> = <<"tool", "challenge">>
    BY <1>2, <2>2
  <2>3. CASE <<s, d>> = <<"community", listed>>
    BY <1>2, <2>3 DEF Evidence
  <2> QED
    BY <1>2, <2>1, <2>2, <2>3 DEF Decisions
<1>3. Evidence(found, listed) \in BOOLEAN
  BY DEF Evidence
<1>4. CASE Asking(decisions, "allow") # {}
  BY <1>4 DEF SettledOutcome, Out, Outcome, Bans
<1>5. CASE Asking(decisions, "allow") = {}
  <2>1. PICK d \in {"block", "ban"} : Asking(decisions, d) # {}
    BY <1>5 DEF Settled
  <2>2. PICK x \in decisions : x[2] = d
    BY <2>1 DEF Asking
  <2>3. x = <<x[1], x[2]>>
    BY <2>2 DEF Decisions, Gathered
  <2>4. Evidence(found, listed)
    BY <1>2, <2>1, <2>2, <2>3
  <2> QED
    BY <1>5, <2>4 DEF SettledOutcome, Out, Outcome, Bans
<1> QED
  BY <1>4, <1>5

\* A pass that begins, goes on or ends leaves the others as they are.
LEMMA PassStep ==
    ASSUME EnforcementInv, NEW r \in Requests, NEW p, p = NoPass \/ (p \in Pass /\ OnTime(p)),
           passes' = [passes EXCEPT ![r] = p], UNCHANGED <<switches, instant>>
    PROVE  passes' \in [Requests -> Pass \cup {NoPass}] /\ PassesInv'
<1>1. passes \in [Requests -> Pass \cup {NoPass}] /\ PassesInv
  BY DEF EnforcementInv
<1>2. passes' \in [Requests -> Pass \cup {NoPass}]
  BY <1>1
<1>3. \A q \in Requests : passes'[q] = IF q = r THEN p ELSE passes[q]
  BY <1>1
<1>4. ASSUME NEW q, OnTime(q) PROVE OnTime(q)'
  BY <1>4 DEF OnTime, CanaryMatches, switches
<1>5. PassesInv'
  BY <1>1, <1>3, <1>4 DEF PassesInv
<1> QED
  BY <1>2, <1>5

\* An answer from the cache is as good as it was, for as long as it is there.
LEMMA RememberStep ==
    ASSUME EnforcementAssumption, EnforcementInv, NEW r \in Requests, NEW k \in Kinds,
           Remember(r, k)
    PROVE  EnforcementInv'
<1>1. /\ answer' = Answer(k, verdict.out) /\ Cached(k)
      /\ cfg' = cfg /\ emergency' = emergency /\ allowlisted' = allowlisted /\ since' = since
      /\ ban' = ban /\ verdict' = verdict /\ passes' = passes /\ instant' = instant
  BY DEF Remember, switches
<1>2. answer'.given /\ answer'.kind = k /\ answer'.out = verdict.out
  BY <1>1 DEF Answer
<1>3. verdict.until > instant /\ verdict.out.action # "challenge" /\ ~CanaryMatches(k)
  BY <1>1 DEF Cached
<1>4. ClockInv' /\ SwitchInv' /\ passes' \in [Requests -> Pass \cup {NoPass}] /\ VerdictInv'
  BY <1>1 DEF EnforcementInv, ClockInv, SwitchInv, VerdictInv
<1>5. PassesInv'
  BY <1>1 DEF EnforcementInv, PassesInv, OnTime, CanaryMatches
<1>6. verdict.out \in Outcome
  BY DEF EnforcementInv, BanInv
<1>7. BanInv'
  BY <1>1, <1>2, <1>6 DEF EnforcementInv, BanInv
<1>8. CanaryIsCaught' /\ RefusalsHaveGrounds'
  BY <1>1, <1>2, <1>3 DEF EnforcementInv, VerdictInv, CanaryIsCaught, RefusalsHaveGrounds,
                          CanaryMatches
<1>9. AllowlistTakesHold'
  <2>1. ASSUME allowlisted, verdict.out.action = "block"
        PROVE  ~(instant - since.allowlisted >= VERDICT_TTL + DEADLINE)
    <3>1. verdict.until <= since.allowlisted + DEADLINE + VERDICT_TTL
      BY <2>1 DEF EnforcementInv, VerdictInv
    <3>2. /\ instant \in Nat /\ since.allowlisted \in Nat /\ VERDICT_TTL \in Nat /\ DEADLINE \in Nat
          /\ verdict.until \in Nat
      BY Numbers
    <3> QED
      BY <1>3, <3>1, <3>2
  <2>2. verdict.out.action \in {"allow", "block"}
    BY <1>3, <1>6 DEF Outcome
  <2> QED
    BY <1>1, <1>2, <2>1, <2>2 DEF AllowlistTakesHold
<1>10. EmergencyTakesHold'
  <2>1. ASSUME emergency, verdict.out.why = "untriggered"
        PROVE  ~(instant - since.emergency >= VERDICT_TTL)
    <3>1. verdict.until <= since.emergency + VERDICT_TTL
      BY <2>1 DEF EnforcementInv, VerdictInv
    <3>2. instant \in Nat /\ since.emergency \in Nat /\ VERDICT_TTL \in Nat /\ verdict.until \in Nat
      BY Numbers
    <3> QED
      BY <1>3, <3>1, <3>2
  <2> QED
    BY <1>1, <1>2, <2>1 DEF EmergencyTakesHold
<1> QED
  BY <1>4, <1>5, <1>7, <1>8, <1>9, <1>10 DEF EnforcementInv, VerdictsHold

\* A step that gives no answer breaks no promise about answers.
LEMMA NoAnswerHolds == ASSUME answer' = NoAnswer PROVE VerdictsHold'
  BY DEF NoAnswer, VerdictsHold, CanaryIsCaught, RefusalsHaveGrounds, AllowlistTakesHold,
         EmergencyTakesHold

LEMMA JudgeStep ==
    ASSUME EnforcementAssumption, EnforcementInv, NEW r \in Requests, NEW k \in Kinds, Judge(r, k)
    PROVE  EnforcementInv'
<1>1. /\ Local(k) /\ Conclude(k, LocalOutcome(k), LocalOutcome(k).why \in {"tool", "canary"})
      /\ UNCHANGED <<switches, instant>> /\ passes' = passes
  BY DEF Judge
<1>2. BanInv' /\ VerdictInv' /\ VerdictsHold'
  <2> DEFINE out == LocalOutcome(k)
             bans == LocalOutcome(k).why \in {"tool", "canary"}
  <2>1. bans \in BOOLEAN /\ Fit(k, out, bans) /\ Conclude(k, out, bans)
    BY <1>1, LocalFits
  <2> HIDE DEF out, bans
  <2> QED
    BY <1>1, <2>1, ConcludeStep
<1>3. ClockInv' /\ SwitchInv' /\ passes' \in [Requests -> Pass \cup {NoPass}]
  BY <1>1 DEF EnforcementInv, ClockInv, SwitchInv, switches
<1>4. PassesInv'
  BY <1>1 DEF EnforcementInv, PassesInv, OnTime, CanaryMatches, switches
<1> QED
  BY <1>2, <1>3, <1>4 DEF EnforcementInv

\* What a step that leaves the bans and the verdicts alone keeps.
LEMMA QuietStep ==
    ASSUME EnforcementInv, UNCHANGED <<switches, instant, ban, verdict>>, answer' = NoAnswer
    PROVE  ClockInv' /\ SwitchInv' /\ BanInv' /\ VerdictInv' /\ VerdictsHold'
<1>1. ClockInv' /\ SwitchInv' /\ VerdictInv'
  BY DEF EnforcementInv, ClockInv, SwitchInv, VerdictInv, switches
<1>2. ~answer'.given
  BY DEF NoAnswer
<1>3. BanInv'
  BY <1>2 DEF EnforcementInv, BanInv
<1> QED
  BY <1>1, <1>3, NoAnswerHolds

LEMMA AskStep ==
    ASSUME EnforcementAssumption, EnforcementInv, NEW r \in Requests, NEW k \in Kinds, Ask(r, k)
    PROVE  EnforcementInv'
<1> DEFINE p == [at |-> "gathering", kind |-> k, begun |-> instant, tasks |-> cfg.signals]
<1>1. /\ passes' = [passes EXCEPT ![r] = p] /\ ~Local(k)
      /\ UNCHANGED <<switches, instant, ban, verdict>> /\ answer' = NoAnswer
  BY DEF Ask
<1>2. instant \in Nat /\ DEADLINE \in Nat
  BY Numbers
<1>3. instant <= instant /\ instant <= instant + DEADLINE
  BY <1>2
<1>4. p \in Pass
  BY <1>2 DEF Pass, EnforcementInv, SwitchInv, EnforcementAssumption
<1>5. OnTime(p)
  BY <1>1, <1>3 DEF OnTime, Local
<1> HIDE DEF p
<1>6. passes' \in [Requests -> Pass \cup {NoPass}] /\ PassesInv'
  BY <1>1, <1>4, <1>5, PassStep
<1> QED
  BY <1>1, <1>6, QuietStep DEF EnforcementInv

\* A pass that is under way is what it says.
LEMMA UnderWay ==
    ASSUME EnforcementInv, NEW r \in Requests, passes[r] # NoPass
    PROVE  /\ passes[r].kind \in Kinds /\ passes[r].begun \in Nat /\ OnTime(passes[r])
           /\ passes[r].at = "probing" => passes[r].suspicious \in BOOLEAN
  BY DEF EnforcementInv, PassesInv, Pass

\* A pass ends with an outcome that fits.
LEMMA PassEnds ==
    ASSUME EnforcementAssumption, EnforcementInv, NEW r \in Requests, passes[r] # NoPass,
           NEW out \in Outcome, out.action = "block" => out.grounds,
           out.why = "untriggered" => ~emergency, NEW bans \in BOOLEAN,
           Conclude(passes[r].kind, out, bans), passes' = [passes EXCEPT ![r] = NoPass],
           UNCHANGED <<switches, instant>>
    PROVE  EnforcementInv'
<1>1. passes[r].kind \in Kinds /\ passes[r].begun \in Nat /\ OnTime(passes[r])
  BY UnderWay
<1>2. Fit(passes[r].kind, out, bans)
  BY <1>1, PassFits
<1>3. BanInv' /\ VerdictInv' /\ VerdictsHold'
  BY <1>1, <1>2, ConcludeStep
<1>4. passes' \in [Requests -> Pass \cup {NoPass}] /\ PassesInv'
  BY PassStep
<1>5. ClockInv' /\ SwitchInv'
  BY DEF EnforcementInv, ClockInv, SwitchInv, switches
<1> QED
  BY <1>3, <1>4, <1>5 DEF EnforcementInv

LEMMA GatherStep ==
    ASSUME EnforcementAssumption, EnforcementInv, NEW r \in Requests, Gather(r)
    PROVE  EnforcementInv'
<1> DEFINE p == passes[r]
<1>1. PICK found \in [p.tasks -> (UNION {Finds[s] : s \in Signals}) \cup {"late"}],
           listed \in {"nothing", "allow", "block"} : Answered(r, found, listed)
  BY DEF Gather
<1>2. p # NoPass /\ UNCHANGED <<switches, instant>>
  BY DEF Gather, NoPass
<1> DEFINE decisions == Decisions(p.kind, found, listed)
           suspicious == Asking(decisions, "flag") \cup Asking(decisions, "challenge") # {}
<1>3. CASE Settled(decisions)
  <2> DEFINE out == SettledOutcome(decisions, Evidence(found, listed))
  <2>1. /\ Conclude(p.kind, out, Bans(decisions)) /\ passes' = [passes EXCEPT ![r] = NoPass]
    BY <1>1, <1>3 DEF Answered
  <2>2. /\ out \in Outcome /\ out.why = "signal" /\ (out.action = "block" => out.grounds)
        /\ Bans(decisions) \in BOOLEAN
    <3>1. SwitchInv
      BY DEF EnforcementInv
    <3> QED
      BY ONLY EnforcementAssumption, <1>1, <1>3, <3>1, SettledFits
  <2> HIDE DEF out, decisions
  <2> QED
    BY <1>2, <2>1, <2>2, PassEnds
<1>4. CASE ~Settled(decisions) /\ Probes(suspicious)
  <2> DEFINE q == [at |-> "probing", kind |-> p.kind, begun |-> p.begun, suspicious |-> suspicious]
  <2>1. /\ passes' = [passes EXCEPT ![r] = q] /\ answer' = NoAnswer /\ UNCHANGED <<ban, verdict>>
    BY <1>1, <1>4 DEF Answered
  <2>2. p.kind \in Kinds /\ p.begun \in Nat /\ OnTime(p)
    BY <1>2, UnderWay
  <2>3. q \in Pass /\ OnTime(q)
    BY <2>2 DEF Pass, OnTime
  <2> HIDE DEF q, decisions, suspicious
  <2>4. passes' \in [Requests -> Pass \cup {NoPass}] /\ PassesInv'
    BY <1>2, <2>1, <2>3, PassStep
  <2> QED
    BY <1>2, <2>1, <2>4, QuietStep DEF EnforcementInv
<1>5. CASE ~Settled(decisions) /\ ~Probes(suspicious)
  <2> DEFINE out == Unsettled(p.kind, suspicious)
  <2>1. Conclude(p.kind, out, FALSE) /\ passes' = [passes EXCEPT ![r] = NoPass]
    BY <1>1, <1>5 DEF Answered
  <2>2. suspicious \in BOOLEAN
    OBVIOUS
  <2> HIDE DEF suspicious
  <2>3. /\ out \in Outcome /\ out.action # "block" /\ (out.why = "untriggered" => ~emergency)
    BY <2>2, UnsettledFits
  <2> HIDE DEF out, decisions
  <2> QED
    BY <1>2, <2>1, <2>3, PassEnds
<1> QED
  BY <1>3, <1>4, <1>5

LEMMA ProbeStep ==
    ASSUME EnforcementAssumption, EnforcementInv, NEW r \in Requests, Probe(r)
    PROVE  EnforcementInv'
<1> DEFINE p == passes[r]
           suspicious(open) == p.suspicious \/ (open /\ cfg.onProbe = "challenge")
<1>1. p # NoPass /\ p.at = "probing" /\ UNCHANGED <<switches, instant>>
      /\ passes' = [passes EXCEPT ![r] = NoPass]
  BY DEF Probe, NoPass
<1>2. PICK open \in BOOLEAN :
          IF open /\ cfg.onProbe = "ban" THEN Conclude(p.kind, Out("block", "probe", TRUE), TRUE)
          ELSE Conclude(p.kind, Unsettled(p.kind, suspicious(open)), FALSE)
  BY DEF Probe
<1>3. CASE open /\ cfg.onProbe = "ban"
  <2> DEFINE out == Out("block", "probe", TRUE)
  <2>1. out \in Outcome /\ out.grounds /\ out.why # "untriggered"
    BY DEF Out, Outcome
  <2> HIDE DEF out
  <2> QED
    BY <1>1, <1>2, <1>3, <2>1, PassEnds DEF out
<1>4. CASE ~(open /\ cfg.onProbe = "ban")
  <2> DEFINE out == Unsettled(p.kind, suspicious(open))
  <2>1. suspicious(open) \in BOOLEAN
    BY <1>1, UnderWay
  <2>2. out \in Outcome /\ out.action # "block" /\ (out.why = "untriggered" => ~emergency)
    BY <2>1, UnsettledFits
  <2>3. Conclude(p.kind, out, FALSE)
    BY <1>2, <1>4
  <2> HIDE DEF out
  <2> QED
    BY <1>1, <2>2, <2>3, PassEnds
<1> QED
  BY <1>3, <1>4

\* The hop lets pass what could not be judged.
LEMMA FailStep ==
    ASSUME EnforcementAssumption, EnforcementInv, NEW r \in Requests, Fail(r)
    PROVE  EnforcementInv'
<1> DEFINE out == Out("allow", "error", FALSE)
<1>1. /\ passes[r] # NoPass /\ answer' = Answer(passes[r].kind, out)
      /\ passes' = [passes EXCEPT ![r] = NoPass] /\ UNCHANGED <<switches, instant, ban, verdict>>
  BY DEF Fail
<1>2. /\ out \in Outcome /\ out.action = "allow" /\ out.why = "error"
  BY DEF Out, Outcome
<1>3. /\ answer'.kind = passes[r].kind /\ answer'.out = out /\ passes[r].kind \in Kinds
  BY <1>1, UnderWay DEF Answer
<1> HIDE DEF out
<1>4. passes' \in [Requests -> Pass \cup {NoPass}] /\ PassesInv'
  BY <1>1, PassStep
<1>5. ClockInv' /\ SwitchInv' /\ VerdictInv'
  BY <1>1 DEF EnforcementInv, ClockInv, SwitchInv, VerdictInv, switches
<1>6. BanInv'
  BY <1>1, <1>2, <1>3 DEF EnforcementInv, BanInv
<1>7. VerdictsHold'
  BY <1>2, <1>3 DEF VerdictsHold, CanaryIsCaught, RefusalsHaveGrounds, AllowlistTakesHold,
                    EmergencyTakesHold
<1> QED
  BY <1>4, <1>5, <1>6, <1>7 DEF EnforcementInv

LEMMA EmergencyStep ==
    ASSUME EnforcementAssumption, EnforcementInv, SetEmergency PROVE EnforcementInv'
<1>1. /\ emergency' = ~emergency /\ since' = [since EXCEPT !.emergency = instant]
      /\ answer' = NoAnswer /\ cfg' = cfg /\ allowlisted' = allowlisted /\ ban' = ban
      /\ verdict' = verdict /\ passes' = passes /\ instant' = instant
  BY DEF SetEmergency
<1>2. since \in [{"emergency", "allowlisted"} -> 0..MaxInstant] /\ instant \in 0..MaxInstant
  BY DEF EnforcementInv, ClockInv
<1>3. since'.emergency = instant /\ since'.allowlisted = since.allowlisted
  BY <1>1, <1>2
<1>4. ClockInv'
  BY <1>1, <1>2 DEF ClockInv
<1>5. SwitchInv' /\ BanInv'
  BY <1>1 DEF EnforcementInv, SwitchInv, BanInv, NoAnswer
<1>6. passes' \in [Requests -> Pass \cup {NoPass}] /\ PassesInv'
  BY <1>1, <1>3 DEF EnforcementInv, PassesInv, OnTime, CanaryMatches
<1>7. VerdictInv'
  <2>1. instant \in Nat /\ instant <= instant
    BY Numbers
  <2> QED
    BY <1>1, <1>3, <2>1 DEF EnforcementInv, VerdictInv
<1> QED
  BY <1>1, <1>4, <1>5, <1>6, <1>7, NoAnswerHolds DEF EnforcementInv

LEMMA AllowlistStep ==
    ASSUME EnforcementAssumption, EnforcementInv, SetAllowlist PROVE EnforcementInv'
<1>1. /\ allowlisted' = ~allowlisted /\ since' = [since EXCEPT !.allowlisted = instant]
      /\ answer' = NoAnswer /\ cfg' = cfg /\ emergency' = emergency /\ ban' = ban
      /\ verdict' = verdict /\ passes' = passes /\ instant' = instant
  BY DEF SetAllowlist
<1>2. since \in [{"emergency", "allowlisted"} -> 0..MaxInstant] /\ instant \in 0..MaxInstant
  BY DEF EnforcementInv, ClockInv
<1>3. since'.allowlisted = instant /\ since'.emergency = since.emergency
  BY <1>1, <1>2
<1>4. ClockInv'
  BY <1>1, <1>2 DEF ClockInv
<1>5. SwitchInv' /\ BanInv'
  <2>1. allowlisted' \in BOOLEAN
    BY <1>1 DEF EnforcementInv, SwitchInv
  <2> QED
    BY <1>1, <2>1 DEF EnforcementInv, SwitchInv, BanInv, NoAnswer
<1>6. passes' \in [Requests -> Pass \cup {NoPass}] /\ PassesInv'
  BY <1>1, <1>3 DEF EnforcementInv, PassesInv, OnTime, CanaryMatches
<1>7. VerdictInv'
  <2>1. /\ instant \in Nat /\ instant <= instant /\ verdict.until \in Nat
        /\ VERDICT_TTL \in Nat /\ DEADLINE \in Nat
    BY Numbers
  <2>2. verdict.until <= instant + VERDICT_TTL
    BY DEF EnforcementInv, VerdictInv
  <2>3. verdict.until <= instant + DEADLINE + VERDICT_TTL
    BY <2>1, <2>2
  <2> QED
    BY <1>1, <1>3, <2>1, <2>3 DEF EnforcementInv, VerdictInv
<1> QED
  BY <1>1, <1>4, <1>5, <1>6, <1>7, NoAnswerHolds DEF EnforcementInv

LEMMA TickStep ==
    ASSUME EnforcementAssumption, EnforcementInv, Tick PROVE EnforcementInv'
<1>1. /\ instant < MaxInstant /\ instant' = instant + 1 /\ answer' = NoAnswer
      /\ \A r \in Requests : passes[r] # NoPass => instant < passes[r].begun + DEADLINE
      /\ cfg' = cfg /\ emergency' = emergency /\ allowlisted' = allowlisted /\ since' = since
      /\ ban' = ban /\ verdict' = verdict /\ passes' = passes
  BY DEF Tick, switches
<1>2. /\ instant \in Nat /\ MaxInstant \in Nat /\ DEADLINE \in Nat /\ VERDICT_TTL \in Nat
      /\ verdict.until \in Nat /\ since.emergency \in Nat /\ since.allowlisted \in Nat
  BY Numbers
<1>3. ClockInv' /\ SwitchInv'
  <2>1. instant' \in 0..MaxInstant
    BY <1>1, <1>2
  <2> QED
    BY <1>1, <2>1 DEF EnforcementInv, ClockInv, SwitchInv
<1>4. BanInv'
  BY <1>1 DEF EnforcementInv, BanInv, NoAnswer
<1>5. passes' \in [Requests -> Pass \cup {NoPass}] /\ PassesInv'
  <2>1. ASSUME NEW r \in Requests, passes[r] # NoPass PROVE OnTime(passes[r])'
    <3>1. passes[r].begun \in Nat /\ OnTime(passes[r]) /\ instant < passes[r].begun + DEADLINE
      BY <1>1, <2>1, UnderWay
    <3>2. passes[r].begun <= instant
      BY <3>1 DEF OnTime
    <3>3. passes[r].begun <= instant + 1 /\ instant + 1 <= passes[r].begun + DEADLINE
      BY <1>2, <3>1, <3>2
    <3> QED
      BY <1>1, <3>1, <3>3 DEF OnTime, CanaryMatches
  <2> QED
    BY <1>1, <2>1 DEF EnforcementInv, PassesInv
<1>6. VerdictInv'
  <2>1. /\ verdict.until <= instant + VERDICT_TTL
        /\ since.emergency <= instant /\ since.allowlisted <= instant
    BY DEF EnforcementInv, VerdictInv
  <2>2. /\ verdict.until <= instant' + VERDICT_TTL
        /\ since.emergency <= instant' /\ since.allowlisted <= instant'
    BY <1>1, <1>2, <2>1
  <2> QED
    BY <1>1, <2>2 DEF EnforcementInv, VerdictInv
<1> QED
  BY <1>1, <1>3, <1>4, <1>5, <1>6, NoAnswerHolds DEF EnforcementInv

LEMMA EnforcementInitial ==
    ASSUME EnforcementAssumption, EnforcementInit PROVE EnforcementInv
<1>1. /\ 0 \in 0..MaxInstant /\ 0 \in 0..MaxInstant + BAN_TIME
      /\ 0 \in 0..MaxInstant + VERDICT_TTL /\ 0 <= 0 + VERDICT_TTL
  BY DEF EnforcementAssumption
<1>2. ClockInv /\ SwitchInv
  <2>1. since \in [emergency : 0..MaxInstant, allowlisted : 0..MaxInstant]
    BY <1>1 DEF EnforcementInit
  <2>2. since \in [{"emergency", "allowlisted"} -> 0..MaxInstant]
    BY <1>1 DEF EnforcementInit
  <2> QED
    BY <1>1, <2>2 DEF EnforcementInit, ClockInv, SwitchInv
<1>3. BanInv
  BY <1>1 DEF EnforcementInit, BanInv, NoVerdict, NoAnswer, Out, Outcome
<1>4. passes \in [Requests -> Pass \cup {NoPass}] /\ PassesInv
  BY DEF EnforcementInit, PassesInv
<1>5. VerdictInv
  <2>1. instant = 0 /\ since.emergency = 0 /\ since.allowlisted = 0 /\ verdict.until = 0
        /\ verdict.out.action = "challenge" /\ verdict.out.why = "challenged"
    BY DEF EnforcementInit, NoVerdict, Out
  <2> QED
    BY <1>1, <2>1 DEF VerdictInv
<1>6. VerdictsHold
  BY DEF EnforcementInit, NoAnswer, VerdictsHold, CanaryIsCaught, RefusalsHaveGrounds,
         AllowlistTakesHold, EmergencyTakesHold
<1> QED
  BY <1>2, <1>3, <1>4, <1>5, <1>6 DEF EnforcementInv

(***************************************************************************)
(* "A human's explicit allow beats every automatic signal", "if a signal   *)
(* errors or times out, it contributes nothing" and "every non-exempt      *)
(* visitor proves they run JavaScript": for any number of requests of the  *)
(* address that overlap, any settings and any length of a deadline, a      *)
(* verdict and a ban, whoever asks for a canary path is refused and banned,*)
(* each refusal has its grounds, and the allowlist and the emergency take  *)
(* hold once what was cached before them is gone.                          *)
(***************************************************************************)
THEOREM VerdictsAreSound ==
    ASSUME EnforcementAssumption
    PROVE  EnforcementSpec => [](EnforcementTypeOK /\ VerdictsHold)
<1>1. EnforcementInit => EnforcementInv
  BY EnforcementInitial
<1>2. EnforcementInv /\ [EnforcementNext]_enforceVars => EnforcementInv'
  <2>1. ASSUME EnforcementInv, UNCHANGED enforceVars PROVE EnforcementInv'
    BY <2>1 DEF EnforcementInv, ClockInv, SwitchInv, BanInv, PassesInv, VerdictInv, OnTime,
                VerdictsHold, CanaryIsCaught, RefusalsHaveGrounds, AllowlistTakesHold,
                EmergencyTakesHold, CanaryMatches, enforceVars
  <2> QED
    BY <2>1, RememberStep, JudgeStep, AskStep, GatherStep, ProbeStep, FailStep, EmergencyStep,
       AllowlistStep, TickStep DEF EnforcementNext
<1>3. EnforcementInv => EnforcementTypeOK /\ VerdictsHold
  <2>1. ASSUME EnforcementInv, NEW r \in Requests, passes[r] # NoPass
        PROVE  passes[r].at \in {"gathering", "probing"} /\ passes[r].kind \in Kinds
    BY <2>1 DEF EnforcementInv, Pass
  <2> QED
    BY <2>1 DEF EnforcementInv, EnforcementTypeOK, ClockInv, SwitchInv, BanInv
<1> QED
  BY <1>1, <1>2, <1>3, PTL DEF EnforcementSpec

-----------------------------------------------------------------------------
(* The audit log and its rotations: the types.                             *)

\* A log holds no more rows than Coraza has written.
LogInv == \A path \in Paths : Len(log[path]) <= written

\* Where the locals of maintain() name two paths.
HasJob == Labels \ {"down", "idle", "recover", "need", "begin", "prune"}

PathsInv ==
    /\ sidecar.from = Nobody <=> sidecar.to = Nobody
    /\ \A p \in Procs : pc[p] \in HasJob => job[p].from \in Paths /\ job[p].to \in Paths

TypeInv == TypeOK /\ LogInv /\ PathsInv

-----------------------------------------------------------------------------
(* Where the rotation stands.                                              *)

Active(p) == pc[p] \notin {"down", "idle"}
Alone == \A p, q \in Procs : Active(p) /\ Active(q) => p = q
LockInv == \A p \in Procs : holder = p <=> pc[p] \in {"reload", "reloadBack"}

\* No rotation is pending, and one path is named everywhere.
Agreed == ~Pending /\ sidecar.active = caddyfile /\ caddyfile = coraza

\* A rotation was broken off: Coraza runs what the Caddyfile names, one of the
\* two paths of the marker.
Interrupted ==
    /\ Pending /\ sidecar.active = sidecar.from /\ sidecar.from # sidecar.to
    /\ caddyfile = coraza /\ coraza \in {sidecar.from, sidecar.to}

Quiet == Agreed \/ Interrupted

Marked(j) == sidecar = [active |-> j.from, from |-> j.from, to |-> j.to] /\ j.from # j.to
Both(path) == caddyfile = path /\ coraza = path

\* What the process in maintain() may rely on, at each of its labels.
Stage(p) ==
    LET j == job[p]
    IN  /\ pc[p] = "recover" => Quiet
        /\ pc[p] \in {"need", "begin", "prune"} => Agreed
        /\ pc[p] = "marker" => Agreed /\ j.from = sidecar.active /\ j.from # j.to
        /\ pc[p] \in HasJob \ {"marker"} => Marked(j)
        /\ pc[p] = "mention" => Both(j.from) \/ Both(j.to)
        /\ pc[p] \in {"drainPending", "complete", "drain", "state"} => Both(j.to)
        /\ pc[p] \in {"complete", "state"} => ToSet(log[j.from]) \subseteq requestLog
        /\ pc[p] \in {"revertFile", "revertState", "repoint", "abandonFile", "abandonState"}
              => Both(j.from)
        /\ pc[p] = "reload" => caddyfile = j.to /\ coraza = j.from
        /\ pc[p] = "putBack" => caddyfile = j.to /\ coraza \in {j.from, j.to}
        /\ pc[p] = "reloadBack" => caddyfile = j.from /\ coraza \in {j.from, j.to}

StageInv == \A p \in Procs : Stage(p)
IdleInv == (\A p \in Procs : ~Active(p)) => Quiet

Rotation == Alone /\ LockInv /\ IdleInv /\ StageInv /\ coraza \in exists
RotationInv == ~disturbed => Rotation

-----------------------------------------------------------------------------
(* Logs, jobs and what the helpers return.                                 *)

\* What the assumptions say of the constants.
LEMMA ConstantFacts ==
    /\ MaxRows \in Nat /\ MaxNow \in Nat /\ 1 <= MaxNow /\ MaxCrashes \in Nat
    /\ Nobody \notin Procs /\ Nobody \notin Nat
    /\ Paths \subseteq Nat /\ base \in Paths /\ 1..MaxNow \subseteq Paths
    /\ Rows \subseteq Nat
    BY NobodyAssumption, BoundsAssumption DEF Paths, Rows, base

\* A log is a sequence of rows no longer than the bound.
LEMMA LogFacts ==
    ASSUME TypeInv, NEW path \in Paths
    PROVE  /\ log[path] \in Seq(Rows) /\ Len(log[path]) \in 0..MaxRows
           /\ \A i \in 1..Len(log[path]) : log[path][i] \in Rows
           /\ ToSet(log[path]) = {log[path][i] : i \in 1..Len(log[path])}
           /\ ToSet(log[path]) \subseteq Rows
    BY ConstantFacts DEF TypeInv, TypeOK, LogInv, ToSet

\* Unlink empties logs and nothing else.
LEMMA UnlinkTypes ==
    ASSUME TypeInv, NEW paths, Unlink(paths)
    PROVE  /\ exists' \in SUBSET Paths /\ log' \in [Paths -> Seq(Rows)]
           /\ LogInv' /\ UNCHANGED written
<1>1. <<>> \in Seq(Rows) /\ Len(<<>>) = 0 /\ written \in Nat
    BY ConstantFacts DEF TypeInv, TypeOK
<1>2. log' = [path \in Paths |-> IF path \in paths THEN <<>> ELSE log[path]]
    BY DEF Unlink
<1>3. \A path \in Paths : log[path] \in Seq(Rows)
    BY DEF TypeInv, TypeOK
<1>4. \A path \in Paths : log'[path] \in {<<>>, log[path]}
    BY <1>2
<1>5. LogInv'
    BY <1>1, <1>4 DEF TypeInv, LogInv, Unlink
<1>6. log' \in [Paths -> Seq(Rows)]
    BY <1>1, <1>2, <1>3
<1> QED
    BY <1>5, <1>6 DEF TypeInv, TypeOK, Unlink

\* A reload, successful or not, leaves the rows alone.
LEMMA OpenTypes ==
    ASSUME TypeInv, NEW path \in Paths, Open(path) \/ NoReload
    PROVE  /\ coraza' \in Paths /\ exists' \in SUBSET Paths
           /\ log' = log /\ written' = written
    BY DEF TypeInv, TypeOK, Open, NoReload, logs

\* Draining a file, wholly or in part, only adds rows to the database.
LEMMA DrainTypes ==
    ASSUME TypeInv, NEW path \in Paths, DrainAll(path) \/ DrainFails(path)
    PROVE  /\ requestLog' \in SUBSET Rows /\ disturbed' \in BOOLEAN
           /\ requestLog \subseteq requestLog'
           /\ saved' = saved /\ offset' = offset
<1>1. \A i \in 1..Len(log[path]) : log[path][i] \in Rows
    BY LogFacts
<1>2. Len(log[path]) \in Nat
    BY LogFacts
<1>3. CASE DrainAll(path)
    BY <1>3, LogFacts DEF TypeInv, TypeOK, DrainAll
<1>4. CASE DrainFails(path)
    BY <1>1, <1>2, <1>4 DEF TypeInv, TypeOK, DrainFails, Disturb
<1> QED
    BY <1>3, <1>4

Jobs == [from : Paths \cup {Nobody}, to : Paths \cup {Nobody}, rotating : BOOLEAN]

\* The ways in which maintain() sets its locals.
LEMMA JobTypes ==
    ASSUME TypeInv, NEW p \in Procs
    PROVE  /\ \A j \in Jobs : job' = [job EXCEPT ![p] = j] =>
                 job' \in [Procs -> Jobs] /\ job'[p] = j
           /\ NoJob \in Jobs
           /\ [job[p] EXCEPT !.rotating = TRUE] \in Jobs
           /\ job[p] \in Jobs
<1>1. job \in [Procs -> Jobs] /\ job[p] \in Jobs
    BY DEF Jobs, TypeInv, TypeOK
<1> QED
    BY <1>1 DEF Jobs, NoJob

\* A rotation sets out between two paths, in the locals of its own process.
LEMMA JobStep ==
    ASSUME TypeInv, NEW p \in Procs, NEW from \in Paths, NEW to \in Paths,
           job' = [job EXCEPT ![p].from = from, ![p].to = to]
    PROVE  /\ job' \in [Procs -> Jobs] /\ job'[p].from = from /\ job'[p].to = to
           /\ \A q \in Procs \ {p} : job'[q] = job[q]
<1> DEFINE j == [job[p] EXCEPT !.from = from, !.to = to]
<1>1. j \in Jobs /\ j.from = from /\ j.to = to
    BY JobTypes DEF Jobs
<1>2. job \in [Procs -> Jobs] /\ job' = [job EXCEPT ![p] = j]
    BY DEF TypeInv, TypeOK, Jobs
<1> HIDE DEF j
<1> QED
    BY <1>1, <1>2

-----------------------------------------------------------------------------
(* Type correctness.                                                       *)

\* It all begins well-typed.
LEMMA InitTypes == Init => TypeInv
<1> SUFFICES ASSUME Init PROVE TypeInv
    OBVIOUS
<1> USE ConstantFacts DEF Init
<1>1. /\ log = [path \in Paths |-> <<>>] /\ <<>> \in Seq(Rows) /\ Len(<<>>) = 0 /\ written = 0
    OBVIOUS
<1>2. log \in [Paths -> Seq(Rows)] /\ LogInv
    BY <1>1 DEF LogInv
<1>3. job \in [Procs -> Jobs]
    BY DEF Jobs, NoJob
<1>4. PathsInv
    BY DEF PathsInv, HasJob, SettledOn
<1>5. /\ sidecar \in [active : Paths, from : Paths \cup {Nobody}, to : Paths \cup {Nobody}]
      /\ saved \in [path : Paths \cup {Nobody}, offset : 0..MaxRows]
      /\ auditPath \in [Procs -> Paths] /\ offset \in [Procs -> 0..MaxRows \cup {Nobody}]
      /\ pc \in [Procs -> Labels]
    BY DEF SettledOn, Labels
<1>6. exists \in SUBSET Paths /\ coraza \in Paths /\ caddyfile \in Paths
      /\ requestLog \in SUBSET Rows /\ holder \in Procs \cup {Nobody}
    OBVIOUS
<1>7. written \in 0..MaxRows /\ now \in 1..MaxNow /\ crashes \in 0..MaxCrashes
    OBVIOUS
<1>8. disturbed \in BOOLEAN
    OBVIOUS
<1> QED
    BY <1>2, <1>3, <1>4, <1>5, <1>6, <1>7, <1>8 DEF TypeInv, TypeOK, Jobs

\* Every step keeps the types.
LEMMA TypeStep == TypeInv /\ [Next]_vars => TypeInv'
<1> SUFFICES ASSUME TypeInv, [Next]_vars PROVE TypeInv'
    OBVIOUS
<1> USE ConstantFacts DEF TypeInv, TypeOK, LogInv, PathsInv, HasJob, Labels, logs, reader, locals
<1>1. CASE WriteRow
  <2>1. written + 1 \in Rows /\ written' \in 0..MaxRows
    BY <1>1 DEF WriteRow, Rows
  <2>2. log' \in [Paths -> Seq(Rows)] /\ LogInv'
    BY <1>1, <2>1 DEF WriteRow
  <2> QED
    BY <1>1, <2>1, <2>2 DEF WriteRow
<1>2. CASE CaddyRestart
    BY <1>2 DEF CaddyRestart, Disturb
<1>3. CASE TickClock
    BY <1>3 DEF TickClock
<1>4. ASSUME NEW p \in Procs, Start(p) PROVE TypeInv'
    BY <1>4 DEF Start, Goto
<1>5. ASSUME NEW p \in Procs, Crash(p) PROVE TypeInv'
    BY <1>5 DEF Crash, Goto, Disturb, NoJob
<1>6. ASSUME NEW p \in Procs, IngestNewEntries(p) PROVE TypeInv'
  <2> DEFINE path == auditPath[p]
             at == loadOffset(p, path)
  <2>1. path \in Paths
    OBVIOUS
  <2>2. path \in Paths /\ Len(log[path]) \in 0..MaxRows
    BY <2>1, LogFacts
  <2>3. at \in 0..MaxRows
    BY <2>2 DEF loadOffset
  <2>4. ASSUME NEW start \in Nat, NEW end \in start..Len(log[path]),
               requestLog' = requestLog \cup {log[path][i] : i \in (start + 1)..end},
               LET moved == end = Len(log[path]) /\ end # at
               IN  /\ offset' = [offset EXCEPT ![p] = IF moved THEN end ELSE at]
                   /\ saved' = IF moved THEN [path |-> path, offset |-> end] ELSE saved
        PROVE  TypeInv'
    <3> HIDE DEF path, at
    <3>1. end \in 0..MaxRows
      BY <2>2
    <3>2. \A i \in (start + 1)..end : log[path][i] \in Rows
      BY <2>2, <3>1, LogFacts, SMTT(30)
    <3>3. {log[path][i] : i \in (start + 1)..end} \subseteq Rows
      BY <3>2, SMTT(30)
    <3>4. requestLog' \in SUBSET Rows
      BY <2>4, <3>3
    <3>5. offset' \in [Procs -> 0..MaxRows \cup {Nobody}]
      BY <2>3, <2>4, <3>1
    <3>6. saved' \in [path : Paths \cup {Nobody}, offset : 0..MaxRows]
      BY <2>2, <2>4, <3>1
    <3> QED
      BY <1>6, <3>4, <3>5, <3>6 DEF IngestNewEntries
  <2> HIDE DEF path, at
  <2>5. (IF Len(log[path]) < at THEN 0 ELSE at) \in Nat
    BY <2>2, <2>3
  <2> QED
    BY <1>6, <2>4, <2>5 DEF IngestNewEntries, path, at
<1>7. ASSUME NEW p \in Procs, Patch(p) PROVE TypeInv'
  <2>1. auditPath[p] \in Paths
    OBVIOUS
  <2>2. coraza' \in Paths /\ exists' \in SUBSET Paths /\ log' = log /\ written' = written
    BY <1>7, <2>1, OpenTypes DEF Patch
  <2> QED
    BY <1>7, <2>1, <2>2 DEF Patch, Disturb
<1>8. ASSUME NEW p \in Procs, Tx(p) PROVE TypeInv'
    BY <1>8 DEF Tx, Disturb
<1>9. ASSUME NEW p \in Procs, Maintain(p) PROVE TypeInv'
    BY <1>9 DEF Maintain, Goto, Disturb, NoJob
<1>10. ASSUME NEW p \in Procs, Maintaining(p) PROVE TypeInv'
  <2> USE DEF Goto, AfterRecover
  <2>1. CASE Recover(p)
    <3>1. CASE Pending
      <4>1. sidecar.from \in Paths /\ sidecar.to \in Paths
        BY <3>1 DEF Pending
      <4>2. job' = [job EXCEPT ![p].from = sidecar.from, ![p].to = sidecar.to]
        BY <2>1, <3>1 DEF Recover
      <4>3. /\ job' \in [Procs -> Jobs] /\ job'[p].from \in Paths /\ job'[p].to \in Paths
            /\ \A q \in Procs \ {p} : job'[q] = job[q]
        <5> HIDE DEF TypeInv, TypeOK
        <5> QED
          BY <4>1, <4>2, JobStep
      <4> QED
        BY <2>1, <3>1, <4>3 DEF Recover, Jobs
    <3>2. CASE ~Pending
      <4>1. UNCHANGED job /\ Goto(p, AfterRecover(p))
        BY <2>1, <3>2 DEF Recover
      <4> QED
        BY <2>1, <4>1 DEF Recover
    <3> QED
      BY <3>1, <3>2
  <2>2. CASE Mention(p)
    BY <2>2 DEF Mention
  <2>3. CASE DrainPending(p)
    BY <2>3, DrainTypes, ZenonT(30) DEF DrainPending
  <2>4. CASE Complete(p)
    BY <2>4 DEF Complete, SettledOn
  <2>5. CASE RevertFile(p)
    <3>1. exists' \in SUBSET Paths /\ log' \in [Paths -> Seq(Rows)] /\ LogInv' /\ written' = written
      <4>1. CASE Unlink({job[p].to})
        BY <4>1, UnlinkTypes
      <4>2. CASE UNCHANGED logs
        BY <4>2
      <4> QED
        BY <2>5, <4>1, <4>2 DEF RevertFile
    <3> QED
      BY <2>5, <3>1 DEF RevertFile
  <2>6. CASE RevertState(p)
    BY <2>6 DEF RevertState, SettledOn
  <2>7. CASE NeedsRotation(p)
    <3>1. job' \in [Procs -> Jobs]
      <4>1. CASE job' = [job EXCEPT ![p].rotating = TRUE]
        BY <4>1, JobTypes
      <4>2. CASE job' = job
        BY <4>2 DEF Jobs
      <4> QED
        BY <2>7, <4>1, <4>2 DEF NeedsRotation
    <3>2. \A q \in Procs \ {p} : job'[q] = job[q]
      BY <2>7 DEF NeedsRotation
    <3> QED
      BY <2>7, <3>1, <3>2, ZenonT(30) DEF NeedsRotation, Jobs
  <2>8. CASE BeginRotation(p)
    <3>1. CASE Finish(p) /\ UNCHANGED logs
      BY <2>8, <3>1 DEF BeginRotation, Finish, NoJob
    <3>2. CASE /\ exists' = exists \cup {now} /\ UNCHANGED <<log, written>>
               /\ job' = [job EXCEPT ![p].from = sidecar.active, ![p].to = now]
               /\ Goto(p, "marker")
      <4>1. now \in Paths /\ sidecar.active \in Paths
        OBVIOUS
      <4>2. /\ job' \in [Procs -> Jobs] /\ job'[p].from \in Paths /\ job'[p].to \in Paths
            /\ \A q \in Procs \ {p} : job'[q] = job[q]
        <5>1. job' = [job EXCEPT ![p].from = sidecar.active, ![p].to = now]
          BY <3>2
        <5>2. job'[p].from = sidecar.active /\ job'[p].to = now
          BY <5>1
        <5>3. \A q \in Procs \ {p} : job'[q] = job[q]
          BY <3>2
        <5> HIDE DEF TypeInv, TypeOK
        <5>4. job' \in [Procs -> Jobs]
          BY <4>1, <5>1, JobStep
        <5> QED
          BY <4>1, <5>2, <5>3, <5>4
      <4> QED
        BY <2>8, <3>2, <4>1, <4>2 DEF BeginRotation, Jobs
    <3> QED
      BY <2>8, <3>1, <3>2 DEF BeginRotation
  <2>9. CASE Marker(p)
    BY <2>9 DEF Marker
  <2>10. CASE Repoint(p)
    <3>1. job[p].to \in Paths /\ p \in Procs /\ UNCHANGED <<logs, job, sidecar, reader, auditPath>>
      BY <2>10 DEF Repoint
    <3>2. caddyfile' \in Paths /\ holder' \in Procs \cup {Nobody}
      BY <2>10, <3>1 DEF Repoint
    <3>3. pc' \in [Procs -> Labels] /\ \A q \in Procs \ {p} : pc'[q] = pc[q]
      BY <2>10 DEF Repoint
    <3>4. PathsInv'
      BY <2>10, <3>1, <3>3 DEF Repoint
    <3>5. LogInv' /\ UNCHANGED <<exists, log, written, requestLog, saved, offset, auditPath,
                                 coraza, sidecar, job, now, crashes, disturbed>>
      BY <2>10, <3>1 DEF Repoint
    <3> QED
      BY <3>2, <3>3, <3>4, <3>5
  <2>11. CASE RepointTimeout(p)
    BY <2>11 DEF RepointTimeout, Finish, NoJob
  <2>12. CASE Reload(p)
    <3>1. coraza' \in Paths /\ exists' \in SUBSET Paths /\ log' = log /\ written' = written
      BY <2>12, OpenTypes DEF Reload
    <3> QED
      BY <2>12, <3>1, ZenonT(30) DEF Reload
  <2>13. CASE PutBack(p)
    <3>1. CASE /\ caddyfile' = job[p].from /\ holder' = p
               /\ Goto(p, "reloadBack") /\ UNCHANGED <<job, disturbed>>
      BY <2>13, <3>1 DEF PutBack
    <3>2. CASE Goto(p, "abandonFile") /\ Disturb(TRUE) /\ UNCHANGED <<caddyfile, holder, job>>
      BY <2>13, <3>2 DEF PutBack, Disturb
    <3>3. CASE Finish(p) /\ Disturb(TRUE) /\ UNCHANGED <<caddyfile, holder>>
      BY <2>13, <3>3 DEF PutBack, Finish, NoJob, Disturb
    <3> QED
      BY <2>13, <3>1, <3>2, <3>3 DEF PutBack
  <2>14. CASE ReloadBack(p)
    BY <2>14, OpenTypes, SMTT(30) DEF ReloadBack, Disturb
  <2>15. CASE AbandonFile(p)
    BY <2>15, UnlinkTypes DEF AbandonFile
  <2>16. CASE AbandonState(p)
    BY <2>16 DEF AbandonState, SettledOn, Finish, NoJob
  <2>17. CASE Drain(p)
    <3>1. /\ requestLog' \in SUBSET Rows /\ disturbed' \in BOOLEAN
          /\ saved' = saved /\ offset' = offset
      BY <2>17, DrainTypes DEF Drain
    <3>2. CASE Goto(p, "state") /\ UNCHANGED job
      BY <2>17, <3>1, <3>2 DEF Drain
    <3>3. CASE Finish(p)
      BY <2>17, <3>1, <3>3 DEF Drain, Finish, NoJob
    <3> QED
      BY <2>17, <3>2, <3>3 DEF Drain
  <2>18. CASE State(p)
    BY <2>18 DEF State, SettledOn
  <2>19. CASE Prune(p)
    BY <2>19, UnlinkTypes DEF Prune, Finish, NoJob
  <2> QED
    BY <1>10, <2>1, <2>2, <2>3, <2>4, <2>5, <2>6, <2>7, <2>8, <2>9, <2>10, <2>11, <2>12, <2>13,
       <2>14, <2>15, <2>16, <2>17, <2>18, <2>19 DEF Maintaining
<1>11. CASE UNCHANGED vars
    BY <1>11 DEF vars
<1> QED
    BY <1>1, <1>2, <1>3, <1>4, <1>5, <1>6, <1>7, <1>8, <1>9, <1>10, <1>11 DEF Next
-----------------------------------------------------------------------------
-----------------------------------------------------------------------------
(* The rotation.                                                           *)

\* What a process relies on survives the steps of others that leave sidecar,
\* Caddyfile and Coraza alone.
LEMMA StageKept ==
    ASSUME NEW p \in Procs, Stage(p), pc'[p] = pc[p], job'[p] = job[p],
           UNCHANGED <<sidecar, caddyfile, coraza>>,
           pc[p] \in {"complete", "state"} =>
              (ToSet(log[job[p].from]) \subseteq requestLog
                 => ToSet(log'[job[p].from]) \subseteq requestLog')
    PROVE  Stage(p)'
    BY DEF Stage, Quiet, Agreed, Interrupted, Pending, Marked, Both, HasJob, Labels

\* The part of the invariant that one step of maintain() can disturb.
Steps(p) ==
    /\ Stage(p) /\ (~Active(p) => Quiet)
    /\ holder = p <=> pc[p] \in {"reload", "reloadBack"}
    /\ coraza \in exists

\* Every step of maintain() is taken by a process in it, and none writes a row.
LEMMA MaintainingFacts ==
    ASSUME NEW p \in Procs, Maintaining(p)
    PROVE  Active(p) /\ written' = written
<1>1. Active(p)
    BY DEF Active, Maintaining, Recover, Mention, DrainPending, Complete, RevertFile,
       RevertState, NeedsRotation, BeginRotation, Marker, Repoint, RepointTimeout, Reload, PutBack,
       ReloadBack, AbandonFile, AbandonState, Drain, State, Prune
<1>2. written' = written
    BY DEF Maintaining, Recover, Mention, DrainPending, Complete, RevertFile, RevertState,
       NeedsRotation, BeginRotation, Marker, Repoint, RepointTimeout, Reload, PutBack, ReloadBack,
       AbandonFile, AbandonState, Drain, State, Prune, Unlink, Open, NoReload, Finish, logs
<1> QED
    BY <1>1, <1>2

\* A step of maintain() leads from one stage of the rotation to another, and
\* leaves a settled or an interrupted rotation behind when it is the last.
LEMMA MaintainKeepsStage ==
    ASSUME TypeInv, NEW p \in Procs, Maintaining(p), Active(p), Steps(p), ~disturbed'
    PROVE  /\ Steps(p)'
           /\ \A q \in Procs \ {p} : pc'[q] = pc[q] /\ (holder' = q <=> holder = q)
<1> USE ConstantFacts DEF Goto, AfterRecover, logs, reader, locals, TypeInv, TypeOK, PathsInv,
        HasJob, Labels, Steps, Stage, Active, Quiet, Agreed, Interrupted, Pending, Marked, Both
<1>1. CASE Recover(p)
  <2>1. CASE Pending
    <3>1. job'[p].from = sidecar.from /\ job'[p].to = sidecar.to /\ pc'[p] = "mention"
      BY <1>1, <2>1, SMTT(30) DEF Recover
    <3>2. sidecar = [active |-> sidecar.from, from |-> sidecar.from, to |-> sidecar.to]
          /\ sidecar.from # sidecar.to /\ caddyfile = coraza
          /\ coraza \in {sidecar.from, sidecar.to}
      BY <1>1, <2>1 DEF Recover
    <3> QED
      BY <1>1, <3>1, <3>2 DEF Recover
  <2>2. CASE ~Pending
    <3>1. UNCHANGED job /\ Goto(p, AfterRecover(p))
      BY <1>1, <2>2 DEF Recover
    <3> QED
      BY <1>1, <2>2, <3>1 DEF Recover
  <2> QED
    BY <2>1, <2>2
<1>2. CASE Mention(p)
    BY <1>2 DEF Mention
<1>3. CASE DrainPending(p)
    BY <1>3 DEF DrainPending, DrainAll, DrainFails, Disturb
<1>4. CASE Complete(p)
    BY <1>4 DEF Complete, SettledOn
<1>5. CASE RevertFile(p)
    BY <1>5 DEF RevertFile, Unlink
<1>6. CASE RevertState(p)
    BY <1>6 DEF RevertState, SettledOn
<1>7. CASE NeedsRotation(p)
    BY <1>7, SMTT(30) DEF NeedsRotation
<1>8. CASE BeginRotation(p)
  <2>1. CASE Finish(p) /\ UNCHANGED logs
    BY <1>8, <2>1 DEF BeginRotation, Finish, NoJob
  <2>2. CASE /\ now \notin exists /\ exists' = exists \cup {now}
             /\ job' = [job EXCEPT ![p].from = sidecar.active, ![p].to = now]
             /\ Goto(p, "marker")
    <3>1. job'[p].from = sidecar.active /\ job'[p].to = now /\ pc'[p] = "marker"
      BY <2>2
    <3>2. now # sidecar.active
      BY <1>8, <2>2 DEF BeginRotation
    <3> QED
      BY <1>8, <2>2, <3>1, <3>2 DEF BeginRotation
  <2> QED
    BY <1>8, <2>1, <2>2 DEF BeginRotation
<1>9. CASE Marker(p)
    BY <1>9 DEF Marker
<1>10. CASE Repoint(p)
    BY <1>10 DEF Repoint
<1>11. CASE RepointTimeout(p)
    BY <1>11 DEF RepointTimeout, Finish, NoJob
<1>12. CASE Reload(p)
    BY <1>12 DEF Reload, Open, NoReload
<1>13. CASE PutBack(p)
  <2>1. /\ caddyfile' = job[p].from /\ holder' = p /\ pc' = [pc EXCEPT ![p] = "reloadBack"]
        /\ holder = Nobody /\ UNCHANGED <<job, disturbed>>
    BY <1>13 DEF PutBack, Disturb
  <2> QED
    BY <1>13, <2>1 DEF PutBack
<1>14. CASE ReloadBack(p)
  <2>1. coraza = caddyfile /\ coraza' = coraza /\ exists' = exists /\ log' = log
    BY <1>14 DEF ReloadBack, Open, NoReload, Disturb
  <2> QED
    BY <1>14, <2>1 DEF ReloadBack
<1>15. CASE AbandonFile(p)
    BY <1>15 DEF AbandonFile, Unlink
<1>16. CASE AbandonState(p)
    BY <1>16 DEF AbandonState, SettledOn, Finish, NoJob
<1>17. CASE Drain(p)
    BY <1>17 DEF Drain, DrainAll, DrainFails, Disturb, Finish, NoJob
<1>18. CASE State(p)
    BY <1>18 DEF State, SettledOn
<1>19. CASE Prune(p)
    BY <1>19 DEF Prune, Unlink, Finish, NoJob
<1> QED
    BY <1>1, <1>2, <1>3, <1>4, <1>5, <1>6, <1>7, <1>8, <1>9, <1>10, <1>11, <1>12, <1>13,
       <1>14, <1>15, <1>16, <1>17, <1>18, <1>19 DEF Maintaining

\* NothingLost, for one row.
Kept(row) ==
    \/ row \in requestLog
    \/ row \in ToSet(log[coraza])
    \/ Pending /\ row \in ToSet(log[sidecar.from])

\* A step of maintain() drops no row, whichever file it unlinks or gives up.
LEMMA MaintainKeepsRows ==
    ASSUME TypeInv, NEW p \in Procs, Maintaining(p), Active(p), Steps(p), ~disturbed',
           NEW row, Kept(row)
    PROVE  Kept(row)' /\ written' = written
<1> USE ConstantFacts DEF Goto, logs, reader, locals, TypeInv, TypeOK, PathsInv,
        HasJob, Labels, Steps, Stage, Active, Quiet, Agreed, Interrupted, Pending, Marked,
        Both, Kept
<1>1. CASE Recover(p)
    BY <1>1 DEF Recover
<1>2. CASE Mention(p)
    BY <1>2 DEF Mention
<1>3. CASE DrainPending(p)
    BY <1>3 DEF DrainPending, DrainAll, DrainFails, Disturb
<1>4. CASE Complete(p)
    BY <1>4 DEF Complete, SettledOn
<1>5. CASE RevertFile(p)
    BY <1>5 DEF RevertFile, Unlink
<1>6. CASE RevertState(p)
    BY <1>6 DEF RevertState, SettledOn
<1>7. CASE NeedsRotation(p)
    BY <1>7 DEF NeedsRotation
<1>8. CASE BeginRotation(p)
    BY <1>8 DEF BeginRotation, Finish, NoJob
<1>9. CASE Marker(p)
    BY <1>9 DEF Marker
<1>10. CASE Repoint(p)
    BY <1>10 DEF Repoint
<1>11. CASE RepointTimeout(p)
    BY <1>11 DEF RepointTimeout, Finish, NoJob
<1>12. CASE Reload(p)
    BY <1>12 DEF Reload, Open, NoReload
<1>13. CASE PutBack(p)
    BY <1>13 DEF PutBack, Finish, NoJob, Disturb
<1>14. CASE ReloadBack(p)
    BY <1>14 DEF ReloadBack, Open, NoReload, Disturb
<1>15. CASE AbandonFile(p)
    BY <1>15 DEF AbandonFile, Unlink
<1>16. CASE AbandonState(p)
    BY <1>16 DEF AbandonState, SettledOn, Finish, NoJob
<1>17. CASE Drain(p)
    BY <1>17 DEF Drain, DrainAll, DrainFails, Disturb, Finish, NoJob
<1>18. CASE State(p)
    BY <1>18 DEF State, SettledOn
<1>19. CASE Prune(p)
    BY <1>19 DEF Prune, Unlink, Finish, NoJob
<1> QED
    BY <1>1, <1>2, <1>3, <1>4, <1>5, <1>6, <1>7, <1>8, <1>9, <1>10, <1>11, <1>12, <1>13,
       <1>14, <1>15, <1>16, <1>17, <1>18, <1>19 DEF Maintaining

\* The stage of the rotation is kept by every step that disturbs nothing.
LEMMA RotationStep ==
    ASSUME TypeInv, RotationInv, [Next]_vars, ~disturbed'
    PROVE  Rotation'
<1> USE ConstantFacts DEF Goto, logs, reader, locals
<1>1. ~disturbed /\ Alone /\ LockInv /\ IdleInv /\ StageInv /\ coraza \in exists
  <2>1. disturbed /\ [Next]_vars => disturbed'
    BY DEF Next, vars
  <2> QED
    BY <2>1 DEF RotationInv, Rotation
<1>2. ASSUME NEW p \in Procs, Maintaining(p)
      PROVE  Rotation'
  <2>1. Active(p) /\ Steps(p)
    <3>1. Active(p)
      BY <1>2, MaintainingFacts
    <3> QED
      BY <1>1, <3>1 DEF Steps, StageInv, LockInv
  <2>2. /\ Steps(p)'
        /\ \A q \in Procs \ {p} : pc'[q] = pc[q] /\ (holder' = q <=> holder = q)
    BY <1>2, <2>1, MaintainKeepsStage
  <2>3. \A q \in Procs \ {p} : ~Active(q) /\ ~Active(q)'
    BY <1>1, <2>1, <2>2 DEF Alone, Active
  <2>4. \A q \in Procs \ {p} : Stage(q)'
    BY <2>3 DEF Stage, Active, HasJob, Labels
  <2>5. Alone'
    BY <2>3 DEF Alone
  <2>6. LockInv'
    BY <1>1, <2>2 DEF LockInv, Steps
  <2>7. IdleInv'
    BY <2>2 DEF IdleInv, Steps
  <2> QED
    BY <2>2, <2>4, <2>5, <2>6, <2>7 DEF StageInv, Steps, Rotation
\* Steps that leave maintain() and the lock alone.
<1>3. ASSUME pc' = pc, job' = job, holder' = holder, UNCHANGED <<sidecar, caddyfile>>,
             coraza' = coraza, coraza \in exists',
             \A p \in Procs : pc[p] \in {"complete", "state"} =>
                log'[job[p].from] = log[job[p].from] /\ requestLog \subseteq requestLog'
      PROVE  Rotation'
  <2>1. Alone' /\ LockInv'
    BY <1>1, <1>3 DEF Alone, Active, LockInv
  <2>2. IdleInv'
    BY <1>1, <1>3 DEF IdleInv, Active, Quiet, Agreed, Interrupted, Pending
  <2>3. StageInv'
    BY <1>1, <1>3, StageKept DEF StageInv
  <2> QED
    BY <1>3, <2>1, <2>2, <2>3 DEF Rotation
<1>4. CASE WriteRow
  <2>1. \A p \in Procs : pc[p] \in {"complete", "state"} => job[p].from # coraza
    BY <1>1 DEF StageInv, Stage, Both, Marked, HasJob, Labels
  <2>2. \A path \in Paths \ {coraza} : log'[path] = log[path]
    BY <1>4 DEF WriteRow, TypeInv, TypeOK
  <2>3. \A p \in Procs : pc[p] \in {"complete", "state"} => job[p].from \in Paths
    BY DEF TypeInv, PathsInv, HasJob, Labels
  <2> QED
    BY <1>1, <1>3, <1>4, <2>1, <2>2, <2>3 DEF WriteRow
<1>5. CASE CaddyRestart
  <2>1. coraza = caddyfile
    BY <1>5 DEF CaddyRestart, Disturb
  <2> QED
    BY <1>1, <1>3, <1>5, <2>1 DEF CaddyRestart
<1>6. CASE TickClock
    BY <1>1, <1>3, <1>6 DEF TickClock
<1>7. ASSUME NEW p \in Procs, IngestNewEntries(p)
      PROVE  Rotation'
  <2>1. requestLog \subseteq requestLog'
    BY <1>7 DEF IngestNewEntries
  <2> QED
    BY <1>1, <1>3, <1>7, <2>1 DEF IngestNewEntries

\* A reload from outside the rotation, while nobody holds the lock.
<1>8. ASSUME pc' = pc, job' = job, holder' = holder,
             UNCHANGED <<sidecar, caddyfile, log, requestLog>>,
             coraza' = caddyfile, coraza' \in exists', \A p \in Procs : holder # p
      PROVE  Rotation'
  <2>1. Alone' /\ LockInv'
    BY <1>1, <1>8 DEF Alone, Active, LockInv
  <2>2. IdleInv'
    BY <1>1, <1>8 DEF IdleInv, Active, Quiet, Agreed, Interrupted, Pending
  <2>3. ASSUME NEW p \in Procs PROVE Stage(p)'
    <3>1. Stage(p) /\ pc[p] \notin {"reload", "reloadBack"}
      BY <1>1, <1>8 DEF StageInv, LockInv
    <3>2. CASE pc[p] = "putBack"
      BY <1>8, <3>1, <3>2 DEF Stage, Marked, HasJob, Labels
    <3>3. CASE pc[p] # "putBack" /\ Active(p)
      <4>1. coraza = caddyfile
        BY <3>1, <3>3 DEF Stage, Active, Both, Quiet, Agreed, Interrupted, HasJob, Labels,
           TypeInv, TypeOK
      <4> QED
        BY <1>8, <3>1, <4>1, StageKept
    <3>4. CASE ~Active(p)
      BY <1>8, <3>4 DEF Stage, Active, HasJob, Labels
    <3> QED
      BY <3>2, <3>3, <3>4
  <2> QED
    BY <1>8, <2>1, <2>2, <2>3 DEF StageInv, Rotation
<1>9. ASSUME NEW p \in Procs, Patch(p)
      PROVE  Rotation'
  <2>1. caddyfile' = caddyfile /\ auditPath[p] = caddyfile /\ \A q \in Procs : holder # q
    BY <1>9 DEF Patch, Disturb
  <2>2. CASE Open(auditPath[p])
    <3>1. coraza' = caddyfile /\ coraza' \in exists'
      BY <1>1, <2>1, <2>2 DEF Open
    <3> QED
      BY <1>8, <1>9, <2>1, <2>2, <3>1 DEF Patch, Open
  <2>3. CASE NoReload
    BY <1>1, <1>3, <1>9, <2>1, <2>3 DEF Patch, NoReload
  <2> QED
    BY <1>9, <2>2, <2>3 DEF Patch
<1>10. ASSUME NEW p \in Procs, Tx(p)
      PROVE  Rotation'
  <2>1. caddyfile' = caddyfile /\ \A q \in Procs : holder # q
    BY <1>10 DEF Tx, Disturb
  <2>2. CASE coraza' = coraza
    BY <1>1, <1>3, <1>10, <2>1, <2>2 DEF Tx
  <2>3. CASE coraza' # coraza
    <3>1. coraza' = caddyfile /\ coraza' \in exists'
      BY <1>10, <2>1, <2>3 DEF Tx
    <3> QED
      BY <1>8, <1>10, <2>1, <3>1 DEF Tx
  <2> QED
    BY <2>2, <2>3
\* Steps that begin or end maintain(), or a process.
<1>11. ASSUME NEW p \in Procs, NEW label \in {"down", "idle", "recover"},
              pc' = [pc EXCEPT ![p] = label], \A q \in Procs \ {p} : job'[q] = job[q],
              UNCHANGED <<logs, coraza, caddyfile, sidecar, requestLog>>,
              holder' = IF holder = p THEN Nobody ELSE holder,
              label = "recover" => \A q \in Procs : ~Active(q),
              label = "down" => coraza = caddyfile,
              label = "idle" => ~Active(p)
       PROVE  Rotation'
  <2>1. \A q \in Procs : pc'[q] = IF q = p THEN label ELSE pc[q]
    BY <1>11 DEF TypeInv, TypeOK
  <2>2. Alone'
    BY <1>1, <1>11, <2>1 DEF Alone, Active
  <2>3. LockInv'
    BY <1>1, <1>11, <2>1 DEF LockInv
  <2>4. Active(p) /\ label = "down" => Quiet
    BY <1>1, <1>11 DEF Active, StageInv, Stage, Quiet, Agreed, Interrupted, Pending, Marked, Both,
       HasJob, Labels, TypeInv, TypeOK, PathsInv
  <2>5. (\A q \in Procs : ~Active(q)) => Quiet
    BY <1>1 DEF IdleInv
  <2>6. Quiet' <=> Quiet
    BY <1>11 DEF Quiet, Agreed, Interrupted, Pending
  <2>7. IdleInv'
    BY <1>11, <2>1, <2>4, <2>5, <2>6 DEF IdleInv, Active
  <2>8. ASSUME NEW q \in Procs PROVE Stage(q)'
    <3>1. CASE q # p
      BY <1>1, <1>11, <2>1, <3>1, StageKept DEF StageInv
    <3>2. CASE q = p
      BY <1>11, <2>1, <2>5, <2>6, <3>2 DEF Stage, HasJob, Labels
    <3> QED
      BY <3>1, <3>2
  <2> QED
    BY <1>1, <1>11, <2>2, <2>3, <2>7, <2>8 DEF StageInv, Rotation
<1>12. ASSUME NEW p \in Procs, Start(p) \/ Crash(p) \/ Maintain(p)
       PROVE  Rotation'
  <2>1. CASE Start(p)
    <3>1. ~Active(p) /\ holder # p
      BY <1>1, <2>1 DEF Start, Active, LockInv
    <3> QED
      BY <1>11, <2>1, <3>1 DEF Start
  <2>2. CASE Crash(p)
    <3>1. coraza = caddyfile
      BY <2>2 DEF Crash, Disturb
    <3>2. /\ pc' = [pc EXCEPT ![p] = "down"] /\ holder' = (IF holder = p THEN Nobody ELSE holder)
          /\ \A q \in Procs \ {p} : job'[q] = job[q]
          /\ UNCHANGED <<logs, coraza, caddyfile, sidecar, requestLog>>
      BY <2>2 DEF Crash, TypeInv, TypeOK
    <3> QED
      BY <1>11, <3>1, <3>2
  <2>3. CASE Maintain(p)
    <3>1. holder # p /\ \A q \in Procs : ~Active(q)
      BY <1>1, <2>3 DEF Maintain, Disturb, Active, LockInv
    <3>2. /\ pc' = [pc EXCEPT ![p] = "recover"] /\ holder' = (IF holder = p THEN Nobody ELSE holder)
          /\ \A q \in Procs \ {p} : job'[q] = job[q]
          /\ UNCHANGED <<logs, coraza, caddyfile, sidecar, requestLog>>
      BY <2>3, <3>1 DEF Maintain, TypeInv, TypeOK
    <3> QED
      BY <1>11, <3>1, <3>2
  <2> QED
    BY <1>12, <2>1, <2>2, <2>3
<1>13. CASE UNCHANGED vars
    BY <1>1, <1>3, <1>13 DEF vars
<1> QED
    BY <1>2, <1>4, <1>5, <1>6, <1>7, <1>9, <1>10, <1>12, <1>13 DEF Next

\* So are the rows.
LEMMA KeptStep ==
    ASSUME TypeInv, RotationInv, NothingLost, [Next]_vars
    PROVE  NothingLost'
<1> USE DEF Goto, logs, reader, locals
<1> SUFFICES ASSUME ~disturbed', NEW row \in 1..written' PROVE Kept(row)'
    BY DEF NothingLost, Kept
<1>1. /\ ~disturbed /\ StageInv /\ LockInv /\ IdleInv /\ coraza \in exists
      /\ \A n \in 1..written : Kept(n)
  <2>1. disturbed /\ [Next]_vars => disturbed'
    BY DEF Next, vars
  <2> QED
    BY <2>1 DEF RotationInv, Rotation, NothingLost, Kept
\* Steps that neither write a row nor move Coraza.
<1>2. ASSUME UNCHANGED <<log, written, coraza, sidecar>>, requestLog \subseteq requestLog'
      PROVE  Kept(row)'
    BY <1>1, <1>2 DEF Kept, Pending
<1>3. ASSUME NEW p \in Procs, Maintaining(p) PROVE Kept(row)'
  <2>1. Active(p) /\ written' = written
    BY <1>3, MaintainingFacts
  <2>2. Steps(p)
    BY <1>1, <2>1 DEF Steps, StageInv, LockInv
  <2> QED
    BY <1>1, <1>3, <2>1, <2>2, MaintainKeepsRows
<1>4. CASE WriteRow
  <2>1. log' = [log EXCEPT ![coraza] = Append(@, written + 1)] /\ written' = written + 1
    BY <1>1, <1>4 DEF WriteRow
  <2>2. /\ log[coraza] \in Seq(Rows) /\ written \in Nat /\ coraza \in Paths
        /\ written + 1 \in Rows /\ sidecar.from \in Paths \cup {Nobody}
        /\ (Pending => sidecar.from \in Paths)
    BY <1>4, ConstantFacts DEF WriteRow, TypeInv, TypeOK, PathsInv, Pending, Rows
  <2>3. /\ Len(log'[coraza]) = Len(log[coraza]) + 1
        /\ log'[coraza][Len(log[coraza]) + 1] = written + 1
        /\ \A i \in 1..Len(log[coraza]) : log'[coraza][i] = log[coraza][i]
        /\ log'[coraza] \in Seq(Rows)
    BY <2>1, <2>2 DEF TypeInv, TypeOK
  <2>4. ToSet(log'[coraza]) = ToSet(log[coraza]) \cup {written + 1}
    <3>1. /\ DOMAIN log[coraza] = 1..Len(log[coraza]) /\ Len(log[coraza]) \in Nat
          /\ DOMAIN log'[coraza] = 1..(Len(log[coraza]) + 1)
      BY <2>2, <2>3
    <3>2. ASSUME NEW x \in ToSet(log'[coraza]) PROVE x \in ToSet(log[coraza]) \cup {written + 1}
      <4>1. PICK i \in 1..(Len(log[coraza]) + 1) : x = log'[coraza][i]
        BY <3>1, <3>2 DEF ToSet
      <4>2. CASE i = Len(log[coraza]) + 1
        BY <2>3, <4>1, <4>2
      <4>3. CASE i \in 1..Len(log[coraza])
        BY <2>3, <3>1, <4>1, <4>3 DEF ToSet
      <4> QED
        BY <3>1, <4>2, <4>3
    <3>3. ASSUME NEW x \in ToSet(log[coraza]) PROVE x \in ToSet(log'[coraza])
      <4>1. PICK i \in 1..Len(log[coraza]) : x = log[coraza][i]
        BY <3>1, <3>3 DEF ToSet
      <4> QED
        BY <2>3, <3>1, <4>1 DEF ToSet
    <3>4. written + 1 \in ToSet(log'[coraza])
      BY <2>3, <3>1 DEF ToSet
    <3> QED
      BY <3>2, <3>3, <3>4
  <2>5. \A path \in Paths : ToSet(log[path]) \subseteq ToSet(log'[path])
    BY <2>1, <2>4 DEF TypeInv, TypeOK
  <2>6. CASE row = written + 1
    BY <1>4, <2>4, <2>6 DEF Kept, WriteRow
  <2>7. CASE row \in 1..written
    BY <1>1, <1>4, <2>2, <2>5, <2>7 DEF Kept, WriteRow, Pending
  <2> QED
    BY <2>1, <2>2, <2>6, <2>7
<1>5. CASE CaddyRestart
    BY <1>2, <1>5 DEF CaddyRestart, Disturb
<1>6. CASE TickClock
    BY <1>2, <1>6 DEF TickClock
<1>7. ASSUME NEW p \in Procs, Start(p) \/ Crash(p) \/ IngestNewEntries(p) \/ Maintain(p)
      PROVE  Kept(row)'
    BY <1>2, <1>7 DEF Start, Crash, IngestNewEntries, Maintain
\* A reload from outside the rotation moves Coraza only while one has put the new path
\* into the Caddyfile, and then the old file is the retired one.
<1>8. ASSUME NEW p \in Procs, Patch(p) \/ Tx(p) PROVE Kept(row)'
  <2>1. /\ log' = log /\ written' = written /\ sidecar' = sidecar /\ requestLog' = requestLog
        /\ coraza' \in {coraza, caddyfile} /\ \A q \in Procs : holder # q
    <3>1. CASE Patch(p)
      BY <1>8, <3>1, ConstantFacts DEF Patch, Disturb, Open, NoReload
    <3>2. CASE Tx(p)
      <4>1. CASE coraza' = coraza
        BY <3>2, <4>1, ConstantFacts DEF Tx, Disturb
      <4>2. CASE coraza' # coraza
        <5>1. coraza' = sidecar.active /\ caddyfile = sidecar.active
          BY <3>2, <4>2 DEF Tx, Disturb
        <5> QED
          BY <3>2, <5>1, ConstantFacts DEF Tx
      <4> QED
        BY <4>1, <4>2
    <3> QED
      BY <1>8, <3>1, <3>2
  <2>2. coraza # caddyfile =>
            Pending /\ coraza \in {sidecar.from, sidecar.to} /\ caddyfile = sidecar.to
    <3>1. (\A q \in Procs : ~Active(q)) => coraza = caddyfile
      BY <1>1 DEF IdleInv, Quiet, Agreed, Interrupted
    <3>2. ASSUME NEW q \in Procs, Active(q), coraza # caddyfile
          PROVE  Pending /\ coraza \in {sidecar.from, sidecar.to} /\ caddyfile = sidecar.to
      <4>1. pc[q] \notin {"reload", "reloadBack"} /\ Stage(q)
        BY <1>1, <2>1 DEF LockInv, StageInv
      <4>2. pc[q] = "putBack"
        BY <3>2, <4>1 DEF Stage, Active, Both, Quiet, Agreed, Interrupted, HasJob, Labels,
           TypeInv, TypeOK
      <4> QED
        BY <4>1, <4>2, ConstantFacts DEF Stage, Marked, Pending, HasJob, Labels, TypeInv, PathsInv
    <3> QED
      BY <3>1, <3>2
  <2> QED
    BY <1>1, <2>1, <2>2 DEF Kept, Pending
<1>9. CASE UNCHANGED vars
    BY <1>2, <1>9 DEF vars
<1> QED
    BY <1>3, <1>4, <1>5, <1>6, <1>7, <1>8, <1>9 DEF Next

-----------------------------------------------------------------------------
(* The theorems.                                                           *)

(***************************************************************************)
(* The variables of the audit log's rotation keep their types, and the     *)
(* offsets of the reader stay within the log, disturbed or not.            *)
(***************************************************************************)
THEOREM TypeCorrect == Spec => []TypeOK
<1>1. Init => TypeInv
    BY InitTypes
<1>2. TypeInv /\ [Next]_vars => TypeInv'
    BY TypeStep
<1> QED
    BY <1>1, <1>2, PTL DEF Spec, TypeInv

RotationSafe == TypeInv /\ RotationInv /\ NothingLost

\* The three parts together are inductive.
LEMMA SafeAlways == Spec => []RotationSafe
<1>1. Init => RotationSafe
  <2>1. Init => TypeInv
    BY InitTypes
  <2>2. Init => RotationInv
    BY ConstantFacts DEF Init, RotationInv, Rotation, Alone, LockInv, IdleInv, StageInv,
       Stage, Active,
       HasJob, Labels, Quiet, Agreed, Pending, SettledOn
  <2>3. Init => NothingLost
    BY DEF Init, NothingLost
  <2> QED
    BY <2>1, <2>2, <2>3 DEF RotationSafe
<1>2. RotationSafe /\ [Next]_vars => RotationSafe'
    BY TypeStep, RotationStep, KeptStep DEF RotationSafe, RotationInv, Rotation
<1> QED
    BY <1>1, <1>2, PTL DEF Spec

(***************************************************************************)
(* Through every interleaving of writes, renders, deaths, restarts and the *)
(* nineteen steps of maintain(), each row Coraza has written is in the     *)
(* database, in the open file or in the retired file that is still pending.*)
(***************************************************************************)
THEOREM NothingIsLost == Spec => []NothingLost
<1>1. RotationSafe => NothingLost
    BY DEF RotationSafe
<1> QED
    BY <1>1, SafeAlways, PTL

(***************************************************************************)
(* auditLog.js on prune(): "the active file is never a deletion candidate".*)
(* The file Coraza has open exists and is one of the two the sidecar names.*)
(***************************************************************************)
THEOREM OpenLogIsSafe == Spec => []OpenLogIsProtected
<1>1. RotationSafe => OpenLogIsProtected
  <2> SUFFICES ASSUME RotationSafe, ~disturbed
               PROVE  coraza \in exists /\ coraza \in {sidecar.active, sidecar.to}
    BY DEF OpenLogIsProtected
  <2>1. IdleInv /\ StageInv /\ coraza \in exists
    BY DEF RotationSafe, RotationInv, Rotation
  <2>2. Quiet => coraza \in {sidecar.active, sidecar.to}
    BY DEF Quiet, Agreed, Interrupted
  <2>3. ASSUME NEW p \in Procs, Active(p) PROVE coraza \in {sidecar.active, sidecar.to}
    <3>1. Stage(p) /\ pc[p] \in Labels \ {"down", "idle"}
      BY <2>1, <2>3 DEF StageInv, Active, RotationSafe, TypeInv, TypeOK
    <3>2. CASE pc[p] \in HasJob \ {"marker"}
      <4>1. sidecar.active = job[p].from /\ sidecar.to = job[p].to
        BY <3>1, <3>2 DEF Stage, Marked
      <4> QED
        BY <3>1, <3>2, <4>1 DEF Stage, Both, HasJob, Labels
    <3>3. CASE pc[p] \notin HasJob \ {"marker"}
      BY <2>2, <3>1, <3>3 DEF Stage, Agreed, HasJob, Labels
    <3> QED
      BY <3>2, <3>3
  <2> QED
    BY <2>1, <2>2, <2>3 DEF IdleInv
<1> QED
    BY <1>1, SafeAlways, PTL

(***************************************************************************)
(* When no rotation is pending and no process is in maintain(), sidecar,   *)
(* Caddyfile and Coraza name one path.                                     *)
(***************************************************************************)
THEOREM OnePathBetweenRotations == Spec => []OnePath
<1>1. RotationSafe => OnePath
    BY DEF RotationSafe, RotationInv, Rotation, OnePath, IdleInv, Active, Quiet, Agreed, Interrupted
<1> QED
    BY <1>1, SafeAlways, PTL
=============================================================================
