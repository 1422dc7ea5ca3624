------------------------------- MODULE Reader -------------------------------
(***************************************************************************)
(* How the audit log is read: requestLog.js, ingestNewEntries() and        *)
(* drainFile().                                                            *)
(*                                                                         *)
(* Coraza appends a line per request and may be in the middle of one; what *)
(* is read at a time is bounded; several processes read the same file, each*)
(* from an offset in its memory or the one last saved; and the file may be *)
(* truncated underneath them.  AuditRotation has several files and reads   *)
(* whole lines, here is one file and what is between two newlines.         *)
(*                                                                         *)
(* The file is a sequence of pieces: the i-th piece of a row's line, the   *)
(* last one with the newline.                                              *)
(***************************************************************************)
EXTENDS Integers, Sequences, FiniteSetsExt

CONSTANTS
    Readers,        \* the API server, a run of the CLI
    Rows,           \* 1..n: the rows Coraza writes, in this order
    Pieces,         \* Rows -> pieces of its line
    MAX_READ,       \* MAX_READ_BYTES
    Unread,         \* null: no offset in memory
    NotReading,
    MaxTruncations, \* bound
    MaxStarts       \* bound: processes that end and are started anew

Offsets == [at : Nat, of : 0..MaxTruncations]

ReaderAssumption ==
    /\ Pieces \in [Rows -> Nat \ {0}] /\ MAX_READ \in Nat \ {0}
    /\ MaxTruncations \in Nat /\ MaxStarts \in Nat /\ Rows \subseteq Nat
    /\ Unread \notin Offsets /\ NotReading \notin Offsets

VARIABLES
    audit_log,      \* the file
    truncations,    \* so far, which number the file's lives
    next,           \* what Coraza writes next: <<row, piece>>
    request_log,    \* the table: rows
    saved,          \* the row audit_log_offset: an offset and, as history, the life it is of
    lastReadOffset, \* Readers -> the same, or Unread
    reading,        \* Readers -> the offset up to which it has stored rows and will save
    starts

readerVars == <<audit_log, truncations, next, request_log, saved, lastReadOffset, reading, starts>>

ReaderTypeOK ==
    /\ \A i \in DOMAIN audit_log :
          audit_log[i][1] \in Rows /\ audit_log[i][2] \in 1..Pieces[audit_log[i][1]]
    /\ truncations \in 0..MaxTruncations /\ starts \in 0..MaxStarts
    /\ request_log \subseteq Rows /\ saved \in Offsets
    /\ lastReadOffset \in [Readers -> Offsets \cup {Unread}]
    /\ reading \in [Readers -> Offsets \cup {NotReading}]

-----------------------------------------------------------------------------
(* The file.                                                               *)

Append1 ==
    /\ next[1] \in Rows
    /\ audit_log' = Append(audit_log, next)
    /\ next' = IF next[2] = Pieces[next[1]] THEN <<next[1] + 1, 1>> ELSE <<next[1], next[2] + 1>>
    /\ UNCHANGED <<truncations, request_log, saved, lastReadOffset, reading, starts>>

Truncate ==
    /\ truncations < MaxTruncations /\ truncations' = truncations + 1 /\ audit_log' = <<>>
    /\ UNCHANGED <<next, request_log, saved, lastReadOffset, reading, starts>>

EndsLine(piece) == piece[2] = Pieces[piece[1]]

\* parseAuditEntry(): a line of which the beginning is missing is not JSON.
RowsIn(pieces) ==
    {r \in Rows : \A i \in 1..Pieces[r] : \E k \in DOMAIN pieces : pieces[k] = <<r, i>>}

-----------------------------------------------------------------------------
(* Reading.                                                                *)

MinOf(a, b) == IF a < b THEN a ELSE b

\* loadOffset().
loadOffset(p) ==
    IF lastReadOffset[p] # Unread THEN lastReadOffset[p]
    ELSE [saved EXCEPT !.at = MinOf(saved.at, Len(audit_log))]

\* ingestChunk(): up to the last newline of what is read.
ConsumedTo(from) ==
    Max({from} \cup {i \in from + 1..MinOf(from + MAX_READ, Len(audit_log)) : EndsLine(audit_log[i])})

\* "Truncated or replaced underneath us - start over."
StartOver(o) == IF Len(audit_log) < o.at THEN [at |-> 0, of |-> truncations] ELSE o

Ingest(p) ==
    /\ reading[p] = NotReading
    /\ LET o == loadOffset(p)
           from == StartOver(o)
           to == [from EXCEPT !.at = ConsumedTo(from.at)]
       IN  /\ request_log' = request_log \cup RowsIn(SubSeq(audit_log, from.at + 1, to.at))
           /\ lastReadOffset' = [lastReadOffset EXCEPT ![p] = o]
           /\ reading' = [reading EXCEPT ![p] = IF to.at # o.at THEN to ELSE NotReading]
    /\ UNCHANGED <<audit_log, truncations, next, saved, starts>>

\* saveOffset(); storing it is best effort.
SaveOffset(p) ==
    /\ reading[p] # NotReading
    /\ lastReadOffset' = [lastReadOffset EXCEPT ![p] = reading[p]]
    /\ saved' \in {saved, reading[p]}
    /\ reading' = [reading EXCEPT ![p] = NotReading]
    /\ UNCHANGED <<audit_log, truncations, next, request_log, starts>>

\* drainFile(), of a file without a writer: chunk after chunk from the start, until one
\* consumes nothing.
Drain(p) ==
    LET to[n \in 0..Len(audit_log)] == IF n = 0 THEN 0 ELSE ConsumedTo(to[n - 1])
    IN  /\ reading[p] = NotReading /\ next[2] = 1
        /\ request_log' = request_log \cup RowsIn(SubSeq(audit_log, 1, to[Len(audit_log)]))
        /\ UNCHANGED <<audit_log, truncations, next, saved, lastReadOffset, reading, starts>>

\* The process ends, between any two steps, and is started anew.
Start(p) ==
    /\ starts < MaxStarts /\ starts' = starts + 1
    /\ lastReadOffset' = [lastReadOffset EXCEPT ![p] = Unread]
    /\ reading' = [reading EXCEPT ![p] = NotReading]
    /\ UNCHANGED <<audit_log, truncations, next, request_log, saved>>

ReaderInit ==
    /\ audit_log = <<>> /\ truncations = 0 /\ next = <<1, 1>> /\ request_log = {}
    /\ saved = [at |-> 0, of |-> 0] /\ lastReadOffset = [p \in Readers |-> Unread]
    /\ reading = [p \in Readers |-> NotReading] /\ starts = 0

ReaderNext ==
    \/ Append1 \/ Truncate
    \/ \E p \in Readers : Ingest(p) \/ SaveOffset(p) \/ Drain(p) \/ Start(p)

-----------------------------------------------------------------------------
OffsetsInUse ==
    {saved} \cup {lastReadOffset[p] : p \in Readers} \cup {reading[p] : p \in Readers}

(***************************************************************************)
(* "Otherwise a partially written entry is skipped and never seen again":  *)
(* whatever is in front of an offset is in the table, with lines cut       *)
(* anywhere, processes that end anywhere and several that read at a time;  *)
(* unless the offset is one of the file before it was truncated, which is  *)
(* noticed only while the file is shorter, and by a new process never.     *)
(***************************************************************************)
NothingSkipped ==
    \A o \in OffsetsInUse \ {Unread, NotReading} :
        o.of = truncations => RowsIn(SubSeq(audit_log, 1, o.at)) \subseteq request_log

\* A line that is longer than what is read at a time is between an offset and the end.
LongLine(from) ==
    \E i \in from + 1..Len(audit_log) : Pieces[audit_log[i][1]] > MAX_READ

(***************************************************************************)
(* A reader gets on: it stops in front of a whole line, and a drained file *)
(* has nothing left, only if a line is longer than what is read at a time. *)
(***************************************************************************)
ReadersGetOn ==
    [][\A p \in Readers :
        /\ Ingest(p) /\ reading'[p] = NotReading =>
              LET o == loadOffset(p) IN
              LongLine(o.at) \/ \A i \in o.at + 1..Len(audit_log) : ~EndsLine(audit_log[i])
        /\ Drain(p) => LongLine(0) \/ RowsIn(audit_log) \subseteq request_log']_readerVars

=============================================================================
