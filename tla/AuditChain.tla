----------------------------- MODULE AuditChain -----------------------------
(***************************************************************************)
(* The audit sinks: LocalJSONLAuditSink (control_plane/audit.py), which    *)
(* keeps the hash of the last line it wrote in the object, and             *)
(* SQLiteAuditSink (audit_sqlite.py), which selects it before each insert; *)
(* their chain verifiers, and the checkpoints of audit_checkpoint.py.      *)
(*                                                                         *)
(* Several processes of the command line or the host may hold a sink on    *)
(* one path.  SHA-256 is taken to be collision free: the hash of a record  *)
(* is the previous hash with the event appended, so a hash is the sequence *)
(* of the events it covers.                                                *)
(***************************************************************************)
EXTENDS Integers, Sequences, FiniteSets

CONSTANTS
  Processes,     \* processes that open a sink on the path
  Backends,      \* what the log may be: "jsonl", "sqlite"
  MaxEvents,     \* events emitted, in all
  MaxTears,      \* JSONL writes cut short
  MaxEdits       \* changes made to the file by something else than a sink

ASSUME BackendAssumption ==
  /\ Backends \subseteq {"jsonl", "sqlite"}
  /\ {MaxEvents, MaxTears, MaxEdits} \subseteq Nat

VARIABLES
  backend,      \* which of the two the path was configured as
  file,         \* the records, in file order or by event_index
  sink,         \* per process: "closed", "open", or "insert" within emit
  last,         \* per process: _previous_hash, or the local previous_hash
  checkpoints,  \* checkpoints created, kept outside the log
  acked,        \* history: events whose emit returned, in order
  shared,       \* history: two sinks were open on the log at once
  emits, tears, edits   \* how many of each so far

vars == <<backend, shared, file, sink, last, checkpoints, acked, emits, tears, edits>>

-----------------------------------------------------------------------------
\* previous_hash of the first record.
NoHash == <<>>
Forged == 0

\* _hash_mapping of {previous_hash, event}.
Hash(prev, e) == Append(prev, e)

Record(prev, e) == [prev |-> prev, event |-> e, hash |-> Hash(prev, e),
                    parses |-> TRUE, ended |-> TRUE]

Parses(f) == \A i \in DOMAIN f : f[i].parses

\* _last_event_hash, _last_hash
LastHash(f) == IF f = <<>> THEN NoHash ELSE f[Len(f)].hash

Verifies_SkipsTorn(f) ==
  LET g == SelectSeq(f, LAMBDA r : r.parses) IN
  \A i \in DOMAIN g :
    /\ g[i].prev = IF i = 1 THEN NoHash ELSE g[i - 1].hash
    /\ g[i].hash = Hash(g[i].prev, g[i].event)
Verifies_LinksOnly(f) ==
  Parses(f) /\ \A i \in DOMAIN f : f[i].prev = IF i = 1 THEN NoHash ELSE f[i - 1].hash

\* verify_audit_chain and verify_sqlite_audit_chain: true only for a file that
\* parses and in which each record follows the one before it.
Verifies(f) ==
  /\ Parses(f)
  /\ \A i \in DOMAIN f :
       /\ f[i].prev = IF i = 1 THEN NoHash ELSE f[i - 1].hash
       /\ f[i].hash = Hash(f[i].prev, f[i].event)

\* A write to a JSONL file goes where the file ends, which is the middle of a
\* line when the write before it was cut short.
Glue(f, line) ==
  IF f # <<>> /\ ~f[Len(f)].ended
    THEN [f EXCEPT ![Len(f)].parses = FALSE, ![Len(f)].ended = line.ended]
    ELSE Append(f, line)

Confirms_CountOnly(f, c) == Verifies(f) /\ Len(f) >= c.count
Confirms_Exact(f, c) ==
  Verifies(f) /\ Len(f) = c.count /\ LastHash(f) = c.hash

\* verify_audit_checkpoint
Confirms(f, c) ==
  /\ Verifies(f)
  /\ Len(f) >= c.count
  /\ c.count > 0 => f[c.count].hash = c.hash

-----------------------------------------------------------------------------
\* A sink is constructed.  Over a file with a line that is not JSON the
\* constructor of the JSONL sink raises, and the process gets no sink.
Open(p) ==
  /\ sink[p] = "closed"
  /\ backend = "jsonl" => Parses(file)
  /\ sink' = [sink EXCEPT ![p] = "open"]
  /\ last' = [last EXCEPT ![p] = LastHash(file)]
  /\ shared' = (shared \/ \E q \in Processes : q # p /\ sink[q] # "closed")
  /\ UNCHANGED <<backend, file, checkpoints, acked, emits, tears, edits>>

\* LocalJSONLAuditSink.emit
EmitLine(p) ==
  /\ backend = "jsonl" /\ sink[p] = "open" /\ emits < MaxEvents
  /\ emits' = emits + 1
  /\ LET r == Record(last[p], emits') IN
     /\ file' = Glue(file, r)
     /\ last' = [last EXCEPT ![p] = r.hash]
     /\ acked' = Append(acked, emits')
  /\ UNCHANGED <<backend, shared, sink, checkpoints, tears, edits>>

\* The write of emit is cut short: part of the record is in the file, or all
\* of it but the line end.  The process dies of it, or emit raises before
\* _previous_hash is set.
TornEmit(p) ==
  /\ backend = "jsonl" /\ sink[p] = "open" /\ emits < MaxEvents /\ tears < MaxTears
  /\ emits' = emits + 1 /\ tears' = tears + 1
  /\ \E whole \in BOOLEAN, s \in {"open", "closed"} :
       /\ file' = Glue(file, [Record(last[p], emits') EXCEPT !.parses = whole, !.ended = FALSE])
       /\ sink' = [sink EXCEPT ![p] = s]
  /\ UNCHANGED <<backend, shared, last, checkpoints, acked, edits>>

SelectLast_Cached(p) ==
  /\ backend = "sqlite" /\ sink[p] = "open" /\ emits < MaxEvents
  /\ sink' = [sink EXCEPT ![p] = "insert"]
  /\ last' = [last EXCEPT ![p] = IF @ = NoHash THEN LastHash(file) ELSE @]
  /\ UNCHANGED <<backend, shared, file, checkpoints, acked, emits, tears, edits>>

\* SQLiteAuditSink.emit: the select, and the insert in its own transaction.
SelectLast(p) ==
  /\ backend = "sqlite" /\ sink[p] = "open" /\ emits < MaxEvents
  /\ sink' = [sink EXCEPT ![p] = "insert"]
  /\ last' = [last EXCEPT ![p] = LastHash(file)]
  /\ UNCHANGED <<backend, shared, file, checkpoints, acked, emits, tears, edits>>

InsertRow(p) ==
  /\ sink[p] = "insert" /\ emits < MaxEvents
  /\ emits' = emits + 1
  /\ file' = Append(file, Record(last[p], emits'))
  /\ acked' = Append(acked, emits')
  /\ sink' = [sink EXCEPT ![p] = "open"]
  /\ UNCHANGED <<backend, shared, last, checkpoints, tears, edits>>

\* The transaction is rolled back and emit raises.
InsertFails(p) ==
  /\ sink[p] = "insert"
  /\ sink' = [sink EXCEPT ![p] = "open"]
  /\ UNCHANGED <<backend, shared, file, last, checkpoints, acked, emits, tears, edits>>

\* The process stops, or the sink is closed, outside a write.
Close(p) ==
  /\ sink[p] # "closed"
  /\ sink' = [sink EXCEPT ![p] = "closed"]
  /\ UNCHANGED <<backend, shared, file, last, checkpoints, acked, emits, tears, edits>>

\* create_audit_checkpoint, which refuses a log that does not verify.
CreateCheckpoint ==
  /\ Verifies(file)
  /\ checkpoints' = checkpoints \cup {[count |-> Len(file), hash |-> LastHash(file)]}
  /\ UNCHANGED <<backend, shared, file, sink, last, acked, emits, tears, edits>>

-----------------------------------------------------------------------------
\* What else may happen to the file (docs/audit-store.md names these).
Without(f, i) == SubSeq(f, 1, i - 1) \o SubSeq(f, i + 1, Len(f))

DeleteMiddle(f) == {Without(f, i) : i \in 1..(Len(f) - 1)}
TruncateTail(f) == {SubSeq(f, 1, i) : i \in 0..(Len(f) - 1)}
Reorder(f) == {[f EXCEPT ![i] = f[j], ![j] = f[i]] : i, j \in DOMAIN f} \ {f}
Tamper(f) == {[f EXCEPT ![i].event = Forged] : i \in DOMAIN f}
\* Every record from i on is written anew over a changed event.
Rewrite(f) ==
  LET changed(i) == [f EXCEPT ![i].event = Forged]
      \* The hash of record j, those from i on hashed again.
      rehash(i, j) == f[i].prev \o [k \in 1..(j - i + 1) |-> changed(i)[i + k - 1].event]
      rechain(i) ==
        [j \in DOMAIN f |->
           IF j < i THEN f[j]
           ELSE [changed(i)[j] EXCEPT !.prev = rehash(i, j - 1), !.hash = rehash(i, j)]]
  IN {rechain(i) : i \in DOMAIN f}

EditFile ==
  /\ edits < MaxEdits
  /\ edits' = edits + 1
  /\ file' \in DeleteMiddle(file) \cup TruncateTail(file) \cup Reorder(file)
               \cup Tamper(file) \cup Rewrite(file)
  /\ UNCHANGED <<backend, shared, sink, last, checkpoints, acked, emits, tears>>

-----------------------------------------------------------------------------
Init ==
  /\ backend \in Backends
  /\ file = <<>> /\ checkpoints = {} /\ acked = <<>>
  /\ sink = [p \in Processes |-> "closed"]
  /\ last = [p \in Processes |-> NoHash]
  /\ shared = FALSE /\ emits = 0 /\ tears = 0 /\ edits = 0

Next ==
  \/ \E p \in Processes :
       \/ Open(p) \/ Close(p)
       \/ EmitLine(p) \/ TornEmit(p)
       \/ SelectLast(p) \/ InsertRow(p) \/ InsertFails(p)
  \/ CreateCheckpoint
  \/ EditFile

Spec == Init /\ [][Next]_vars

-----------------------------------------------------------------------------
(***************************************************************************)
(* Properties.                                                             *)
(***************************************************************************)
Written(f) == [i \in DOMAIN f |-> f[i].event]

\* A log that verifies has in it every event whose emit returned, in the order
\* in which they did, however writes before and after were cut short and however
\* many processes wrote it: two that chain to one predecessor leave a log that
\* does not verify.
VerifiedMeansComplete ==
  edits = 0 /\ Verifies(file) =>
    \E take \in SUBSET DOMAIN file :
      /\ {file[i].event : i \in take} = {acked[i] : i \in DOMAIN acked}
      /\ \A i, j \in DOMAIN acked : i < j =>
           \E k, l \in take : k < l /\ file[k].event = acked[i] /\ file[l].event = acked[j]

\* A checkpoint that a log still confirms vouches for its beginning: whatever
\* was done to the file, the events up to the checkpoint are those it was made
\* over.  (The chain alone does not say so: a shortened log verifies, and so
\* does one rewritten to its end.)
CheckpointVouches ==
  \A c \in checkpoints : Confirms(file, c) => SubSeq(Written(file), 1, c.count) = c.hash

\* docs/audit-store.md:19-20, the chain alone detects content tampering,
\* middle-event deletion and reordering in a log that verified.
EditsDetected ==
  [][ /\ edits' # edits /\ file' # file /\ Verifies(file)
      /\ file' \in DeleteMiddle(file) \cup Reorder(file) \cup Tamper(file)
      => ~Verifies(file') ]_vars

\* What the sinks and the outside have done so far leaves the log what one
\* process at a time made of it.
Undisturbed == ~shared /\ edits = 0 /\ tears = 0

\* While processes take turns on a log and nothing else happens to it, every
\* checkpoint ever created is confirmed by it, however far it has grown and
\* however often a sink was closed and opened.
CheckpointsLast == Undisturbed => \A c \in checkpoints : Confirms(file, c)

\* The chain processes write in turns is the log AuditLog describes: the hash
\* of the last record covers every event written, in order, and nothing else.
\* Once disturbed, the promises are VerifiedMeansComplete and CheckpointVouches.
Covered == LastHash(file)
Vouched == {c.hash : c \in checkpoints}
Log == INSTANCE AuditLog WITH Events <- 1..MaxEvents, log <- Covered, vouched <- Vouched
IsAuditLog ==
  /\ Log!Init
  /\ [][Undisturbed' => Log!Next \/ UNCHANGED <<Covered, Vouched>>]_vars
=============================================================================
