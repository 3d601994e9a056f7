--------------------------- MODULE ApprovalQueue ---------------------------
(***************************************************************************)
(* LocalApprovalQueue (control_plane/approval_transport.py): one JSON file *)
(* of approval records that every CLI invocation loads, changes and writes *)
(* back.  An agent's `call` enqueues while an operator's `approvals        *)
(* approve` or `deny` decides, in processes of their own; no lock is       *)
(* taken, write_text truncates before it writes, and the decision is       *)
(* audited after it is saved.                                              *)
(***************************************************************************)
EXTENDS Integers, FiniteSets

CONSTANTS
  Ids,         \* approval request ids
  Procs,       \* CLI processes that may run at once
  Ttl,         \* lifetime of a request, in clock units
  MaxClock,    \* bound on the clock
  MaxCommands  \* bound on the commands issued

ASSUME QueueAssumption == Ttl \in Nat \ {0} /\ {MaxClock, MaxCommands} \subseteq Nat

VARIABLES
  clock,
  file,    \* the queue file: [state, recs], recs meaningful when state is "ok"
  pc,      \* per process, where its command is
  cmd,     \* per process, the command
  recs,    \* per process, the records it loaded, then will save
  events,  \* decision events in the audit log: [type, id, status]
  given,   \* history: the commands issued, with the time of each
  saved,   \* history: the records last written whole
  shared,  \* history: two commands were under way at once
  unlogged, \* history: requests whose decision was saved and then not audited
  emptied  \* history: a process died with the file truncated and not rewritten

vars == <<clock, file, pc, cmd, recs, events, given, saved, shared, unlogged,
          emptied>>

NoRecord == [status |-> "none", scope |-> "none", expires |-> 0, decided |-> 0]
Empty == [i \in Ids |-> NoRecord]
Verbs == {"enqueue", "approve", "deny", "expire", "consume"}
Commands == [verb : Verbs, id : Ids, scope : {"one_time", "session"}]
Idle == [verb |-> "none", id |-> CHOOSE i \in Ids : TRUE, scope |-> "one_time"]

-----------------------------------------------------------------------------
(***************************************************************************)
(* LocalApprovalRecord: what each command makes of a record, and whether   *)
(* it does instead of raising.                                             *)
(***************************************************************************)
Expired(r) == [r EXCEPT !.status = "expired", !.decided = clock]

\* matches_action, for the action the record was queued for.
MatchesAction(r) == r.status = "approved" /\ clock < r.expires

Accepts_Decided(verb, r) ==
  CASE verb = "enqueue" -> r.status = "none"
    [] verb \in {"approve", "deny", "expire"} -> r.status # "none"
    [] verb = "consume" -> MatchesAction(r) /\ r.scope = "one_time"
Accepts(verb, r) ==
  CASE verb = "enqueue" -> r.status = "none"
    [] verb \in {"approve", "deny"} -> r.status = "pending"
    [] verb = "expire" -> r.status \in {"pending", "approved"}
    [] verb = "consume" -> MatchesAction(r) /\ r.scope = "one_time"

Approve_AnyTime(r, scope) ==
  [r EXCEPT !.status = "approved", !.scope = scope, !.decided = clock]

\* approve of a record past its expiry expires it instead.
Approve(r, scope) ==
  IF clock >= r.expires THEN Expired(r)
  ELSE [r EXCEPT !.status = "approved", !.scope = scope, !.decided = clock]

Updated(c, r) ==
  CASE c.verb = "enqueue" -> [status |-> "pending", scope |-> "none",
                              expires |-> clock + Ttl, decided |-> 0]
    [] c.verb = "approve" -> Approve(r, c.scope)
    [] c.verb = "deny" -> [r EXCEPT !.status = "denied", !.decided = clock]
    [] c.verb = "expire" -> Expired(r)
    [] c.verb = "consume" -> [r EXCEPT !.status = "consumed"]

\* The event of _emit_decision_event, by the command rather than its outcome.
EventType(verb) ==
  CASE verb = "approve" -> "approval_granted" [] verb = "deny" -> "approval_denied"
    [] verb = "expire" -> "approval_expired"

-----------------------------------------------------------------------------
(***************************************************************************)
(* One command of one process.                                             *)
(***************************************************************************)
\* A missing file reads as an empty queue.
Reads(f) == IF f.state = "absent" THEN Empty ELSE f.recs

Load_AuditsFirst(p, c) ==
  /\ pc[p] = "idle" /\ Cardinality(given) < MaxCommands
  /\ file.state \in {"absent", "ok"}
  /\ Accepts(c.verb, Reads(file)[c.id])
  /\ recs' = [recs EXCEPT ![p] = [Reads(file) EXCEPT ![c.id] = Updated(c, @)]]
  /\ pc' = [pc EXCEPT ![p] = "loaded"]
  /\ cmd' = [cmd EXCEPT ![p] = c]
  /\ given' = given \cup {[verb |-> c.verb, id |-> c.id, at |-> clock]}
  /\ shared' = (shared \/ \E q \in Procs : pc[q] # "idle")
  /\ events' = events \cup {[type |-> EventType(v), id |-> c.id,
                             status |-> Updated(c, Reads(file)[c.id]).status]
                             : v \in {c.verb} \cap {"approve", "deny", "expire"}}
  /\ UNCHANGED <<clock, file, saved, unlogged, emptied>>

\* _load_records and the record's method.  A malformed file, an unknown id, or
\* a record in the wrong state raises.
Load(p, c) ==
  /\ pc[p] = "idle" /\ Cardinality(given) < MaxCommands
  /\ file.state \in {"absent", "ok"}
  /\ Accepts(c.verb, Reads(file)[c.id])
  /\ recs' = [recs EXCEPT ![p] = [Reads(file) EXCEPT ![c.id] = Updated(c, @)]]
  /\ pc' = [pc EXCEPT ![p] = "loaded"]
  /\ cmd' = [cmd EXCEPT ![p] = c]
  /\ given' = given \cup {[verb |-> c.verb, id |-> c.id, at |-> clock]}
  /\ shared' = (shared \/ \E q \in Procs : pc[q] # "idle")
  /\ UNCHANGED <<clock, file, events, saved, unlogged, emptied>>

\* write_text opens the file for writing, which empties it ...
Truncate(p) ==
  /\ pc[p] = "loaded"
  /\ file' = [state |-> "torn", recs |-> Empty]
  /\ pc' = [pc EXCEPT ![p] = "writing"]
  /\ UNCHANGED <<clock, cmd, recs, events, given, saved, shared, unlogged, emptied>>

\* ... then writes from the start: over what another process wrote since, the
\* tail of the longer text may stay.
Write(p) ==
  /\ pc[p] = "writing"
  /\ file' \in {[state |-> "ok", recs |-> recs[p]]}
               \cup {f \in {[state |-> "torn", recs |-> Empty]} : file.state = "ok"}
  /\ pc' = [pc EXCEPT ![p] = IF cmd[p].verb \in {"enqueue", "consume"} THEN "idle" ELSE "saved"]
  /\ saved' = IF file'.state = "ok" THEN recs[p] ELSE saved
  /\ UNCHANGED <<clock, cmd, recs, events, given, shared, unlogged, emptied>>

EventOf(p) ==
  [type |-> EventType(cmd[p].verb), id |-> cmd[p].id, status |-> recs[p][cmd[p].id].status]

\* _emit_decision_event; a sink that raises makes the command fail with its
\* decision saved.
Audit(p) ==
  /\ pc[p] = "saved"
  /\ pc' = [pc EXCEPT ![p] = "idle"]
  /\ \/ events' = events \cup {EventOf(p)} /\ UNCHANGED unlogged
     \/ unlogged' = unlogged \cup {cmd[p].id} /\ UNCHANGED events
  /\ UNCHANGED <<clock, file, cmd, recs, given, saved, shared, emptied>>

\* The process dies; what it had done to the file stays.
Crash(p) ==
  /\ pc[p] # "idle"
  /\ pc' = [pc EXCEPT ![p] = "idle"]
  /\ unlogged' = IF pc[p] = "saved" THEN unlogged \cup {cmd[p].id} ELSE unlogged
  /\ emptied' = (emptied \/ pc[p] = "writing")
  /\ UNCHANGED <<clock, file, cmd, recs, events, given, saved, shared>>

Tick == clock < MaxClock /\ clock' = clock + 1
        /\ UNCHANGED <<file, pc, cmd, recs, events, given, saved, shared, unlogged, emptied>>

-----------------------------------------------------------------------------
Init ==
  /\ clock = 0 /\ file = [state |-> "absent", recs |-> Empty]
  /\ pc = [p \in Procs |-> "idle"] /\ cmd = [p \in Procs |-> Idle]
  /\ recs = [p \in Procs |-> Empty]
  /\ events = {} /\ given = {} /\ saved = Empty /\ shared = FALSE /\ unlogged = {}
  /\ emptied = FALSE

Next ==
  \/ \E p \in Procs :
       \/ \E c \in Commands : Load(p, c)
       \/ Truncate(p) \/ Write(p) \/ Audit(p) \/ Crash(p)
  \/ Tick

Spec == Init /\ [][Next]_vars

-----------------------------------------------------------------------------
(***************************************************************************)
(* Properties.                                                             *)
(***************************************************************************)
\* Whatever the processes do to each other's writes, a record that reads as
\* approved or consumed was approved by an operator before it expired.
ApprovedInTime ==
  \A i \in Ids :
    LET r == file.recs[i] IN
    r.status \in {"approved", "consumed"} =>
      \E g \in given : g.verb = "approve" /\ g.id = i /\ g.at < r.expires

\* What a record's status may become.
After(s) ==
  CASE s = "none" -> {"none", "pending"}
    [] s = "pending" -> {"pending", "approved", "denied", "expired"}
    [] s = "approved" -> {"approved", "expired", "consumed"}
    [] OTHER -> {s}

\* While processes take turns on the queue, a record is decided once, an approval
\* ends only by expiry or use, and the next process reads exactly what the last
\* one wrote.  The exception is the code's own: who dies between write_text's
\* truncation and its write leaves a file that no later command can load, and
\* with it every decision is gone (_save_records).
DecisionsStandInTurns ==
  [][~shared' =>
       /\ \A i \in Ids : saved'[i].status \in After(saved[i].status)
       /\ file'.state # "torn" => Reads(file') = saved'
       /\ file'.state = "torn" => emptied' \/ \E p \in Procs : pc'[p] = "writing"]_vars

\* What a decision event's type leaves open about the record.  A late approve is
\* told as a grant although it expires the record (approve).
Told(type) ==
  CASE type = "approval_granted" -> {"approved", "expired"}
    [] type = "approval_denied" -> {"denied"}
    [] type = "approval_expired" -> {"expired"}

\* What a record says after the decision it was last told with.
Follows(status, told) == status = told \/ (status = "consumed" /\ told = "approved")

\* What the log tells of a decision is in the queue file while processes take
\* turns, whoever dies between saving and auditing: an event's type and status are
\* those of a decision that was saved, but for a grant told of a request that had
\* expired when it was approved; and a decision in the file is the one last told,
\* unless the command was cut short or its sink raised after it had been saved
\* (approve, deny, expire: save, then _emit_decision_event).
AuditFollowsFile ==
  ~shared /\ file.state = "ok" =>
    /\ \A e \in events :
         LET r == file.recs[e.id] IN
         /\ e.status \in Told(e.type)
         /\ r.status \in After(e.status)
         /\ e.type = "approval_granted" /\ e.status = "expired" => r.decided >= r.expires
    /\ (\A p \in Procs : pc[p] = "idle") =>
         \A i \in Ids : file.recs[i].status \notin {"none", "pending"} =>
           i \in unlogged
           \/ \E e \in events : e.id = i /\ Follows(file.recs[i].status, e.status)

\* The same whatever the processes do: a record is decided once, "approval {id}
\* is not pending" (approval_transport.py:233-234, 262-263).
DecisionsStand ==
  [][\A i \in Ids : saved'[i].status \in After(saved[i].status)]_saved
=============================================================================
