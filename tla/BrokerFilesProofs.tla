--------------------------- MODULE BrokerFilesProofs ---------------------------
(***************************************************************************)
(* The operator's two files, for any number of processes, requests and     *)
(* grants: no race, death or edit makes the queue show an approval that    *)
(* was not given in time, or the cache hand out a grant that does not      *)
(* verify; decisions taken in turns stand and are told, and an append that *)
(* overlaps no other is kept.                                              *)
(***************************************************************************)
EXTENDS ApprovalQueue, SignedGrantCache, SequenceTheorems, TLAPS

-----------------------------------------------------------------------------
(***************************************************************************)
(* The approval queue.                                                     *)
(***************************************************************************)
Record ==
  [status : {"none", "pending", "approved", "denied", "expired", "consumed"},
   scope : {"none", "one_time", "session"}, expires : Int, decided : Int]

QueueTypes ==
  /\ clock \in Int
  /\ file \in [state : {"absent", "ok", "torn"}, recs : [Ids -> Record]]
  /\ recs \in [Procs -> [Ids -> Record]]

\* An operator approved the request before the record's expiry.
InTime(r, i, commands) ==
  r.status \in {"approved", "consumed"} =>
    \E g \in commands : g.verb = "approve" /\ g.id = i /\ g.at < r.expires

\* Not only in the file: what a process has loaded it may still write.
QueueInv ==
  /\ QueueTypes
  /\ \A i \in Ids : InTime(file.recs[i], i, given)
  /\ \A p \in Procs, i \in Ids : InTime(recs[p][i], i, given)

LEMMA EmptyRecords ==
  /\ Empty \in [Ids -> Record]
  /\ \A i \in Ids : ~(Empty[i].status \in {"approved", "consumed"})
BY DEF Empty, NoRecord, Record

\* LocalApprovalRecord: what a command accepts and makes of one record.
LEMMA UpdatedInTime ==
  ASSUME NEW c \in Commands, NEW r \in Record, clock \in Int, NEW commands,
         Accepts(c.verb, r), InTime(r, c.id, commands)
  PROVE  /\ Updated(c, r) \in Record
         /\ InTime(Updated(c, r), c.id,
                   commands \cup {[verb |-> c.verb, id |-> c.id, at |-> clock]})
<1> DEFINE more == commands \cup {[verb |-> c.verb, id |-> c.id, at |-> clock]}
<1>0. Ttl \in Int /\ clock + Ttl \in Int
  BY QueueAssumption
<1>1. CASE c.verb = "enqueue"
  BY <1>0, <1>1 DEF Updated, Record, InTime
<1>2. CASE c.verb = "approve" /\ clock >= r.expires
  BY <1>2 DEF Updated, Approve, Expired, Record, InTime
<1>3. CASE c.verb = "approve" /\ ~(clock >= r.expires)
  <2>1. Updated(c, r) = [r EXCEPT !.status = "approved", !.scope = c.scope, !.decided = clock]
    BY <1>3 DEF Updated, Approve
  <2>2. c.scope \in {"one_time", "session"}
    BY DEF Commands
  <2>3. Updated(c, r) \in Record /\ Updated(c, r).expires = r.expires
    BY <2>1, <2>2 DEF Record
  <2>4. [verb |-> c.verb, id |-> c.id, at |-> clock] \in more
    OBVIOUS
  <2>5. clock < Updated(c, r).expires
    BY <1>3, <2>3 DEF Record
  <2> HIDE DEF more
  <2>6. InTime(Updated(c, r), c.id, more)
    <3> DEFINE g == [verb |-> c.verb, id |-> c.id, at |-> clock]
    <3>1. g.verb = "approve" /\ g.id = c.id /\ g.at < Updated(c, r).expires
      BY <1>3, <2>5
    <3>2. g \in more
      BY <2>4
    <3> HIDE DEF g
    <3>. QED
      BY <3>1, <3>2 DEF InTime
  <2>. QED
    BY <2>3, <2>6 DEF more
<1>4. CASE c.verb = "deny"
  BY <1>4 DEF Updated, Record, InTime
<1>5. CASE c.verb = "expire"
  BY <1>5 DEF Updated, Expired, Record, InTime
<1>6. CASE c.verb = "consume"
  <2>1. Updated(c, r) = [r EXCEPT !.status = "consumed"] /\ r.status = "approved"
    BY <1>6 DEF Updated, Accepts, MatchesAction
  <2>2. Updated(c, r) \in Record /\ Updated(c, r).expires = r.expires
    BY <2>1 DEF Record
  <2>. QED
    BY <2>1, <2>2 DEF InTime
<1>. QED
  BY <1>1, <1>2, <1>3, <1>4, <1>5, <1>6 DEF Commands, Verbs

LEMMA QueueStep ==
  ASSUME QueueInv, [Next]_vars
  PROVE  QueueInv'
<1> USE DEF QueueInv, QueueTypes
<1>1. ASSUME NEW p \in Procs, NEW c \in Commands, Load(p, c)
      PROVE  QueueInv'
  <2> DEFINE loaded == Reads(file)
  <2>1. loaded \in [Ids -> Record] /\ \A i \in Ids : InTime(loaded[i], i, given)
    BY EmptyRecords DEF InTime, Reads
  <2>2. /\ Accepts(c.verb, loaded[c.id])
        /\ recs' = [recs EXCEPT ![p] = [loaded EXCEPT ![c.id] = Updated(c, loaded[c.id])]]
        /\ given' = given \cup {[verb |-> c.verb, id |-> c.id, at |-> clock]}
        /\ clock' = clock /\ file' = file
    BY <1>1 DEF Load
  <2>3. c.id \in Ids
    BY DEF Commands
  <2> HIDE DEF loaded
  <2>4. Updated(c, loaded[c.id]) \in Record /\ InTime(Updated(c, loaded[c.id]), c.id, given')
    BY <2>1, <2>2, <2>3, UpdatedInTime
  <2>5. \A r, i : InTime(r, i, given) => InTime(r, i, given')
    BY <2>2 DEF InTime
  <2>6. recs' \in [Procs -> [Ids -> Record]]
    BY <2>1, <2>2, <2>4
  <2>7. \A q \in Procs, i \in Ids :
          recs'[q][i] = IF q = p THEN (IF i = c.id THEN Updated(c, loaded[c.id]) ELSE loaded[i])
                        ELSE recs[q][i]
    BY <2>1, <2>2, <2>3
  <2>8. \A q \in Procs, i \in Ids : InTime(recs'[q][i], i, given')
    BY <2>1, <2>4, <2>5, <2>7
  <2>. QED
    BY <2>2, <2>5, <2>6, <2>8
<1>2. ASSUME NEW p \in Procs, Truncate(p) \/ Write(p)
      PROVE  QueueInv'
  <2>1. file' \in {[state |-> "ok", recs |-> recs[p]], [state |-> "torn", recs |-> Empty]}
    BY <1>2 DEF Truncate, Write
  <2>2. UNCHANGED <<clock, recs, given>>
    BY <1>2 DEF Truncate, Write
  <2>. QED
    BY <2>1, <2>2, EmptyRecords DEF InTime
<1>3. ASSUME NEW p \in Procs, Audit(p) \/ Crash(p)
      PROVE  QueueInv'
  BY <1>3 DEF Audit, Crash
<1>4. CASE Tick
  BY <1>4, QueueAssumption DEF Tick
<1>5. CASE UNCHANGED vars
  BY <1>5 DEF vars
<1>. QED
  BY <1>1, <1>2, <1>3, <1>4, <1>5 DEF Next

\* ApprovalQueue.ApprovedInTime for any number of processes and requests: what
\* the file shows as approved an operator approved before it expired
\* (LocalApprovalRecord.approve, through every unlocked load and save).
THEOREM ApprovedInTimeHolds == Spec => []ApprovedInTime
<1>1. Init => QueueInv
  BY EmptyRecords DEF Init, QueueInv, QueueTypes, InTime
<1>2. QueueInv /\ [Next]_vars => QueueInv'
  BY QueueStep
<1>3. QueueInv => ApprovedInTime
  BY DEF QueueInv, InTime, ApprovedInTime
<1>. QED
  BY <1>1, <1>2, <1>3, PTL DEF Spec

-----------------------------------------------------------------------------
(***************************************************************************)
(* The approval queue, while processes take turns.                         *)
(***************************************************************************)
Settled == {"approved", "denied", "expired"}

\* What a command makes of a record's status.
Outcome(verb, old, new) ==
  \/ verb = "enqueue" /\ old = "none" /\ new = "pending"
  \/ verb \in {"approve", "deny", "expire"} /\ old \in {"pending", "approved"}
     /\ new \in Settled /\ new \in After(old)
  \/ verb = "consume" /\ old = "approved" /\ new = "consumed"

QueueTurnTypes ==
  /\ pc \in [Procs -> {"idle", "loaded", "writing", "saved"}]
  /\ DOMAIN cmd = Procs /\ \A p \in Procs : pc[p] # "idle" => cmd[p] \in Commands
  /\ saved \in [Ids -> Record]
  /\ shared \in BOOLEAN

\* What a command makes of its record is what its event tells.
Tells(verb, r) ==
  verb \in {"approve", "deny", "expire"} =>
    /\ r.status \in Told(EventType(verb))
    /\ verb = "approve" /\ r.status = "expired" => r.decided >= r.expires

\* A command under way holds the records last saved with its own changed.
HoldsSaved(p) ==
  /\ pc[p] \in {"loaded", "writing"} =>
       /\ \A i \in Ids \ {cmd[p].id} : recs[p][i] = saved[i]
       /\ Outcome(cmd[p].verb, saved[cmd[p].id].status, recs[p][cmd[p].id].status)
       /\ Tells(cmd[p].verb, recs[p][cmd[p].id])
  /\ pc[p] = "writing" => file.state = "torn"
  /\ pc[p] = "saved" => /\ recs[p] = saved /\ saved[cmd[p].id].status \in Settled
                        /\ cmd[p].verb \in {"approve", "deny", "expire"}
                        /\ Tells(cmd[p].verb, saved[cmd[p].id])

Accounted(i) ==
  \/ i \in unlogged
  \/ \E e \in events : e.id = i /\ Follows(saved[i].status, e.status)
  \/ \E p \in Procs : pc[p] = "saved" /\ cmd[p].id = i

EventSaved(e) ==
  /\ e.id \in Ids /\ e.status \in Settled /\ e.status \in Told(e.type)
  /\ saved[e.id].status \in After(e.status)
  /\ e.type = "approval_granted" /\ e.status = "expired" =>
       saved[e.id].decided >= saved[e.id].expires

QueueTurns ==
  /\ \A p, q \in Procs : pc[p] # "idle" /\ pc[q] # "idle" => p = q
  /\ file.state = "absent" => saved = Empty
  /\ file.state = "ok" => saved = file.recs
  /\ \A p \in Procs : HoldsSaved(p)
  /\ file.state = "torn" => emptied \/ \E p \in Procs : pc[p] = "writing"
  /\ \A e \in events : EventSaved(e)
  /\ \A i \in Ids : saved[i].status \notin {"none", "pending"} => Accounted(i)

QueueTurnInv == QueueTurnTypes /\ (~shared => QueueTurns)

LEMMA AfterFacts ==
  /\ \A r \in Record : r.status \in After(r.status)
  /\ \A s \in Settled : \A t \in After(s) : \A u \in After(t) : u \in After(s)
  /\ \A s \in Settled : s \in After(s)
  /\ \A v, s, t : Outcome(v, s, t) => t \in After(s)
<1>1. \A s \in {"none", "pending", "approved", "denied", "expired", "consumed"} : s \in After(s)
  BY DEF After
<1>2. \A s \in {"denied", "expired", "consumed"} : After(s) = {s}
  BY DEF After
<1>3. After("approved") = {"approved", "expired", "consumed"}
  BY DEF After
<1>4. \A s \in Settled : \A t \in After(s) : \A u \in After(t) : u \in After(s)
  BY <1>2, <1>3 DEF Settled
<1>5. \A v, s, t : Outcome(v, s, t) => t \in After(s)
  BY DEF Outcome, After
<1>. QED  BY <1>1, <1>4, <1>5 DEF Record, Settled

LEMMA UpdatedOutcome ==
  ASSUME NEW c \in Commands, NEW r \in Record, Accepts(c.verb, r)
  PROVE  Outcome(c.verb, r.status, Updated(c, r).status)
<1>. USE DEF Outcome, Settled, Accepts, Updated, Record
<1>1. CASE c.verb = "enqueue"
  BY <1>1
<1>2. CASE c.verb = "approve"
  BY <1>2 DEF Approve, Expired, After
<1>3. CASE c.verb = "deny"
  BY <1>3 DEF After
<1>4. CASE c.verb = "expire"
  BY <1>4 DEF Expired, After
<1>5. CASE c.verb = "consume"
  BY <1>5 DEF MatchesAction
<1>. QED  BY <1>1, <1>2, <1>3, <1>4, <1>5 DEF Commands, Verbs

LEMMA UpdatedTells ==
  ASSUME NEW c \in Commands, NEW r \in Record, clock \in Int, Accepts(c.verb, r)
  PROVE  Tells(c.verb, Updated(c, r))
<1>. USE DEF Tells, Told, EventType, Updated, Expired, Record
<1>1. CASE c.verb = "approve"
  BY <1>1 DEF Approve
<1>2. CASE c.verb = "deny"
  BY <1>2
<1>3. CASE c.verb = "expire"
  BY <1>3
<1>. QED  BY <1>1, <1>2, <1>3

LEMMA TurnLoad ==
  ASSUME QueueTypes, QueueTurnInv, NEW p \in Procs, NEW c \in Commands, Load(p, c)
  PROVE  QueueTurnInv'
<1>. DEFINE loaded == Reads(file)
<1>1. /\ pc[p] = "idle" /\ file.state \in {"absent", "ok"}
      /\ Accepts(c.verb, loaded[c.id])
      /\ recs' = [recs EXCEPT ![p] = [loaded EXCEPT ![c.id] = Updated(c, loaded[c.id])]]
      /\ pc' = [pc EXCEPT ![p] = "loaded"] /\ cmd' = [cmd EXCEPT ![p] = c]
      /\ UNCHANGED <<file, events, saved, unlogged, emptied>>
  BY DEF Load
<1>2. shared' = (shared \/ \E q \in Procs : pc[q] # "idle")
  BY DEF Load
<1>3. QueueTurnTypes'
  BY <1>1, <1>2 DEF QueueTurnInv, QueueTurnTypes
<1>4. ASSUME ~shared' PROVE QueueTurns'
  <2>1. ~shared /\ \A q \in Procs : pc[q] = "idle"
    BY <1>2, <1>4, Zenon
  <2>2. QueueTurns /\ QueueTurnTypes /\ loaded = saved
    BY <1>1, <2>1 DEF QueueTurnInv, QueueTurns, Reads
  <2>3. c.id \in Ids /\ saved[c.id] \in Record
    BY <2>2 DEF Commands, QueueTurnTypes
  <2>4. Outcome(c.verb, saved[c.id].status, Updated(c, saved[c.id]).status)
    BY <1>1, <2>2, <2>3, UpdatedOutcome
  <2>5. Tells(c.verb, Updated(c, saved[c.id]))
    BY <1>1, <2>2, <2>3, UpdatedTells DEF QueueTypes
  <2>. HIDE DEF loaded
  <2>6. recs'[p] = [saved EXCEPT ![c.id] = Updated(c, saved[c.id])]
    BY <1>1, <2>2 DEF QueueTypes
  <2>7. /\ \A i \in Ids \ {c.id} : recs'[p][i] = saved[i]
        /\ recs'[p][c.id] = Updated(c, saved[c.id])
    BY <2>2, <2>3, <2>6 DEF QueueTurnTypes
  <2>8. /\ \A q \in Procs : pc'[q] = IF q = p THEN "loaded" ELSE "idle"
        /\ cmd'[p] = c
    BY <1>1, <2>1, <2>2 DEF QueueTurnTypes
  <2>9. \A q \in Procs : HoldsSaved(q)'
    BY <1>1, <2>4, <2>5, <2>7, <2>8 DEF HoldsSaved
  <2>10. \A i \in Ids : Accounted(i) => Accounted(i)'
    BY <1>1, <2>1 DEF Accounted
  <2>11. \A e \in events' : EventSaved(e)'
    BY <1>1, <2>2 DEF QueueTurns, EventSaved
  <2>. QED  BY <1>1, <2>2, <2>8, <2>9, <2>10, <2>11 DEF QueueTurns
<1>. QED  BY <1>3, <1>4 DEF QueueTurnInv

LEMMA TurnTruncate ==
  ASSUME QueueTypes, QueueTurnInv, NEW p \in Procs, Truncate(p)
  PROVE  QueueTurnInv'
<1>1. /\ pc[p] = "loaded" /\ file' = [state |-> "torn", recs |-> Empty]
      /\ pc' = [pc EXCEPT ![p] = "writing"]
      /\ UNCHANGED <<cmd, recs, events, saved, shared, unlogged, emptied>>
  BY DEF Truncate
<1>2. QueueTurnTypes'
  BY <1>1 DEF QueueTurnInv, QueueTurnTypes
<1>3. ASSUME ~shared' PROVE QueueTurns'
  <2>1. QueueTurns /\ QueueTurnTypes
    BY <1>1, <1>3 DEF QueueTurnInv
  <2>2. \A q \in Procs : pc'[q] = IF q = p THEN "writing" ELSE "idle"
    BY <1>1, <2>1 DEF QueueTurns, QueueTurnTypes
  <2>3. file'.state = "torn"
    BY <1>1
  <2>4. \A q \in Procs : HoldsSaved(q)'
    BY <1>1, <2>1, <2>2, <2>3 DEF HoldsSaved, QueueTurns
  <2>5. \A i \in Ids : Accounted(i) => Accounted(i)'
    BY <1>1, <2>1, <2>2 DEF Accounted, QueueTurns
  <2>6. \A e \in events' : EventSaved(e)'
    BY <1>1, <2>1 DEF QueueTurns, EventSaved
  <2>. QED  BY <1>1, <2>1, <2>2, <2>3, <2>4, <2>5, <2>6 DEF QueueTurns
<1>. QED  BY <1>2, <1>3 DEF QueueTurnInv

LEMMA TurnWrite ==
  ASSUME QueueTypes, QueueTurnInv, NEW p \in Procs, Write(p)
  PROVE  /\ QueueTurnInv'
         /\ ~shared' => \A i \in Ids : saved'[i].status \in After(saved[i].status)
<1>1. /\ pc[p] = "writing"
      /\ file' \in {[state |-> "ok", recs |-> recs[p]]}
                   \cup {f \in {[state |-> "torn", recs |-> Empty]} : file.state = "ok"}
      /\ pc' = [pc EXCEPT ![p] =
                  IF cmd[p].verb \in {"enqueue", "consume"} THEN "idle" ELSE "saved"]
      /\ saved' = IF file'.state = "ok" THEN recs[p] ELSE saved
      /\ UNCHANGED <<cmd, recs, events, shared, unlogged, emptied>>
  BY DEF Write
<1>2. saved' \in {recs[p], saved}
  BY <1>1
<1>3. recs[p] \in [Ids -> Record]
  BY DEF QueueTypes
<1>4. QueueTurnTypes'
  <2>1. QueueTurnTypes
    BY DEF QueueTurnInv
  <2>2. pc' \in [Procs -> {"idle", "loaded", "writing", "saved"}]
    BY <1>1, <2>1 DEF QueueTurnTypes
  <2>3. \A q \in Procs : pc'[q] # "idle" => pc[q] # "idle"
    BY <1>1, <2>1 DEF QueueTurnTypes
  <2>. QED  BY <1>1, <1>2, <1>3, <2>1, <2>2, <2>3 DEF QueueTurnTypes
<1>5. ASSUME ~shared'
      PROVE  QueueTurns' /\ \A i \in Ids : saved'[i].status \in After(saved[i].status)
  <2>1. QueueTurns /\ QueueTurnTypes
    BY <1>1, <1>5 DEF QueueTurnInv
  <2>2. file' = [state |-> "ok", recs |-> recs[p]]
    BY <1>1, <2>1 DEF QueueTurns, HoldsSaved
  <2>3. saved' = recs[p] /\ file'.state = "ok" /\ file'.recs = recs[p]
    BY <1>1, <2>2
  <2>. DEFINE i0 == cmd[p].id
  <2>4. cmd[p] \in Commands /\ i0 \in Ids /\ cmd[p].verb \in Verbs
    BY <1>1, <2>1 DEF QueueTurnTypes, Commands
  <2>5. /\ \A i \in Ids \ {i0} : recs[p][i] = saved[i]
        /\ Outcome(cmd[p].verb, saved[i0].status, recs[p][i0].status)
        /\ Tells(cmd[p].verb, recs[p][i0])
    BY <1>1, <2>1 DEF QueueTurns, HoldsSaved
  <2>6. \A i \in Ids : saved'[i].status \in After(saved[i].status)
    BY <2>1, <2>3, <2>4, <2>5, AfterFacts DEF QueueTurnTypes
  <2>7. \A q \in Procs : q # p => pc'[q] = "idle" /\ pc[q] = "idle"
    BY <1>1, <2>1 DEF QueueTurns, QueueTurnTypes
  <2>8. pc'[p] = IF cmd[p].verb \in {"enqueue", "consume"} THEN "idle" ELSE "saved"
    BY <1>1, <2>1 DEF QueueTurnTypes
  <2>9. pc'[p] = "saved" => /\ saved'[i0].status \in Settled
                            /\ cmd[p].verb \in {"approve", "deny", "expire"}
                            /\ Tells(cmd[p].verb, saved'[i0])
    BY <2>3, <2>4, <2>5, <2>8 DEF Outcome, Verbs
  <2>10. \A q \in Procs : HoldsSaved(q)'
    BY <1>1, <2>3, <2>7, <2>8, <2>9 DEF HoldsSaved, Tells
  <2>11. ASSUME NEW e \in events
         PROVE  EventSaved(e)'
    <3>1. EventSaved(e)
      BY <2>1 DEF QueueTurns
    <3>2. saved'[e.id].status \in After(e.status)
      BY <2>6, <3>1, AfterFacts DEF EventSaved
    <3>3. e.status = "expired" => e.id # i0
      BY <2>5, <3>1 DEF EventSaved, After, Outcome
    <3>. QED  BY <2>3, <2>5, <3>1, <3>2, <3>3 DEF EventSaved
  <2>12. ASSUME NEW i \in Ids, saved'[i].status \notin {"none", "pending"}
         PROVE  Accounted(i)'
    <3>1. CASE saved[i].status \notin {"none", "pending"}
      <4>1. Accounted(i)
        BY <2>1, <3>1 DEF QueueTurns
      <4>2. ~\E q \in Procs : pc[q] = "saved"
        BY <1>1, <2>7
      <4>3. CASE i \in unlogged
        BY <1>1, <4>3 DEF Accounted
      <4>4. CASE i # i0
        BY <1>1, <2>3, <2>5, <4>1, <4>2, <4>4 DEF Accounted
      <4>5. CASE i = i0 /\ i \notin unlogged
        <5>1. PICK e \in events : e.id = i /\ Follows(saved[i].status, e.status)
          BY <4>1, <4>2, <4>5 DEF Accounted
        <5>2. CASE cmd[p].verb = "consume"
          <6>1. saved[i].status = "approved" /\ saved'[i].status = "consumed"
            BY <2>3, <2>5, <4>5, <5>2 DEF Outcome
          <6>2. Follows(saved'[i].status, e.status)
            BY <5>1, <6>1 DEF Follows
          <6>. QED  BY <1>1, <5>1, <6>2 DEF Accounted
        <5>3. CASE cmd[p].verb # "consume"
          <6>1. cmd[p].verb \in {"approve", "deny", "expire"}
            BY <2>5, <3>1, <4>5, <5>3 DEF Outcome
          <6>2. pc'[p] = "saved" /\ cmd'[p].id = i
            BY <1>1, <2>8, <4>5, <6>1
          <6>. QED  BY <6>2 DEF Accounted
        <5>. QED  BY <5>2, <5>3
      <4>. QED  BY <4>3, <4>4, <4>5
    <3>2. CASE saved[i].status \in {"none", "pending"}
      <4>1. i = i0
        BY <2>3, <2>5, <2>12, <3>2
      <4>2. cmd[p].verb \in {"approve", "deny", "expire"}
        BY <2>3, <2>5, <2>12, <3>2, <4>1 DEF Outcome
      <4>3. pc'[p] = "saved" /\ cmd'[p].id = i
        BY <1>1, <2>8, <4>1, <4>2
      <4>. QED  BY <4>3 DEF Accounted
    <3>. QED  BY <3>1, <3>2
  <2>13. events' = events
    BY <1>1
  <2>14. \A q, r \in Procs : pc'[q] # "idle" /\ pc'[r] # "idle" => q = r
    BY <2>7
  <2>15. /\ file'.state = "absent" => saved' = Empty
         /\ file'.state = "ok" => saved' = file'.recs
    BY <2>3
  <2>16. \A e \in events' : EventSaved(e)'
    BY <2>11, <2>13
  <2>17. file'.state # "torn"
    BY <2>3
  <2>. QED  BY <2>6, <2>10, <2>12, <2>14, <2>15, <2>16, <2>17 DEF QueueTurns
<1>. QED  BY <1>4, <1>5 DEF QueueTurnInv

LEMMA TurnAudit ==
  ASSUME QueueTypes, QueueTurnInv, NEW p \in Procs, Audit(p) \/ Crash(p)
  PROVE  QueueTurnInv'
<1>1. /\ pc[p] # "idle" /\ pc' = [pc EXCEPT ![p] = "idle"]
      /\ UNCHANGED <<file, cmd, recs, saved, shared>>
      /\ \/ events' = events /\ unlogged' = unlogged /\ pc[p] # "saved"
         \/ events' = events /\ unlogged' = unlogged \cup {cmd[p].id}
         \/ events' = events \cup {EventOf(p)} /\ unlogged' = unlogged /\ pc[p] = "saved"
  BY DEF Audit, Crash
<1>2. (emptied => emptied') /\ (pc[p] = "writing" => emptied')
  <2>1. CASE Audit(p)
    BY <2>1 DEF Audit
  <2>2. CASE Crash(p)
    BY <2>2 DEF Crash
  <2>. QED  BY <2>1, <2>2
<1>3. QueueTurnTypes'
  BY <1>1 DEF QueueTurnInv, QueueTurnTypes
<1>4. ASSUME ~shared' PROVE QueueTurns'
  <2>1. QueueTurns /\ QueueTurnTypes
    BY <1>1, <1>4 DEF QueueTurnInv
  <2>2. \A q \in Procs : pc'[q] = "idle" /\ (q # p => pc[q] = "idle")
    BY <1>1, <2>1 DEF QueueTurns, QueueTurnTypes
  <2>3. cmd[p] \in Commands /\ cmd[p].id \in Ids
    BY <1>1, <2>1 DEF QueueTurnTypes, Commands
  <2>4. pc[p] = "saved" => /\ recs[p] = saved /\ saved[cmd[p].id].status \in Settled
                           /\ cmd[p].verb \in {"approve", "deny", "expire"}
                           /\ Tells(cmd[p].verb, saved[cmd[p].id])
    BY <2>1 DEF QueueTurns, HoldsSaved
  <2>5. /\ EventOf(p).id = cmd[p].id /\ EventOf(p).status = recs[p][cmd[p].id].status
        /\ EventOf(p).type = EventType(cmd[p].verb)
    BY DEF EventOf
  <2>6. \A e \in events' : EventSaved(e)'
    <3>1. \A e \in events : EventSaved(e)
      BY <2>1 DEF QueueTurns
    <3>2. pc[p] = "saved" => saved[cmd[p].id].status \in After(saved[cmd[p].id].status)
      BY <2>4, AfterFacts
    <3>3. cmd[p].verb # "approve" /\ cmd[p].verb \in Verbs /\ pc[p] = "saved" =>
            EventType(cmd[p].verb) # "approval_granted"
      BY <2>4 DEF EventType
    <3>4. pc[p] = "saved" => EventSaved(EventOf(p))
      BY <2>3, <2>4, <2>5, <3>2, <3>3 DEF EventSaved, Tells, Commands
    <3>. QED  BY <1>1, <3>1, <3>4 DEF EventSaved
  <2>7. \A i \in Ids : Accounted(i) => Accounted(i)'
    <3>1. SUFFICES ASSUME NEW i \in Ids, Accounted(i) PROVE Accounted(i)'
      OBVIOUS
    <3>2. CASE i \in unlogged
               \/ \E e \in events : e.id = i /\ Follows(saved[i].status, e.status)
      BY <1>1, <3>2 DEF Accounted
    <3>3. CASE pc[p] = "saved" /\ cmd[p].id = i
      BY <1>1, <2>4, <2>5, <3>3 DEF Accounted, Follows
    <3>4. \A q \in Procs : pc[q] = "saved" => q = p
      BY <2>2
    <3>. QED  BY <3>1, <3>2, <3>3, <3>4 DEF Accounted
  <2>8. \A q \in Procs : HoldsSaved(q)'
    BY <2>2 DEF HoldsSaved
  <2>9. file'.state = "torn" => emptied' \/ \E q \in Procs : pc'[q] = "writing"
    BY <1>1, <1>2, <2>1, <2>2 DEF QueueTurns
  <2>. QED  BY <1>1, <2>1, <2>2, <2>6, <2>7, <2>8, <2>9 DEF QueueTurns
<1>. QED  BY <1>3, <1>4 DEF QueueTurnInv

LEMMA TurnTick ==
  ASSUME QueueTurnInv, Tick \/ UNCHANGED vars
  PROVE  QueueTurnInv'
<1>1. UNCHANGED <<file, pc, cmd, recs, events, saved, shared, unlogged, emptied>>
  BY DEF Tick, vars
<1>. QED
  BY <1>1 DEF QueueTurnInv, QueueTurnTypes, QueueTurns, HoldsSaved, Tells,
             Accounted, EventSaved

LEMMA QueueTurnStep ==
  ASSUME QueueTypes, QueueTurnInv, [Next]_vars
  PROVE  /\ QueueTurnInv'
         /\ ~shared' => \A i \in Ids : saved'[i].status \in After(saved[i].status)
<1>1. saved' = saved => \A i \in Ids : saved'[i].status \in After(saved[i].status)
  BY AfterFacts DEF QueueTurnInv, QueueTurnTypes
<1>2. ASSUME NEW p \in Procs, NEW c \in Commands, Load(p, c)
      PROVE  QueueTurnInv' /\ saved' = saved
  BY <1>2, TurnLoad DEF Load
<1>3. ASSUME NEW p \in Procs, Truncate(p)
      PROVE  QueueTurnInv' /\ saved' = saved
  BY <1>3, TurnTruncate DEF Truncate
<1>4. ASSUME NEW p \in Procs, Audit(p) \/ Crash(p)
      PROVE  QueueTurnInv' /\ saved' = saved
  BY <1>4, TurnAudit DEF Audit, Crash
<1>5. ASSUME Tick \/ UNCHANGED vars
      PROVE  QueueTurnInv' /\ saved' = saved
  BY <1>5, TurnTick DEF Tick, vars
<1>. QED
  BY <1>1, <1>2, <1>3, <1>4, <1>5, TurnWrite DEF Next

LEMMA QueueTurnInit == Init => QueueTurnInv
<1>. SUFFICES ASSUME Init PROVE QueueTurnInv
  OBVIOUS
<1>1. /\ \A p \in Procs : pc[p] = "idle"
      /\ pc \in [Procs -> {"idle", "loaded", "writing", "saved"}]
      /\ DOMAIN cmd = Procs /\ shared \in BOOLEAN
      /\ saved = Empty /\ events = {} /\ file.state = "absent"
  BY DEF Init
<1>2. Empty \in [Ids -> Record] /\ \A i \in Ids : Empty[i].status = "none"
  BY EmptyRecords DEF Empty, NoRecord
<1>. QED
  BY <1>1, <1>2 DEF QueueTurnInv, QueueTurnTypes, QueueTurns, HoldsSaved, Accounted

LEMMA QueueTurnsHold == Spec => [](QueueTypes /\ QueueTurnInv)
<1>1. Init => QueueInv /\ QueueTurnInv
  BY EmptyRecords, QueueTurnInit DEF Init, QueueInv, QueueTypes, InTime
<1>2. (QueueInv /\ QueueTurnInv) /\ [Next]_vars => (QueueInv /\ QueueTurnInv)'
  BY QueueStep, QueueTurnStep DEF QueueInv
<1>3. QueueInv /\ QueueTurnInv => QueueTypes /\ QueueTurnInv
  BY DEF QueueInv
<1>. QED
  BY <1>1, <1>2, <1>3, PTL DEF Spec

\* While processes take turns a record is decided once, and the next process reads
\* what the last one wrote, unless one died between truncation and writing
\* (_save_records).
THEOREM DecisionsStandInTurnsHolds == Spec => DecisionsStandInTurns
<1>1. /\ QueueTypes /\ QueueTurnInv /\ QueueTypes' /\ QueueTurnInv' /\ [Next]_vars
      => (~shared' =>
            /\ \A i \in Ids : saved'[i].status \in After(saved[i].status)
            /\ file'.state # "torn" => Reads(file') = saved'
            /\ file'.state = "torn" => emptied' \/ \E p \in Procs : pc'[p] = "writing")
  <2>1. QueueTypes' /\ QueueTurnInv' /\ ~shared' =>
          /\ file'.state # "torn" => Reads(file') = saved'
          /\ file'.state = "torn" => emptied' \/ \E p \in Procs : pc'[p] = "writing"
    BY DEF QueueTypes, QueueTurnInv, QueueTurns, Reads
  <2>. QED  BY <2>1, QueueTurnStep
<1>. QED
  BY <1>1, QueueTurnsHold, PTL DEF Spec, DecisionsStandInTurns

\* While processes take turns the log tells the decisions the file holds, but for
\* what a death or a failing sink cut off, and a late approve as a grant.
THEOREM AuditFollowsFileHolds == Spec => []AuditFollowsFile
<1>1. QueueTypes /\ QueueTurnInv => AuditFollowsFile
  <2>. SUFFICES ASSUME QueueTypes, QueueTurnInv, ~shared, file.state = "ok"
                PROVE  AuditFollowsFile
    BY DEF AuditFollowsFile
  <2>1. QueueTurns /\ file.recs = saved
    BY DEF QueueTurnInv, QueueTurns
  <2>2. \A e \in events : EventSaved(e)
    BY <2>1 DEF QueueTurns
  <2>3. (\A p \in Procs : pc[p] = "idle") =>
          \A i \in Ids : saved[i].status \notin {"none", "pending"} =>
            i \in unlogged
            \/ \E e \in events : e.id = i /\ Follows(saved[i].status, e.status)
    BY <2>1 DEF QueueTurns, Accounted
  <2>. QED  BY <2>1, <2>2, <2>3 DEF AuditFollowsFile, EventSaved
<1>. QED
  BY <1>1, QueueTurnsHold, PTL

-----------------------------------------------------------------------------
(***************************************************************************)
(* The signed grant cache.                                                 *)
(***************************************************************************)
\* What a look-up found, for as long as its command is the last one: it is over,
\* and its verifier's keys are still the ones it was checked with.
FoundInv ==
  /\ place \in [Brokers -> {"idle", "await_read", "await_write", "reading",
                            "writing", "written", "checking"}]
  /\ DOMAIN command = Brokers /\ DOMAIN found = Brokers /\ DOMAIN trusted = Brokers
  /\ \A p \in Brokers : found[p] # NoOne /\ command[p].verb = "find" =>
       /\ place[p] = "idle"
       /\ GrantOf[found[p]].genuine
       /\ GrantOf[found[p]].request = command[p].request
       /\ GrantOf[found[p]].key \in trusted[p]

LEMMA FoundStep ==
  ASSUME FoundInv, [CacheNext]_cacheVars
  PROVE  FoundInv'
<1>1. ASSUME NEW k \in Keys, NEW kind, Register(k, kind)
      PROVE  FoundInv'
  BY <1>1 DEF Register, FoundInv
<1>2. ASSUME NEW p \in Brokers, NEW g \in Grants, BeginAppend(p, g)
      PROVE  FoundInv'
  BY <1>2 DEF BeginAppend, Begin, FoundInv
<1>3. ASSUME NEW p \in Brokers, NEW r \in Requests, BeginFind(p, r)
      PROVE  FoundInv'
  BY <1>3 DEF BeginFind, Begin, FoundInv
<1>4. ASSUME NEW p \in Brokers, TakeLock(p) \/ ReadGrants(p) \/ WriteTemp(p) \/ Replace(p) \/ Dies(p)
      PROVE  FoundInv'
  <2>1. /\ \E at \in {"idle", "await_read", "await_write", "reading", "writing",
                      "written", "checking"} : place' = [place EXCEPT ![p] = at]
        /\ place[p] # "idle"
    BY <1>4 DEF TakeLock, ReadGrants, WriteTemp, Replace, Dies, End, FoundInv
  <2>2. UNCHANGED <<command, found, trusted>>
    BY <1>4 DEF TakeLock, ReadGrants, WriteTemp, Replace, Dies
  <2>. QED
    BY <2>1, <2>2 DEF FoundInv
<1>5. ASSUME NEW p \in Brokers, Check(p)
      PROVE  FoundInv'
  <2>1. PICK late \in SUBSET Grants :
          \/ found' = [found EXCEPT ![p] = NoOne]
          \/ \E i \in DOMAIN existing[p] : /\ Verifies(p, existing[p][i], late)
                                           /\ found' = [found EXCEPT ![p] = existing[p][i]]
    BY <1>5 DEF Check
  <2>2. /\ place' = [place EXCEPT ![p] = "idle"]
        /\ UNCHANGED <<command, trusted>>
    BY <1>5 DEF Check, End
  <2>. QED
    BY <2>1, <2>2 DEF FoundInv, Verifies
<1>6. CASE Edit
  BY <1>6 DEF Edit, FoundInv
<1>7. CASE UNCHANGED cacheVars
  BY <1>7 DEF cacheVars, FoundInv
<1>. QED
  BY <1>1, <1>2, <1>3, <1>4, <1>5, <1>6, <1>7 DEF CacheNext, CacheStep

\* SignedGrantCache.FoundIsVerified, whoever wrote the file and whoever registers
\* or revokes a signer meanwhile (find_verified_grant).
THEOREM FoundIsVerifiedHolds == CacheSpec => []FoundIsVerified
<1>1. CacheInit => FoundInv
  BY DEF CacheInit, FoundInv
<1>2. FoundInv /\ [CacheNext]_cacheVars => FoundInv'
  BY FoundStep
<1>3. FoundInv => FoundIsVerified
  BY DEF FoundInv, FoundIsVerified
<1>. QED
  BY <1>1, <1>2, <1>3, PTL DEF CacheSpec

\* While appends do not overlap and nothing else writes the file, what one has
\* read is what the file holds until it has replaced the file.
Writing == {"await_write", "writing", "written"}
AppendTypes ==
  /\ place \in [Brokers -> {"idle", "await_read", "await_write", "reading",
                            "writing", "written", "checking"}]
  /\ DOMAIN command = Brokers
  /\ existing \in [Brokers -> Seq(Grants)]
  /\ cache.grants \in Seq(Grants)
AppendInv ==
  /\ AppendTypes
  /\ cache.state = "absent" => cache.grants = <<>>
  /\ \A p \in Brokers :
       /\ place[p] = "idle" => existing[p] = <<>>
       /\ place[p] \in Writing => command[p].verb = "append"
       /\ Appending(p) => command[p].grant \in Grants
  /\ ~mingled /\ ~edited =>
       /\ returned \subseteq ToSet(cache.grants)
       /\ \A p, q \in Brokers : Appending(p) /\ Appending(q) => p = q
       /\ \A p \in Brokers : place[p] \in Writing => existing[p] = cache.grants

LEMMA AppendKeeps ==
  ASSUME NEW grants \in Seq(Grants), NEW g \in Grants
  PROVE  /\ Append(grants, g) \in Seq(Grants)
         /\ ToSet(grants) \cup {g} \subseteq ToSet(Append(grants, g))
<1>1. /\ Append(grants, g) \in Seq(Grants)
      /\ Len(Append(grants, g)) = Len(grants) + 1
      /\ \A i \in 1..Len(grants) : Append(grants, g)[i] = grants[i]
      /\ Append(grants, g)[Len(grants) + 1] = g
  BY AppendProperties
<1>2. DOMAIN grants = 1..Len(grants) /\ Len(grants) \in Nat
  BY LenProperties
<1>3. DOMAIN Append(grants, g) = 1..(Len(grants) + 1)
  BY <1>1, LenProperties
<1>. QED
  BY <1>1, <1>2, <1>3 DEF ToSet

LEMMA AppendStep ==
  ASSUME AppendInv, [CacheNext]_cacheVars
  PROVE  AppendInv'
<1>1. ASSUME NEW k \in Keys, NEW kind, Register(k, kind)
      PROVE  AppendInv'
  BY <1>1 DEF Register, AppendInv, AppendTypes, Appending
<1>2. ASSUME NEW p \in Brokers, NEW g \in Grants, BeginAppend(p, g)
      PROVE  AppendInv'
  <2>1. /\ place[p] = "idle" /\ existing[p] = <<>>
        /\ command' = [command EXCEPT ![p] = [verb |-> "append", grant |-> g]]
        /\ place' = [place EXCEPT ![p] = IF cache.state = "absent" THEN "await_write"
                                         ELSE "await_read"]
        /\ mingled' = (mingled \/ \E q \in Brokers : Appending(q))
        /\ UNCHANGED <<cache, existing, returned, edited>>
    BY <1>2 DEF BeginAppend, Begin, AppendInv
  <2>2. \A q \in Brokers \ {p} : Appending(q)' <=> Appending(q)
    BY <2>1 DEF Appending
  <2>3. \A q \in Brokers : /\ place'[q] = IF q # p THEN place[q]
                                        ELSE IF cache.state = "absent" THEN "await_write"
                                        ELSE "await_read"
                           /\ command'[q] = IF q # p THEN command[q]
                                           ELSE [verb |-> "append", grant |-> g]
    BY <2>1 DEF AppendInv, AppendTypes
  <2>4. AppendTypes'
    BY <2>1 DEF AppendInv, AppendTypes
  <2>5. \A q \in Brokers : /\ place'[q] = "idle" => existing'[q] = <<>>
                           /\ place'[q] \in Writing => command'[q].verb = "append"
                           /\ Appending(q)' => command'[q].grant \in Grants
    BY <2>1, <2>2, <2>3 DEF AppendInv, Writing
  <2>6. ASSUME ~mingled' /\ ~edited'
        PROVE  /\ returned' \subseteq ToSet(cache.grants)'
               /\ \A q, r \in Brokers : Appending(q)' /\ Appending(r)' => q = r
               /\ \A q \in Brokers : place'[q] \in Writing => existing'[q] = cache'.grants
    <3>1. ~mingled /\ ~edited /\ \A q \in Brokers : ~Appending(q)
      BY <2>1, <2>6
    <3>2. \A q \in Brokers : place'[q] \in Writing => existing'[q] = cache'.grants
      BY <2>1, <2>3, <3>1 DEF AppendInv, Writing
    <3>. QED
      BY <2>1, <2>2, <3>1, <3>2 DEF AppendInv
  <2>. QED
    BY <2>1, <2>4, <2>5, <2>6 DEF AppendInv
<1>3. ASSUME NEW p \in Brokers, NEW r \in Requests, BeginFind(p, r)
      PROVE  AppendInv'
  <2>1. /\ place[p] = "idle" /\ existing[p] = <<>>
        /\ command' = [command EXCEPT ![p] = [verb |-> "find", request |-> r]]
        /\ place' = [place EXCEPT ![p] = IF cache.state = "absent" THEN "checking"
                                         ELSE "await_read"]
        /\ UNCHANGED <<cache, existing, returned, edited, mingled>>
    BY <1>3 DEF BeginFind, Begin, AppendInv
  <2>2. ~Appending(p)'
    BY <2>1 DEF AppendInv, AppendTypes, Appending
  <2>3. \A q \in Brokers \ {p} : Appending(q)' <=> Appending(q)
    BY <2>1 DEF Appending
  <2>. QED
    BY <2>1, <2>2, <2>3 DEF AppendInv, AppendTypes, Writing
<1>4. ASSUME NEW p \in Brokers, TakeLock(p)
      PROVE  AppendInv'
  BY <1>4 DEF TakeLock, AppendInv, AppendTypes, Appending, Writing
<1>5. ASSUME NEW p \in Brokers, ReadGrants(p)
      PROVE  AppendInv'
  <2>1. CASE /\ existing' = [existing EXCEPT ![p] = cache.grants]
             /\ place' = [place EXCEPT ![p] =
                  IF command[p].verb = "append" THEN "await_write" ELSE "checking"]
    BY <1>5, <2>1 DEF ReadGrants, AppendInv, AppendTypes, Appending, Writing
  <2>2. CASE End(p)
    BY <1>5, <2>2, EmptySeq DEF ReadGrants, End, AppendInv, AppendTypes, Appending, Writing
  <2>3. CASE place' = [place EXCEPT ![p] = "checking"] /\ UNCHANGED existing
             /\ command[p].verb # "append"
    BY <1>5, <2>3 DEF ReadGrants, AppendInv, AppendTypes, Appending, Writing
  <2>. QED
    BY <1>5, <2>1, <2>2, <2>3 DEF ReadGrants
<1>6. ASSUME NEW p \in Brokers, Check(p) \/ Dies(p)
      PROVE  AppendInv'
  <2>1. End(p) /\ UNCHANGED <<cache, command, returned, mingled, edited>>
    BY <1>6 DEF Check, Dies
  <2>. QED
    BY <2>1, EmptySeq DEF End, AppendInv, AppendTypes, Appending, Writing
<1>7. ASSUME NEW p \in Brokers, WriteTemp(p)
      PROVE  AppendInv'
  <2>1. CASE End(p)
    BY <1>7, <2>1, EmptySeq DEF WriteTemp, End, AppendInv, AppendTypes, Appending, Writing
  <2>2. CASE place' = [place EXCEPT ![p] = "written"] /\ UNCHANGED existing
    BY <1>7, <2>2 DEF WriteTemp, AppendInv, AppendTypes, Appending, Writing
  <2>. QED
    BY <1>7, <2>1, <2>2 DEF WriteTemp
<1>8. ASSUME NEW p \in Brokers, Replace(p)
      PROVE  AppendInv'
  <2>1. /\ place[p] = "written"
        /\ cache' = [state |-> "ok", grants |-> Append(existing[p], command[p].grant)]
        /\ returned' = returned \cup {command[p].grant}
        /\ place' = [place EXCEPT ![p] = "idle"]
        /\ existing' = [existing EXCEPT ![p] = <<>>]
        /\ UNCHANGED <<command, mingled, edited>>
    BY <1>8 DEF Replace, End
  <2>2. Appending(p) /\ command[p].grant \in Grants /\ existing[p] \in Seq(Grants)
    BY <2>1 DEF AppendInv, AppendTypes, Appending, Writing
  <2>3. /\ cache'.grants \in Seq(Grants)
        /\ ToSet(existing[p]) \cup {command[p].grant} \subseteq ToSet(cache'.grants)
        /\ cache'.state # "absent"
    BY <2>1, <2>2, AppendKeeps
  <2>4. ~mingled /\ ~edited => existing[p] = cache.grants
    BY <2>1 DEF AppendInv, Writing
  <2>5. ~mingled /\ ~edited => returned' \subseteq ToSet(cache'.grants)
    BY <2>1, <2>3, <2>4 DEF AppendInv
  <2>6. ~mingled /\ ~edited => \A q \in Brokers \ {p} : place[q] \notin Writing
    BY <2>2 DEF AppendInv, Appending, Writing
  <2>7. AppendTypes'
    BY <2>1, <2>3, EmptySeq DEF AppendInv, AppendTypes
  <2>8. \A q \in Brokers : /\ place'[q] = IF q = p THEN "idle" ELSE place[q]
                           /\ existing'[q] = IF q = p THEN <<>> ELSE existing[q]
    BY <2>1 DEF AppendInv, AppendTypes
  <2>9. \A q \in Brokers : Appending(q)' => Appending(q)
    BY <2>1, <2>8 DEF Appending
  <2>. QED
    BY <2>1, <2>3, <2>5, <2>6, <2>7, <2>8, <2>9 DEF AppendInv, Writing
<1>9. CASE Edit
  <2>1. \/ cache' = [state |-> "malformed", grants |-> <<>>]
        \/ \E g \in Grants : cache' = [state |-> "ok", grants |-> Append(cache.grants, g)]
    BY <1>9 DEF Edit
  <2>2. cache'.grants \in Seq(Grants) /\ cache'.state # "absent"
    <3>1. <<>> \in Seq(Grants) /\ cache.grants \in Seq(Grants)
      BY EmptySeq DEF AppendInv, AppendTypes
    <3>2. \A g \in Grants : Append(cache.grants, g) \in Seq(Grants)
      BY <3>1, AppendKeeps
    <3>3. CASE cache' = [state |-> "malformed", grants |-> <<>>]
      BY <3>1, <3>3
    <3>4. ASSUME NEW g \in Grants, cache' = [state |-> "ok", grants |-> Append(cache.grants, g)]
          PROVE  cache'.grants \in Seq(Grants) /\ cache'.state # "absent"
      <4>1. cache'.grants = Append(cache.grants, g) /\ cache'.state = "ok"
        BY <3>4
      <4>. QED
        BY <3>2, <4>1
    <3>. QED
      BY <2>1, <3>3, <3>4
  <2>. QED
    BY <1>9, <2>2 DEF Edit, AppendInv, AppendTypes, Appending
<1>10. CASE UNCHANGED cacheVars
  BY <1>10 DEF cacheVars, AppendInv, AppendTypes, Appending
<1>. QED
  BY <1>1, <1>2, <1>3, <1>4, <1>5, <1>6, <1>7, <1>8, <1>9, <1>10 DEF CacheNext, CacheStep

\* SignedGrantCache.AppendedStays: an append that overlaps no other is kept,
\* however many processes look up, fail or die meanwhile (append_signed_grant).
THEOREM AppendedStaysHolds == CacheSpec => []AppendedStays
<1>1. CacheInit => AppendInv
  BY EmptySeq DEF CacheInit, AppendInv, AppendTypes, Appending, Writing, ToSet
<1>2. AppendInv /\ [CacheNext]_cacheVars => AppendInv'
  BY AppendStep
<1>3. AppendInv => AppendedStays
  BY DEF AppendInv, AppendedStays
<1>. QED
  BY <1>1, <1>2, <1>3, PTL DEF CacheSpec
=============================================================================
