--------------------------- MODULE AuditChainProofs ---------------------------
(***************************************************************************)
(* The audit log, for any number of processes, events, torn writes and     *)
(* changes from outside: what a chain that verifies tells, what a          *)
(* checkpoint adds, and that sinks used in turns make the log AuditLog     *)
(* describes.                                                              *)
(***************************************************************************)
EXTENDS AuditChain, SequenceTheorems, WellFoundedInduction, TLAPS

Records == [prev : Seq(Nat), event : Nat, hash : Seq(Nat),
            parses : BOOLEAN, ended : BOOLEAN]

-----------------------------------------------------------------------------
(***************************************************************************)
(* The chain.                                                              *)
(***************************************************************************)
\* Induction over a file is by its first bad record, which this gives.
LEMMA LeastNatural ==
  ASSUME NEW T, T \subseteq Nat, T # {}
  PROVE  \E x \in T : \A y \in T : x <= y
<1>1. \E x \in T : \A y \in T : ~ (<<y, x>> \in OpToRel(<, Nat))
  BY NatLessThanWellFounded, WFMin, Zenon
<1>2. PICK x \in T : \A y \in T : ~ (<<y, x>> \in {ss \in Nat \X Nat : ss[1] < ss[2]})
  BY <1>1, Zenon DEF OpToRel
<1>3. ASSUME NEW y \in T PROVE x <= y
  <2>1. <<y, x>> \in Nat \X Nat /\ <<y, x>>[1] = y /\ <<y, x>>[2] = x
    OBVIOUS
  <2>2. ~(y < x)
    BY <1>2, <2>1, Zenon
  <2>. QED BY <2>2
<1>. QED BY <1>3

LEMMA FunctionIsSeq ==
  ASSUME NEW S, NEW n \in Nat, NEW s \in [1..n -> S]
  PROVE  s \in Seq(S)
BY SeqDef, Zenon

\* The events of f up to its record i.
UpTo(f, i) == [k \in 1..i |-> f[k].event]

LEMMA RecordFields ==
  ASSUME NEW f \in Seq(Records), NEW i \in 1..Len(f)
  PROVE  /\ f[i] \in Records
         /\ f[i].prev \in Seq(Nat) /\ f[i].hash \in Seq(Nat) /\ f[i].event \in Nat
<1>1. f[i] \in Records
  BY ElementOfSeq
<1>. QED  BY <1>1 DEF Records

LEMMA UpToIsSeq ==
  ASSUME NEW f \in Seq(Records), NEW i \in 0..Len(f)
  PROVE  UpTo(f, i) \in Seq(Nat) /\ Len(UpTo(f, i)) = i
<1>1. Len(f) \in Nat
  BY LenProperties
<1>2. UpTo(f, i) \in [1..i -> Nat]
  BY <1>1, RecordFields DEF UpTo
<1>. QED  BY <1>1, <1>2

LEMMA UpToNext ==
  ASSUME NEW f \in Seq(Records), NEW i \in 1..Len(f)
  PROVE  Append(UpTo(f, i - 1), f[i].event) = UpTo(f, i)
<1>1. Len(f) \in Nat /\ i - 1 \in 0..Len(f) /\ i \in 0..Len(f) /\ i \in Nat
  BY LenProperties
<1>2. /\ UpTo(f, i - 1) \in Seq(Nat) /\ Len(UpTo(f, i - 1)) = i - 1
      /\ UpTo(f, i) \in Seq(Nat) /\ Len(UpTo(f, i)) = i
  BY <1>1, UpToIsSeq
<1>3. f[i].event \in Nat
  BY RecordFields
<1>. DEFINE s == Append(UpTo(f, i - 1), f[i].event)
<1>4. /\ s \in Seq(Nat) /\ Len(s) = i
      /\ \A k \in 1..(i - 1) : s[k] = UpTo(f, i - 1)[k]
      /\ s[i] = f[i].event
  <2>1. i - 1 + 1 = i
    BY <1>1
  <2>. QED  BY <1>2, <1>3, <2>1, AppendProperties
<1>5. ASSUME NEW k \in 1..i PROVE s[k] = UpTo(f, i)[k]
  <2>1. UpTo(f, i)[k] = f[k].event
    BY DEF UpTo
  <2>2. CASE k = i
    BY <1>4, <2>1, <2>2
  <2>3. CASE k # i
    <3>1. k \in 1..(i - 1)
      BY <1>1, <2>3
    <3>2. UpTo(f, i - 1)[k] = f[k].event
      BY <3>1 DEF UpTo
    <3>. QED  BY <1>4, <2>1, <3>1, <3>2
  <2>. QED  BY <2>2, <2>3
<1>. QED  BY <1>2, <1>4, <1>5, SeqEqual

\* In a file that verifies, the hash of a record is all events up to it.
LEMMA ChainTells ==
  ASSUME NEW f \in Seq(Records), Verifies(f)
  PROVE  \A i \in 1..Len(f) : f[i].hash = UpTo(f, i)
<1>. DEFINE bad == {i \in 1..Len(f) : f[i].hash # UpTo(f, i)}
<1>. SUFFICES ASSUME bad # {} PROVE FALSE
  OBVIOUS
<1>1. Len(f) \in Nat /\ DOMAIN f = 1..Len(f)
  BY LenProperties
<1>2. bad \subseteq Nat
  BY <1>1
<1>3. PICK x \in bad : \A y \in bad : x <= y
  BY <1>2, LeastNatural
<1>4. /\ x \in 1..Len(f) /\ f[x].hash # UpTo(f, x)
      /\ f[x].prev = (IF x = 1 THEN <<>> ELSE f[x - 1].hash)
      /\ f[x].hash = Append(f[x].prev, f[x].event)
  BY <1>1 DEF Verifies, NoHash, Hash
<1>5. CASE x = 1
  <2>1. UpTo(f, x - 1) = <<>>
    <3>1. x - 1 = 0 /\ 0 \in 0..Len(f)
      BY <1>1, <1>5
    <3>. QED  BY <3>1, UpToIsSeq, EmptySeq
  <2>. QED  BY <1>4, <1>5, <2>1, UpToNext
<1>6. CASE x # 1
  <2>1. x - 1 \in 1..Len(f) /\ x - 1 \notin bad
    BY <1>1, <1>3, <1>4, <1>6
  <2>2. f[x - 1].hash = UpTo(f, x - 1)
    BY <2>1
  <2>. QED  BY <1>4, <1>6, <2>2, UpToNext
<1>. QED  BY <1>5, <1>6

\* So a record's hash is as long as the place it stands at.
LEMMA HashPlace ==
  ASSUME NEW f \in Seq(Records), Verifies(f), NEW i \in 1..Len(f)
  PROVE  Len(f[i].hash) = i
<1>1. i \in 0..Len(f)
  BY LenProperties
<1>. QED  BY <1>1, ChainTells, UpToIsSeq

-----------------------------------------------------------------------------
(***************************************************************************)
(* Types.  Nothing is said of what the file holds: it may be anything.     *)
(***************************************************************************)
ChainTypes ==
  /\ backend \in {"jsonl", "sqlite"}
  /\ file \in Seq(Records)
  /\ sink \in [Processes -> {"closed", "open", "insert"}]
  /\ last \in [Processes -> Seq(Nat)]
  /\ acked \in Seq(Nat)
  /\ emits \in Nat /\ tears \in Nat /\ edits \in Nat
  /\ shared \in BOOLEAN
  /\ \A c \in checkpoints : c.count \in Nat /\ (c.count = 0 => c.hash = NoHash)

LEMMA LastHashType ==
  ASSUME NEW f \in Seq(Records)
  PROVE  LastHash(f) \in Seq(Nat)
<1>1. CASE f = <<>>
  BY <1>1, EmptySeq DEF LastHash, NoHash
<1>2. CASE f # <<>>
  <2>1. Len(f) \in 1..Len(f)
    BY <1>2, EmptySeq
  <2>. QED  BY <1>2, <2>1, RecordFields DEF LastHash
<1>. QED  BY <1>1, <1>2

LEMMA RecordType ==
  ASSUME NEW prev \in Seq(Nat), NEW e \in Nat
  PROVE  Record(prev, e) \in Records
<1>1. Append(prev, e) \in Seq(Nat)
  BY AppendProperties
<1>. QED  BY <1>1 DEF Record, Records, Hash

LEMMA GlueType ==
  ASSUME NEW f \in Seq(Records), NEW line \in Records
  PROVE  Glue(f, line) \in Seq(Records)
<1>1. CASE f # <<>> /\ ~f[Len(f)].ended
  <2>1. Len(f) \in 1..Len(f) /\ line.ended \in BOOLEAN
    BY <1>1, EmptySeq DEF Records
  <2>2. f[Len(f)] \in Records
    BY <2>1, RecordFields
  <2>3. [f[Len(f)] EXCEPT !.parses = FALSE, !.ended = line.ended] \in Records
    BY <2>1, <2>2 DEF Records
  <2>4. Glue(f, line) = [f EXCEPT ![Len(f)] =
                           [f[Len(f)] EXCEPT !.parses = FALSE, !.ended = line.ended]]
    BY <1>1, <2>1, <2>2, LenProperties DEF Glue
  <2>. QED  BY <2>1, <2>3, <2>4, ExceptSeq
<1>2. CASE ~(f # <<>> /\ ~f[Len(f)].ended)
  BY <1>2, AppendProperties DEF Glue
<1>. QED  BY <1>1, <1>2

\* The changes from outside keep a file a file.
LEMMA WithoutFacts ==
  ASSUME NEW f \in Seq(Records), NEW i \in 1..(Len(f) - 1)
  PROVE  /\ Without(f, i) \in Seq(Records)
         /\ Len(Without(f, i)) = Len(f) - 1
         /\ Without(f, i)[i] = f[i + 1]
<1>. DEFINE a == SubSeq(f, 1, i - 1)
            b == SubSeq(f, i + 1, Len(f))
<1>1. Len(f) \in Nat /\ i \in Int /\ i - 1 \in Int /\ i + 1 \in Int
  BY LenProperties
<1>2. a \in Seq(Records) /\ Len(a) = i - 1
  <2>1. \A k \in 1..(i - 1) : f[k] \in Records
    BY <1>1, RecordFields
  <2>2. Len(a) = (IF 1 <= i - 1 THEN (i - 1) - 1 + 1 ELSE 0) /\ a \in Seq(Records)
    BY <1>1, <2>1, SubSeqProperties
  <2>. QED  BY <1>1, <2>2
<1>3. /\ b \in Seq(Records) /\ Len(b) = Len(f) - i /\ b[1] = f[i + 1]
  <2>1. \A k \in (i + 1)..Len(f) : f[k] \in Records
    BY <1>1, RecordFields
  <2>2. /\ b \in Seq(Records)
        /\ Len(b) = (IF i + 1 <= Len(f) THEN Len(f) - (i + 1) + 1 ELSE 0)
        /\ \A k \in 1..(Len(f) - (i + 1) + 1) : b[k] = f[(i + 1) + k - 1]
    BY <1>1, <2>1, SubSeqProperties
  <2>3. 1 \in 1..(Len(f) - (i + 1) + 1) /\ (i + 1) + 1 - 1 = i + 1
    BY <1>1
  <2>4. b[1] = f[(i + 1) + 1 - 1]
    BY <2>2, <2>3
  <2>. QED  BY <1>1, <2>2, <2>3, <2>4
<1>4. /\ a \o b \in Seq(Records)
      /\ Len(a \o b) = Len(a) + Len(b)
      /\ \A k \in 1..(Len(a) + Len(b)) :
           (a \o b)[k] = IF k <= Len(a) THEN a[k] ELSE b[k - Len(a)]
  BY <1>2, <1>3, ConcatProperties
<1>5. i \in 1..(Len(a) + Len(b)) /\ ~(i <= Len(a)) /\ i - Len(a) = 1
  BY <1>1, <1>2, <1>3
<1>6. (a \o b)[i] = b[1]
  BY <1>4, <1>5
<1>7. Without(f, i) = a \o b
  BY DEF Without
<1>8. Len(a) + Len(b) = Len(f) - 1
  BY <1>1, <1>2, <1>3
<1>. QED  BY <1>3, <1>4, <1>6, <1>7, <1>8, Zenon

LEMMA ReorderFacts ==
  ASSUME NEW f \in Seq(Records), NEW i \in 1..Len(f), NEW j \in 1..Len(f)
  PROVE  LET g == [f EXCEPT ![i] = f[j], ![j] = f[i]] IN
         /\ g \in Seq(Records) /\ Len(g) = Len(f) /\ g[j] = f[i]
         /\ i = j => g = f
<1>. DEFINE h == [f EXCEPT ![i] = f[j]]
            g == [h EXCEPT ![j] = f[i]]
<1>1. f[i] \in Records /\ f[j] \in Records
  BY RecordFields
<1>2. h \in Seq(Records) /\ Len(h) = Len(f)
  BY <1>1, ExceptSeq
<1>3. g \in Seq(Records) /\ Len(g) = Len(h) /\ g[j] = f[i]
  BY <1>1, <1>2, ExceptSeq
<1>4. i = j => g = f
  BY LenProperties
<1>5. g = [f EXCEPT ![i] = f[j], ![j] = f[i]]
  OBVIOUS
<1>. QED  BY <1>2, <1>3, <1>4, <1>5

LEMMA TamperFacts ==
  ASSUME NEW f \in Seq(Records), NEW i \in 1..Len(f)
  PROVE  LET g == [f EXCEPT ![i].event = Forged] IN
         /\ g \in Seq(Records) /\ Len(g) = Len(f)
         /\ g[i] = [f[i] EXCEPT !.event = Forged]
         /\ f[i].event = Forged => g = f
<1>. DEFINE r == [f[i] EXCEPT !.event = Forged]
            g == [f EXCEPT ![i] = r]
<1>1. f[i] \in Records /\ r \in Records
  <2>1. f[i] \in Records
    BY RecordFields
  <2>. QED  BY <2>1 DEF Records, Forged
<1>2. g \in Seq(Records) /\ Len(g) = Len(f) /\ g[i] = r
  BY <1>1, ExceptSeq
<1>3. f[i].event = Forged => r = f[i]
  BY <1>1 DEF Records
<1>4. f[i].event = Forged => g = f
  BY <1>3, LenProperties
<1>5. g = [f EXCEPT ![i].event = Forged]
  OBVIOUS
<1>. QED  BY <1>2, <1>4, <1>5

\* Every record from i on, hashed again over a changed event.
LEMMA RewriteType == ASSUME NEW f \in Seq(Records) PROVE Rewrite(f) \subseteq Seq(Records)
<1>. DEFINE changed(i) == [f EXCEPT ![i].event = Forged]
            rehash(i, j) == f[i].prev \o [k \in 1..(j - i + 1) |-> changed(i)[i + k - 1].event]
            rechain(i) ==
              [j \in DOMAIN f |->
                 IF j < i THEN f[j]
                 ELSE [changed(i)[j] EXCEPT !.prev = rehash(i, j - 1), !.hash = rehash(i, j)]]
<1>1. Len(f) \in Nat /\ DOMAIN f = 1..Len(f)
  BY LenProperties
<1>2. ASSUME NEW i \in 1..Len(f) PROVE rechain(i) \in Seq(Records)
  <2>1. changed(i) \in Seq(Records) /\ Len(changed(i)) = Len(f)
    BY TamperFacts
  <2>. HIDE DEF changed
  <2>2. ASSUME NEW j \in (i - 1)..Len(f) PROVE rehash(i, j) \in Seq(Nat)
    <3>. DEFINE m == j - i + 1
                s == [k \in 1..m |-> changed(i)[i + k - 1].event]
    <3>1. m \in Nat
      BY <1>1
    <3>2. ASSUME NEW k \in 1..m PROVE changed(i)[i + k - 1].event \in Nat
      <4>1. i + k - 1 \in 1..Len(changed(i))
        BY <1>1, <2>1
      <4>. QED  BY <2>1, <4>1, RecordFields
    <3>3. s \in [1..m -> Nat]
      BY <3>2
    <3>. HIDE DEF s, m
    <3>4. s \in Seq(Nat)
      BY <3>1, <3>3, FunctionIsSeq
    <3>5. f[i].prev \in Seq(Nat)
      BY RecordFields
    <3>6. f[i].prev \o s \in Seq(Nat)
      BY <3>4, <3>5, ConcatProperties
    <3>. QED  BY <3>6 DEF s, m
  <2>. HIDE DEF rehash
  <2>3. ASSUME NEW j \in 1..Len(f) PROVE rechain(i)[j] \in Records
    <3>1. CASE j < i
      BY <1>1, <3>1, RecordFields
    <3>2. CASE ~(j < i)
      <4>1. j \in (i - 1)..Len(f) /\ j - 1 \in (i - 1)..Len(f)
        BY <1>1, <3>2
      <4>2. rehash(i, j) \in Seq(Nat) /\ rehash(i, j - 1) \in Seq(Nat)
        BY <2>2, <4>1
      <4>3. changed(i)[j] \in Records
        BY <2>1, RecordFields
      <4>4. [changed(i)[j] EXCEPT !.prev = rehash(i, j - 1), !.hash = rehash(i, j)] \in Records
        BY <4>2, <4>3 DEF Records
      <4>. QED  BY <1>1, <3>2, <4>4
    <3>. QED  BY <3>1, <3>2
  <2>4. rechain(i) \in [1..Len(f) -> Records]
    <3>1. rechain(i) = [j \in 1..Len(f) |-> rechain(i)[j]]
      BY <1>1
    <3>. QED  BY <2>3, <3>1
  <2>. HIDE DEF rechain
  <2>. QED  BY <1>1, <2>4, FunctionIsSeq
<1>3. Rewrite(f) = {rechain(i) : i \in DOMAIN f}
  BY DEF Rewrite
<1>. HIDE DEF rechain
<1>. QED  BY <1>1, <1>2, <1>3

LEMMA EditType ==
  ASSUME NEW f \in Seq(Records),
         NEW g \in DeleteMiddle(f) \cup TruncateTail(f) \cup Reorder(f)
                    \cup Tamper(f) \cup Rewrite(f)
  PROVE  g \in Seq(Records)
<1>1. Len(f) \in Nat /\ DOMAIN f = 1..Len(f)
  BY LenProperties
<1>2. CASE g \in DeleteMiddle(f)
  BY <1>2, WithoutFacts DEF DeleteMiddle
<1>3. CASE g \in TruncateTail(f)
  <2>1. PICK i \in 0..(Len(f) - 1) : g = SubSeq(f, 1, i)
    BY <1>3 DEF TruncateTail
  <2>2. \A k \in 1..i : f[k] \in Records
    BY <1>1, RecordFields
  <2>. QED  BY <2>1, <2>2, SubSeqProperties
<1>4. CASE g \in Reorder(f)
  BY <1>1, <1>4, ReorderFacts DEF Reorder
<1>5. CASE g \in Tamper(f)
  BY <1>1, <1>5, TamperFacts DEF Tamper
<1>6. CASE g \in Rewrite(f)
  BY <1>6, RewriteType
<1>. QED  BY <1>2, <1>3, <1>4, <1>5, <1>6

LEMMA TypesStep ==
  ASSUME ChainTypes, [Next]_vars
  PROVE  ChainTypes'
<1>. USE DEF ChainTypes
<1>1. ASSUME NEW p \in Processes, Open(p) PROVE ChainTypes'
  BY <1>1, LastHashType DEF Open
<1>2. ASSUME NEW p \in Processes, Close(p) PROVE ChainTypes'
  BY <1>2 DEF Close
<1>3. ASSUME NEW p \in Processes, EmitLine(p) PROVE ChainTypes'
  <2>1. Record(last[p], emits') \in Records /\ emits' \in Nat
    BY <1>3, RecordType DEF EmitLine
  <2>2. Record(last[p], emits').hash \in Seq(Nat)
    BY <2>1 DEF Records
  <2>3. file' \in Seq(Records) /\ acked' \in Seq(Nat)
    BY <1>3, <2>1, GlueType, AppendProperties DEF EmitLine
  <2>. QED  BY <1>3, <2>1, <2>2, <2>3 DEF EmitLine
<1>4. ASSUME NEW p \in Processes, TornEmit(p) PROVE ChainTypes'
  <2>1. Record(last[p], emits') \in Records /\ emits' \in Nat
    BY <1>4, RecordType DEF TornEmit
  <2>2. \A whole \in BOOLEAN :
          [Record(last[p], emits') EXCEPT !.parses = whole, !.ended = FALSE] \in Records
    BY <2>1 DEF Records
  <2>3. file' \in Seq(Records)
    BY <1>4, <2>2, GlueType DEF TornEmit
  <2>. QED  BY <1>4, <2>1, <2>3 DEF TornEmit
<1>5. ASSUME NEW p \in Processes, SelectLast(p) PROVE ChainTypes'
  BY <1>5, LastHashType DEF SelectLast
<1>6. ASSUME NEW p \in Processes, InsertRow(p) PROVE ChainTypes'
  <2>1. Record(last[p], emits') \in Records /\ emits' \in Nat
    BY <1>6, RecordType DEF InsertRow
  <2>2. file' \in Seq(Records) /\ acked' \in Seq(Nat)
    BY <1>6, <2>1, AppendProperties DEF InsertRow
  <2>. QED  BY <1>6, <2>1, <2>2 DEF InsertRow
<1>7. ASSUME NEW p \in Processes, InsertFails(p) PROVE ChainTypes'
  BY <1>7 DEF InsertFails
<1>8. CASE CreateCheckpoint
  <2>1. Len(file) \in Nat /\ (Len(file) = 0 => LastHash(file) = NoHash)
    BY LenProperties, EmptySeq DEF LastHash
  <2>. QED  BY <1>8, <2>1 DEF CreateCheckpoint
<1>9. CASE EditFile
  BY <1>9, EditType DEF EditFile
<1>10. CASE UNCHANGED vars
  BY <1>10 DEF vars
<1>. QED  BY <1>1, <1>2, <1>3, <1>4, <1>5, <1>6, <1>7, <1>8, <1>9, <1>10 DEF Next

LEMMA TypesInit == Init => ChainTypes
<1>1. <<>> \in Seq(Records) /\ <<>> \in Seq(Nat)
  BY EmptySeq
<1>. SUFFICES ASSUME Init PROVE ChainTypes
  OBVIOUS
<1>2. backend \in {"jsonl", "sqlite"}
  BY BackendAssumption DEF Init
<1>3. file \in Seq(Records) /\ acked \in Seq(Nat)
  BY <1>1 DEF Init
<1>4. sink \in [Processes -> {"closed", "open", "insert"}]
  BY DEF Init
<1>5. last \in [Processes -> Seq(Nat)]
  BY <1>1 DEF Init, NoHash
<1>6. emits \in Nat /\ tears \in Nat /\ edits \in Nat /\ shared \in BOOLEAN
  BY DEF Init
<1>7. checkpoints = {}
  BY DEF Init
<1>. QED  BY <1>2, <1>3, <1>4, <1>5, <1>6, <1>7 DEF ChainTypes

\* Every reachable file is a sequence of records, whatever was done to it.
THEOREM TypesHold == Spec => []ChainTypes
BY TypesInit, TypesStep, PTL DEF Spec

-----------------------------------------------------------------------------
(***************************************************************************)
(* What a checkpoint vouches for, and what the chain alone detects.        *)
(***************************************************************************)
LEMMA WrittenPrefix ==
  ASSUME NEW f \in Seq(Records), NEW n \in 0..Len(f)
  PROVE  SubSeq(Written(f), 1, n) = UpTo(f, n)
<1>1. Len(f) \in Nat /\ DOMAIN f = 1..Len(f)
  BY LenProperties
<1>. DEFINE w == Written(f)
            s == SubSeq(w, 1, n)
<1>2. w \in [1..Len(f) -> Nat]
  BY <1>1, RecordFields DEF Written
<1>3. w \in Seq(Nat) /\ Len(w) = Len(f) /\ \A k \in 1..Len(f) : w[k] = f[k].event
  <2>1. \A k \in 1..Len(f) : w[k] = f[k].event
    BY <1>1 DEF Written
  <2>. HIDE DEF w
  <2>2. w \in Seq(Nat)
    BY <1>1, <1>2, FunctionIsSeq
  <2>. QED  BY <1>1, <1>2, <2>1, <2>2, LenProperties
<1>. HIDE DEF w
<1>4. /\ s \in Seq(Nat) /\ Len(s) = n
      /\ \A k \in 1..n : s[k] = w[k]
  <2>1. \A k \in 1..n : w[k] \in Nat
    BY <1>1, <1>2
  <2>. QED  BY <1>1, <1>3, <2>1, SubSeqProperties
<1>5. UpTo(f, n) \in Seq(Nat) /\ Len(UpTo(f, n)) = n
  BY UpToIsSeq
<1>6. \A k \in 1..n : s[k] = UpTo(f, n)[k]
  BY <1>1, <1>3, <1>4 DEF UpTo
<1>7. s = UpTo(f, n)
  BY <1>4, <1>5, <1>6, SeqEqual
<1>. QED  BY <1>7 DEF w

LEMMA CheckpointVouchesStep == ChainTypes => CheckpointVouches
<1>. SUFFICES ASSUME ChainTypes, NEW c \in checkpoints, Confirms(file, c)
              PROVE  SubSeq(Written(file), 1, c.count) = c.hash
  BY DEF CheckpointVouches
<1>1. /\ file \in Seq(Records) /\ Len(file) \in Nat
      /\ c.count \in Nat /\ (c.count = 0 => c.hash = <<>>)
      /\ Verifies(file) /\ Len(file) >= c.count
      /\ c.count > 0 => file[c.count].hash = c.hash
  BY LenProperties DEF ChainTypes, Confirms, NoHash
<1>2. c.count \in 0..Len(file)
  BY <1>1
<1>3. SubSeq(Written(file), 1, c.count) = UpTo(file, c.count)
  BY <1>1, <1>2, WrittenPrefix
<1>4. CASE c.count = 0
  <2>1. UpTo(file, c.count) \in Seq(Nat) /\ Len(UpTo(file, c.count)) = 0
    BY <1>1, <1>2, <1>4, UpToIsSeq
  <2>2. UpTo(file, c.count) = <<>>
    BY <2>1, EmptySeq
  <2>. QED  BY <1>1, <1>3, <1>4, <2>2
<1>5. CASE c.count # 0
  <2>1. c.count \in 1..Len(file) /\ c.count > 0
    BY <1>1, <1>2, <1>5
  <2>2. file[c.count].hash = UpTo(file, c.count)
    BY <1>1, <2>1, ChainTells
  <2>. QED  BY <1>1, <1>3, <2>1, <2>2
<1>. QED  BY <1>4, <1>5

\* However the log was written, torn or changed, a checkpoint it confirms was
\* made over the events it now begins with.
THEOREM CheckpointVouchesHolds == Spec => []CheckpointVouches
BY TypesHold, CheckpointVouchesStep, PTL

LEMMA EditSeen ==
  ASSUME NEW f \in Seq(Records), Verifies(f),
         NEW g \in DeleteMiddle(f) \cup Reorder(f) \cup Tamper(f),
         Verifies(g)
  PROVE  g = f
<1>1. Len(f) \in Nat /\ DOMAIN f = 1..Len(f)
  BY LenProperties
<1>2. CASE g \in DeleteMiddle(f)
  <2>1. PICK i \in 1..(Len(f) - 1) : g = Without(f, i)
    BY <1>2 DEF DeleteMiddle
  <2>2. /\ g \in Seq(Records) /\ Len(g) = Len(f) - 1 /\ g[i] = f[i + 1]
    BY <2>1, WithoutFacts
  <2>3. i \in 1..Len(g) /\ i + 1 \in 1..Len(f)
    BY <1>1, <2>2
  <2>4. Len(g[i].hash) = i
    BY <2>2, <2>3, HashPlace
  <2>5. Len(f[i + 1].hash) = i + 1
    BY <2>3, HashPlace
  <2>. QED  BY <2>2, <2>4, <2>5
<1>3. CASE g \in Reorder(f)
  <2>1. PICK i \in 1..Len(f), j \in 1..Len(f) : g = [f EXCEPT ![i] = f[j], ![j] = f[i]]
    BY <1>1, <1>3 DEF Reorder
  <2>2. /\ g \in Seq(Records) /\ Len(g) = Len(f) /\ g[j] = f[i]
        /\ i = j => g = f
    BY <2>1, ReorderFacts
  <2>3. Len(g[j].hash) = j
    BY <2>2, HashPlace
  <2>4. Len(f[i].hash) = i
    BY HashPlace
  <2>. QED  BY <2>2, <2>3, <2>4
<1>4. CASE g \in Tamper(f)
  <2>1. PICK i \in 1..Len(f) : g = [f EXCEPT ![i].event = Forged]
    BY <1>1, <1>4 DEF Tamper
  <2>2. /\ g \in Seq(Records) /\ Len(g) = Len(f)
        /\ g[i] = [f[i] EXCEPT !.event = Forged]
        /\ f[i].event = Forged => g = f
    BY <2>1, TamperFacts
  <2>3. f[i] \in Records /\ f[i].prev \in Seq(Nat) /\ f[i].event \in Nat
    BY RecordFields
  <2>4. g[i].prev = f[i].prev /\ g[i].hash = f[i].hash /\ g[i].event = Forged
    BY <2>2, <2>3 DEF Records
  <2>5. f[i].hash = Append(f[i].prev, f[i].event)
    BY <1>1 DEF Verifies, Hash
  <2>6. g[i].hash = Append(g[i].prev, Forged)
    <3>1. DOMAIN g = 1..Len(f)
      BY <2>2, LenProperties
    <3>. QED  BY <2>4, <3>1 DEF Verifies, Hash
  <2>7. f[i].event = Forged
    <3>1. Append(f[i].prev, f[i].event)[Len(f[i].prev) + 1] = f[i].event
      BY <2>3, AppendProperties
    <3>2. Append(f[i].prev, Forged)[Len(f[i].prev) + 1] = Forged
      BY <2>3, AppendProperties DEF Forged
    <3>. QED  BY <2>4, <2>5, <2>6, <3>1, <3>2
  <2>. QED  BY <2>2, <2>7
<1>. QED  BY <1>2, <1>3, <1>4

\* A changed record, a removed one or two swapped: a log that verified does not
\* verify after, wherever in the log it happened.
THEOREM EditsDetectedHolds == Spec => EditsDetected
<1>1. ChainTypes => ( /\ edits' # edits /\ file' # file /\ Verifies(file)
                      /\ file' \in DeleteMiddle(file) \cup Reorder(file) \cup Tamper(file)
                      => ~Verifies(file') )
  BY EditSeen DEF ChainTypes
<1>. QED  BY <1>1, TypesHold, PTL DEF EditsDetected

-----------------------------------------------------------------------------
(***************************************************************************)
(* Sinks used in turns make the log AuditLog describes.                    *)
(***************************************************************************)
Ended(f) == \A i \in DOMAIN f : f[i].ended

\* What holds while the log is undisturbed: at most one sink is not closed, and
\* one about to write chains to the end of the file.
TurnInv ==
  /\ \A p \in Processes : sink[p] = "insert" => backend = "sqlite"
  /\ Undisturbed =>
       /\ Verifies(file) /\ Ended(file)
       /\ \A p, q \in Processes : sink[p] # "closed" /\ sink[q] # "closed" => p = q
       /\ \A p \in Processes :
            sink[p] = "insert" \/ (sink[p] = "open" /\ backend = "jsonl")
              => last[p] = LastHash(file)
       /\ \A c \in checkpoints : Confirms(file, c)

\* A record that chains to the end of the file.
LEMMA Extends ==
  ASSUME NEW f \in Seq(Records), Verifies(f), Ended(f), NEW e \in Nat
  PROVE  LET g == Append(f, Record(LastHash(f), e)) IN
         /\ Glue(f, Record(LastHash(f), e)) = g
         /\ Verifies(g) /\ Ended(g)
         /\ LastHash(g) = Append(LastHash(f), e)
         /\ \A c : c.count \in Nat /\ Confirms(f, c) => Confirms(g, c)
<1>. DEFINE r == Record(LastHash(f), e)
            g == Append(f, r)
            n == Len(f)
<1>1. n \in Nat /\ DOMAIN f = 1..n
  BY LenProperties
<1>2. /\ r \in Records /\ r.prev = LastHash(f) /\ r.event = e
      /\ r.hash = Append(LastHash(f), e) /\ r.parses /\ r.ended
  BY LastHashType, RecordType DEF Record, Hash
<1>. HIDE DEF r
<1>3. /\ g \in Seq(Records) /\ g # <<>> /\ Len(g) = n + 1
      /\ \A i \in 1..n : g[i] = f[i]
      /\ g[n + 1] = r
  BY <1>2, AppendProperties
<1>4. DOMAIN g = 1..(n + 1)
  BY <1>3, LenProperties
<1>. HIDE DEF g
<1>5. f # <<>> => ~(~f[Len(f)].ended)
  BY <1>1, EmptySeq DEF Ended
<1>6. Glue(f, r) = g
  BY <1>5 DEF Glue, g
<1>7. ASSUME NEW i \in 1..(n + 1)
      PROVE  /\ g[i].parses /\ g[i].ended
             /\ g[i].prev = IF i = 1 THEN NoHash ELSE g[i - 1].hash
             /\ g[i].hash = Hash(g[i].prev, g[i].event)
  <2>1. CASE i \in 1..n
    <3>1. g[i] = f[i]
      BY <1>3, <2>1
    <3>2. i # 1 => i - 1 \in 1..n
      BY <1>1, <2>1
    <3>3. i # 1 => g[i - 1] = f[i - 1]
      BY <1>3, <3>2
    <3>. QED  BY <1>1, <2>1, <3>1, <3>3 DEF Verifies, Parses, Ended
  <2>2. CASE i = n + 1
    <3>1. g[i] = r
      BY <1>3, <2>2
    <3>2. LastHash(f) = IF i = 1 THEN NoHash ELSE g[i - 1].hash
      <4>1. CASE n = 0
        <5>1. f = <<>>
          BY <4>1, EmptySeq
        <5>. QED  BY <2>2, <4>1, <5>1 DEF LastHash
      <4>2. CASE n # 0
        <5>1. f # <<>> /\ i # 1 /\ i - 1 = n /\ n \in 1..n
          BY <1>1, <2>2, <4>2, EmptySeq
        <5>. QED  BY <1>3, <5>1 DEF LastHash
      <4>. QED  BY <4>1, <4>2
    <3>. QED  BY <1>2, <3>1, <3>2 DEF Hash
  <2>. QED  BY <1>1, <2>1, <2>2
<1>8. Verifies(g) /\ Ended(g)
  BY <1>4, <1>7 DEF Verifies, Parses, Ended
<1>9. LastHash(g) = Append(LastHash(f), e)
  BY <1>2, <1>3 DEF LastHash
<1>10. ASSUME NEW c, c.count \in Nat, Confirms(f, c) PROVE Confirms(g, c)
  <2>1. Len(f) >= c.count /\ (c.count > 0 => f[c.count].hash = c.hash)
    BY <1>10 DEF Confirms
  <2>2. Len(g) >= c.count
    BY <1>1, <1>3, <1>10, <2>1
  <2>3. c.count > 0 => g[c.count].hash = c.hash
    BY <1>1, <1>3, <1>10, <2>1
  <2>. QED  BY <1>8, <2>2, <2>3 DEF Confirms
<1>. QED  BY <1>6, <1>8, <1>9, <1>10 DEF g, r

LEMMA TurnInit == Init => TurnInv
<1>. SUFFICES ASSUME Init PROVE TurnInv
  OBVIOUS
<1>1. /\ \A p \in Processes : sink[p] = "closed"
      /\ file = <<>> /\ DOMAIN file = {} /\ checkpoints = {}
  BY DEF Init
<1>2. Verifies(file) /\ Ended(file)
  BY <1>1 DEF Verifies, Parses, Ended
<1>. QED  BY <1>1, <1>2 DEF TurnInv

LEMMA UndisturbedBefore ==
  ASSUME ChainTypes, [Next]_vars, Undisturbed'
  PROVE  Undisturbed /\ ~EditFile /\ \A p \in Processes : ~TornEmit(p)
<1>1. /\ edits \in Nat /\ tears \in Nat /\ shared \in BOOLEAN
      /\ ~shared' /\ edits' = 0 /\ tears' = 0
  BY DEF ChainTypes, Undisturbed
<1>2. ~EditFile
  BY <1>1 DEF EditFile
<1>3. ASSUME NEW p \in Processes, TornEmit(p) PROVE FALSE
  <2>1. tears' = tears + 1
    BY <1>3, Zenon DEF TornEmit
  <2>. QED  BY <1>1, <2>1
<1>4. ASSUME NEW p \in Processes, Open(p) PROVE Undisturbed
  <2>1. edits = 0 /\ tears = 0
    BY <1>1, <1>4 DEF Open
  <2>2. ~shared
    BY <1>1, <1>4, Zenon DEF Open
  <2>. QED  BY <2>1, <2>2 DEF Undisturbed
<1>5. ASSUME NEW p \in Processes,
             Close(p) \/ EmitLine(p) \/ SelectLast(p) \/ InsertRow(p) \/ InsertFails(p)
      PROVE Undisturbed
  BY <1>1, <1>5 DEF Undisturbed, Close, EmitLine, SelectLast, InsertRow, InsertFails
<1>6. ASSUME CreateCheckpoint \/ UNCHANGED vars PROVE Undisturbed
  <2>1. edits' = edits /\ tears' = tears /\ shared' = shared
    BY <1>6, Zenon DEF CreateCheckpoint, vars
  <2>. QED  BY <1>1, <2>1 DEF Undisturbed
<1>. QED  BY <1>2, <1>3, <1>4, <1>5, <1>6, Zenon DEF Next

\* Both writes, by the only sink there is.
LEMMA WrittenInTurn ==
  ASSUME ChainTypes, TurnInv, Undisturbed, NEW p \in Processes,
         EmitLine(p) \/ InsertRow(p)
  PROVE  /\ emits' \in Nat /\ emits' \in 1..MaxEvents
         /\ file' \in Seq(Records)
         /\ Verifies(file') /\ Ended(file')
         /\ LastHash(file') = Append(LastHash(file), emits')
         /\ checkpoints' = checkpoints /\ shared' = shared
         /\ \A c \in checkpoints : Confirms(file', c)
<1>1. emits' \in Nat /\ emits' \in 1..MaxEvents
  BY BackendAssumption DEF ChainTypes, EmitLine, InsertRow
<1>2. file \in Seq(Records) /\ Verifies(file) /\ Ended(file)
  BY DEF ChainTypes, TurnInv
<1>3. last[p] = LastHash(file)
  BY DEF TurnInv, EmitLine, InsertRow
<1>. DEFINE r == Record(LastHash(file), emits')
            g == Append(file, r)
<1>4. /\ Glue(file, r) = g
      /\ Verifies(g) /\ Ended(g)
      /\ LastHash(g) = Append(LastHash(file), emits')
      /\ \A c : c.count \in Nat /\ Confirms(file, c) => Confirms(g, c)
  BY <1>1, <1>2, Extends
<1>5. file' = g
  BY <1>3, <1>4 DEF EmitLine, InsertRow
<1>6. g \in Seq(Records)
  BY <1>1, <1>2, LastHashType, RecordType, AppendProperties
<1>. HIDE DEF g
<1>7. checkpoints' = checkpoints /\ shared' = shared
  BY DEF EmitLine, InsertRow
<1>8. \A c \in checkpoints : c.count \in Nat /\ Confirms(file, c)
  BY DEF ChainTypes, TurnInv
<1>. QED  BY <1>1, <1>4, <1>5, <1>6, <1>7, <1>8

LEMMA CheckpointConfirmed ==
  ASSUME NEW f \in Seq(Records), Verifies(f)
  PROVE  Confirms(f, [count |-> Len(f), hash |-> LastHash(f)])
<1>1. Len(f) \in Nat /\ (Len(f) > 0 => f # <<>>)
  BY LenProperties, EmptySeq
<1>. QED  BY <1>1 DEF Confirms, LastHash

LEMMA TurnStep ==
  ASSUME ChainTypes, TurnInv, [Next]_vars
  PROVE  TurnInv'
<1>. DEFINE Inserting == \A p \in Processes : sink[p] = "insert" => backend = "sqlite"
            Turns ==
              /\ Verifies(file) /\ Ended(file)
              /\ \A p, q \in Processes : sink[p] # "closed" /\ sink[q] # "closed" => p = q
              /\ \A p \in Processes :
                   sink[p] = "insert" \/ (sink[p] = "open" /\ backend = "jsonl")
                     => last[p] = LastHash(file)
              /\ \A c \in checkpoints : Confirms(file, c)
<1>1. Inserting'
  BY DEF TurnInv, ChainTypes, Next, vars, Open, Close, EmitLine, TornEmit,
         SelectLast, InsertRow, InsertFails, CreateCheckpoint, EditFile
<1>2. ASSUME Undisturbed' PROVE Turns'
  <2>1. /\ Undisturbed /\ ~EditFile /\ \A p \in Processes : ~TornEmit(p)
    BY <1>2, UndisturbedBefore
  <2>2. Turns
    BY <2>1 DEF TurnInv
  <2>3. ASSUME NEW p \in Processes, Open(p) PROVE Turns'
    BY <1>2, <2>2, <2>3 DEF Open, ChainTypes, Undisturbed
  <2>4. ASSUME NEW p \in Processes, Close(p) PROVE Turns'
    BY <2>2, <2>4 DEF Close, ChainTypes
  <2>5. ASSUME NEW p \in Processes, EmitLine(p) PROVE Turns'
    <3>1. /\ Verifies(file') /\ Ended(file')
          /\ LastHash(file') = Append(LastHash(file), emits')
          /\ checkpoints' = checkpoints
          /\ \A c \in checkpoints : Confirms(file', c)
      BY <2>1, <2>5, WrittenInTurn
    <3>2. last' = [last EXCEPT ![p] = Append(last[p], emits')]
      BY <2>5 DEF EmitLine, Record, Hash
    <3>3. last[p] = LastHash(file) /\ sink' = sink /\ backend' = backend
          /\ sink[p] = "open"
      BY <2>2, <2>5 DEF EmitLine
    <3>. QED  BY <2>2, <3>1, <3>2, <3>3 DEF ChainTypes
  <2>6. ASSUME NEW p \in Processes, SelectLast(p) PROVE Turns'
    BY <2>2, <2>6 DEF SelectLast, ChainTypes
  <2>7. ASSUME NEW p \in Processes, InsertRow(p) PROVE Turns'
    <3>1. /\ Verifies(file') /\ Ended(file')
          /\ checkpoints' = checkpoints
          /\ \A c \in checkpoints : Confirms(file', c)
      BY <2>1, <2>7, WrittenInTurn
    <3>2. /\ sink[p] = "insert" /\ sink' = [sink EXCEPT ![p] = "open"]
          /\ last' = last /\ backend' = backend /\ backend # "jsonl"
      BY <2>7 DEF InsertRow, TurnInv
    <3>3. \A q \in Processes : sink'[q] # "closed" => q = p
      BY <2>2, <3>2 DEF ChainTypes
    <3>. QED  BY <3>1, <3>2, <3>3 DEF ChainTypes
  <2>8. ASSUME NEW p \in Processes, InsertFails(p) PROVE Turns'
    <3>1. backend # "jsonl"
      BY <2>8 DEF InsertFails, TurnInv
    <3>. QED  BY <2>2, <2>8, <3>1 DEF InsertFails, ChainTypes
  <2>9. CASE CreateCheckpoint
    <3>1. Confirms(file, [count |-> Len(file), hash |-> LastHash(file)])
      BY <2>2, CheckpointConfirmed DEF ChainTypes
    <3>. QED  BY <2>2, <2>9, <3>1 DEF CreateCheckpoint
  <2>10. CASE UNCHANGED vars
    BY <2>2, <2>10 DEF vars
  <2>. QED  BY <2>1, <2>3, <2>4, <2>5, <2>6, <2>7, <2>8, <2>9, <2>10 DEF Next
<1>. QED  BY <1>1, <1>2 DEF TurnInv

\* What TurnInv says of sinks used in turns holds throughout.
THEOREM TurnsHold == Spec => []TurnInv
<1>1. ChainTypes /\ TurnInv /\ [Next]_vars => TurnInv'
  BY TurnStep
<1>. QED  BY <1>1, TurnInit, TypesHold, PTL DEF Spec

\* While sinks are used in turns every checkpoint stays confirmed, however far
\* the log grows.
THEOREM CheckpointsLastHolds == Spec => []CheckpointsLast
<1>1. TurnInv => CheckpointsLast
  BY DEF TurnInv, CheckpointsLast
<1>. QED  BY <1>1, TurnsHold, PTL

LEMMA LogStep ==
  ASSUME ChainTypes, TurnInv, [Next]_vars, Undisturbed'
  PROVE  Log!Next \/ UNCHANGED <<Covered, Vouched>>
<1>1. /\ Undisturbed /\ ~EditFile /\ \A p \in Processes : ~TornEmit(p)
  BY UndisturbedBefore
<1>2. ASSUME NEW p \in Processes, EmitLine(p) \/ InsertRow(p) PROVE Log!Next
  <2>1. /\ emits' \in 1..MaxEvents
        /\ LastHash(file') = Append(LastHash(file), emits')
        /\ checkpoints' = checkpoints
    BY <1>1, <1>2, WrittenInTurn
  <2>2. Log!Record(emits')
    BY <2>1 DEF Log!Record, Covered, Vouched
  <2>. QED  BY <2>1, <2>2 DEF Log!Next
<1>3. CASE CreateCheckpoint
  <2>1. Vouched' = Vouched \cup {Covered}
    <3>. DEFINE new == [count |-> Len(file), hash |-> LastHash(file)]
    <3>1. checkpoints' = checkpoints \cup {new}
      BY <1>3 DEF CreateCheckpoint
    <3>2. new.hash = LastHash(file)
      OBVIOUS
    <3>. HIDE DEF new
    <3>3. {c.hash : c \in checkpoints \cup {new}} = {c.hash : c \in checkpoints} \cup {new.hash}
      OBVIOUS
    <3>. QED  BY <3>1, <3>2, <3>3 DEF Vouched, Covered
  <2>2. Covered' = Covered
    BY <1>3 DEF CreateCheckpoint, Covered
  <2>. QED  BY <2>1, <2>2 DEF Log!Next, Log!Vouch
<1>4. ASSUME file' = file, checkpoints' = checkpoints
      PROVE  UNCHANGED <<Covered, Vouched>>
  BY <1>4 DEF Covered, Vouched
<1>5. ASSUME NEW p \in Processes,
             Open(p) \/ Close(p) \/ SelectLast(p) \/ InsertFails(p)
      PROVE  UNCHANGED <<Covered, Vouched>>
  BY <1>4, <1>5 DEF Open, Close, SelectLast, InsertFails
<1>6. CASE UNCHANGED vars
  BY <1>4, <1>6 DEF vars
<1>. QED  BY <1>1, <1>2, <1>3, <1>5, <1>6 DEF Next

\* Every step of undisturbed sinks is a step of the log AuditLog promises.
THEOREM AuditLogImplemented == Spec => IsAuditLog
<1>1. Init => Log!Init
  BY DEF Init, Log!Init, Covered, Vouched, LastHash, NoHash
<1>2. ChainTypes /\ TurnInv /\ [Next]_vars
        => (Undisturbed' => Log!Next \/ UNCHANGED <<Covered, Vouched>>)
  BY LogStep
<1>. QED  BY <1>1, <1>2, TypesHold, TurnsHold, PTL DEF Spec, IsAuditLog

-----------------------------------------------------------------------------
(***************************************************************************)
(* Nothing a sink acknowledged is missing from a log that verifies.        *)
(***************************************************************************)
\* The events of f are numbered upwards, n at most.
Rising(f, n) ==
  /\ \A i, j \in DOMAIN f : i < j => f[i].event < f[j].event
  /\ \A i \in DOMAIN f : f[i].event <= n

\* Once a write has gone into the middle of a line the file never parses again;
\* until then each write has added its record.
KeptInv ==
  /\ \A i, j \in DOMAIN acked : i < j => acked[i] < acked[j]
  /\ \A i \in DOMAIN acked : acked[i] <= emits
  /\ edits = 0 /\ Parses(file) =>
       /\ Rising(file, emits)
       /\ \A i \in DOMAIN acked : \E k \in DOMAIN file : file[k].event = acked[i]

\* A write that leaves a file that parses has appended its record.
LEMMA Grown ==
  ASSUME NEW f \in Seq(Records), NEW r \in Records, NEW n \in Nat, r.event = n + 1,
         NEW g, g = Glue(f, r) \/ g = Append(f, r), Parses(g)
  PROVE  /\ Parses(f)
         /\ Rising(f, n) => Rising(g, n + 1)
         /\ DOMAIN f \subseteq DOMAIN g
         /\ \A k \in DOMAIN f : g[k] = f[k]
         /\ Len(f) + 1 \in DOMAIN g /\ g[Len(f) + 1].event = n + 1
<1>1. Len(f) \in Nat /\ DOMAIN f = 1..Len(f)
  BY LenProperties
<1>2. g = Append(f, r)
  <2>1. SUFFICES ASSUME f # <<>>, ~f[Len(f)].ended, g = Glue(f, r) PROVE FALSE
    BY DEF Glue
  <2>2. Len(f) \in DOMAIN f
    BY <1>1, <2>1, EmptySeq
  <2>3. f[Len(f)] \in Records
    BY <1>1, <2>2, RecordFields
  <2>4. g = [f EXCEPT ![Len(f)] = [f[Len(f)] EXCEPT !.parses = FALSE, !.ended = r.ended]]
    BY <2>1, <2>2, <2>3 DEF Glue
  <2>5. g[Len(f)].parses = FALSE /\ Len(f) \in DOMAIN g
    BY <2>2, <2>3, <2>4 DEF Records
  <2>. QED  BY <2>5 DEF Parses
<1>3. /\ g \in Seq(Records) /\ Len(g) = Len(f) + 1
      /\ \A k \in 1..Len(f) : g[k] = f[k]
      /\ g[Len(f) + 1] = r
  BY <1>2, AppendProperties
<1>4. DOMAIN g = 1..(Len(f) + 1)
  BY <1>3, LenProperties
<1>5. Parses(f)
  BY <1>1, <1>3, <1>4 DEF Parses
<1>6. \A k \in 1..Len(f) : f[k].event \in Nat
  BY RecordFields
<1>7. ASSUME Rising(f, n) PROVE Rising(g, n + 1)
  <2>1. ASSUME NEW i \in DOMAIN g PROVE g[i].event <= n + 1
    <3>1. CASE i \in 1..Len(f)
      BY <1>1, <1>3, <1>6, <1>7, <3>1 DEF Rising
    <3>2. CASE i = Len(f) + 1
      BY <1>3, <3>2
    <3>. QED  BY <1>1, <1>4, <3>1, <3>2
  <2>2. ASSUME NEW i \in DOMAIN g, NEW j \in DOMAIN g, i < j
        PROVE  g[i].event < g[j].event
    <3>1. i \in 1..Len(f)
      BY <1>1, <1>4, <2>2
    <3>2. CASE j \in 1..Len(f)
      BY <1>1, <1>3, <1>7, <2>2, <3>1, <3>2 DEF Rising
    <3>3. CASE j = Len(f) + 1
      <4>1. g[i].event <= n /\ g[i].event \in Nat
        BY <1>1, <1>3, <1>6, <1>7, <3>1 DEF Rising
      <4>. QED  BY <1>3, <3>3, <4>1
    <3>. QED  BY <1>1, <1>4, <3>2, <3>3
  <2>. QED  BY <2>1, <2>2 DEF Rising
<1>. QED  BY <1>1, <1>3, <1>4, <1>5, <1>7

\* What a write that returns leaves of KeptInv.
LEMMA Acknowledged ==
  ASSUME ChainTypes, KeptInv, emits' = emits + 1, acked' = Append(acked, emits')
  PROVE  /\ DOMAIN acked' = 1..(Len(acked) + 1) /\ DOMAIN acked = 1..Len(acked)
         /\ Len(acked) \in Nat
         /\ \A i \in DOMAIN acked : acked'[i] = acked[i]
         /\ acked'[Len(acked) + 1] = emits'
         /\ \A i, j \in DOMAIN acked' : i < j => acked'[i] < acked'[j]
         /\ \A i \in DOMAIN acked' : acked'[i] <= emits'
<1>1. acked \in Seq(Nat) /\ emits \in Nat /\ emits' \in Nat
  BY DEF ChainTypes
<1>2. Len(acked) \in Nat /\ DOMAIN acked = 1..Len(acked)
  BY <1>1, LenProperties
<1>3. \A i \in 1..Len(acked) : acked[i] \in Nat /\ acked[i] <= emits
  <2>1. \A i \in 1..Len(acked) : acked[i] \in Nat
    BY <1>1, ElementOfSeq
  <2>. QED  BY <1>2, <2>1 DEF KeptInv
<1>4. /\ acked' \in Seq(Nat) /\ Len(acked') = Len(acked) + 1
      /\ \A i \in 1..Len(acked) : acked'[i] = acked[i]
      /\ acked'[Len(acked) + 1] = emits'
  BY <1>1, AppendProperties
<1>5. DOMAIN acked' = 1..(Len(acked) + 1)
  BY <1>4, LenProperties
<1>6. ASSUME NEW i \in DOMAIN acked' PROVE acked'[i] <= emits'
  BY <1>1, <1>2, <1>3, <1>4, <1>5
<1>7. ASSUME NEW i \in DOMAIN acked', NEW j \in DOMAIN acked', i < j
      PROVE  acked'[i] < acked'[j]
  <2>1. i \in 1..Len(acked)
    BY <1>2, <1>5, <1>7
  <2>2. CASE j \in 1..Len(acked)
    BY <1>2, <1>4, <1>7, <2>1, <2>2 DEF KeptInv
  <2>3. CASE j = Len(acked) + 1
    BY <1>1, <1>3, <1>4, <2>1, <2>3
  <2>. QED  BY <1>2, <1>5, <2>2, <2>3
<1>. QED  BY <1>2, <1>4, <1>5, <1>6, <1>7

LEMMA KeptStep ==
  ASSUME ChainTypes, KeptInv, [Next]_vars
  PROVE  KeptInv'
<1>0. file \in Seq(Records) /\ emits \in Nat
  BY DEF ChainTypes
<1>1. ASSUME NEW p \in Processes, EmitLine(p) \/ InsertRow(p) PROVE KeptInv'
  <2>1. emits' = emits + 1 /\ acked' = Append(acked, emits') /\ edits' = edits
    BY <1>1 DEF EmitLine, InsertRow
  <2>2. /\ DOMAIN acked' = 1..(Len(acked) + 1) /\ DOMAIN acked = 1..Len(acked)
        /\ Len(acked) \in Nat
        /\ \A i \in DOMAIN acked : acked'[i] = acked[i]
        /\ acked'[Len(acked) + 1] = emits'
        /\ \A i, j \in DOMAIN acked' : i < j => acked'[i] < acked'[j]
        /\ \A i \in DOMAIN acked' : acked'[i] <= emits'
    BY <2>1, Acknowledged
  <2>3. ASSUME edits' = 0, Parses(file')
        PROVE  /\ Rising(file', emits')
               /\ \A i \in DOMAIN acked' : \E k \in DOMAIN file' : file'[k].event = acked'[i]
    <3>. DEFINE r == Record(last[p], emits')
    <3>1. file' = Glue(file, r) \/ file' = Append(file, r)
      BY <1>1 DEF EmitLine, InsertRow
    <3>2. r \in Records /\ r.event = emits + 1
      BY <1>0, <2>1, RecordType DEF ChainTypes, Record
    <3>. HIDE DEF r
    <3>3. /\ Parses(file)
          /\ Rising(file, emits) => Rising(file', emits + 1)
          /\ DOMAIN file \subseteq DOMAIN file'
          /\ \A k \in DOMAIN file : file'[k] = file[k]
          /\ Len(file) + 1 \in DOMAIN file' /\ file'[Len(file) + 1].event = emits + 1
      BY <1>0, <2>3, <3>1, <3>2, Grown
    <3>4. /\ Rising(file, emits)
          /\ \A i \in DOMAIN acked : \E k \in DOMAIN file : file[k].event = acked[i]
      BY <2>1, <2>3, <3>3 DEF KeptInv
    <3>5. ASSUME NEW i \in DOMAIN acked'
          PROVE  \E k \in DOMAIN file' : file'[k].event = acked'[i]
      <4>1. CASE i \in DOMAIN acked
        <5>1. PICK k \in DOMAIN file : file[k].event = acked[i]
          BY <3>4, <4>1
        <5>. QED  BY <2>2, <3>3, <4>1, <5>1
      <4>2. CASE i = Len(acked) + 1
        BY <2>1, <2>2, <3>3, <4>2
      <4>. QED  BY <2>2, <4>1, <4>2
    <3>. QED  BY <2>1, <3>3, <3>4, <3>5
  <2>. QED  BY <2>2, <2>3 DEF KeptInv
<1>2. ASSUME NEW p \in Processes, TornEmit(p) PROVE KeptInv'
  <2>1. emits' = emits + 1 /\ acked' = acked /\ edits' = edits
    BY <1>2, Zenon DEF TornEmit
  <2>2. PICK whole \in BOOLEAN :
          file' = Glue(file, [Record(last[p], emits') EXCEPT !.parses = whole, !.ended = FALSE])
    BY <1>2, Zenon DEF TornEmit
  <2>. DEFINE r == [Record(last[p], emits') EXCEPT !.parses = whole, !.ended = FALSE]
  <2>3. r \in Records /\ r.event = emits + 1
    <3>1. Record(last[p], emits') \in Records
      BY <1>0, <2>1, RecordType DEF ChainTypes
    <3>2. Record(last[p], emits').event = emits + 1
      BY <2>1 DEF Record
    <3>. QED  BY <3>1, <3>2 DEF Records
  <2>. HIDE DEF r
  <2>4. file' = Glue(file, r)
    BY <2>2 DEF r
  <2>5. ASSUME edits' = 0, Parses(file')
        PROVE  /\ Rising(file', emits')
               /\ \A i \in DOMAIN acked' : \E k \in DOMAIN file' : file'[k].event = acked'[i]
    <3>1. /\ Parses(file)
          /\ Rising(file, emits) => Rising(file', emits + 1)
          /\ DOMAIN file \subseteq DOMAIN file'
          /\ \A k \in DOMAIN file : file'[k] = file[k]
      BY <1>0, <2>3, <2>4, <2>5, Grown
    <3>2. /\ Rising(file, emits)
          /\ \A i \in DOMAIN acked : \E k \in DOMAIN file : file[k].event = acked[i]
      BY <2>1, <2>5, <3>1 DEF KeptInv
    <3>. QED  BY <2>1, <3>1, <3>2
  <2>6. \A i \in DOMAIN acked : acked[i] \in Nat
    BY ElementOfSeq, LenProperties DEF ChainTypes
  <2>. QED  BY <1>0, <2>1, <2>5, <2>6 DEF KeptInv
<1>3. ASSUME file' = file, acked' = acked, emits' = emits, edits' = edits
      PROVE  KeptInv'
  BY <1>3 DEF KeptInv
<1>4. ASSUME NEW p \in Processes,
             Open(p) \/ Close(p) \/ SelectLast(p) \/ InsertFails(p)
      PROVE  KeptInv'
  BY <1>3, <1>4 DEF Open, Close, SelectLast, InsertFails
<1>5. CASE CreateCheckpoint \/ UNCHANGED vars
  BY <1>3, <1>5 DEF CreateCheckpoint, vars
<1>6. CASE EditFile
  <2>1. edits' = edits + 1 /\ edits \in Nat
    BY <1>6 DEF EditFile, ChainTypes
  <2>2. edits' # 0
    BY <2>1
  <2>3. acked' = acked /\ emits' = emits
    BY <1>6 DEF EditFile
  <2>. QED  BY <2>2, <2>3 DEF KeptInv
<1>. QED  BY <1>1, <1>2, <1>4, <1>5, <1>6, Zenon DEF Next

LEMMA KeptIsComplete ==
  ASSUME ChainTypes, KeptInv
  PROVE  VerifiedMeansComplete
<1>. SUFFICES ASSUME edits = 0, Verifies(file)
     PROVE  \E take \in SUBSET DOMAIN file :
              /\ {file[i].event : i \in take} = {acked[i] : i \in DOMAIN acked}
              /\ \A i, j \in DOMAIN acked : i < j =>
                   \E k, l \in take : k < l /\ file[k].event = acked[i]
                                            /\ file[l].event = acked[j]
  BY DEF VerifiedMeansComplete
<1>1. /\ Rising(file, emits)
      /\ \A i \in DOMAIN acked : \E k \in DOMAIN file : file[k].event = acked[i]
      /\ \A i, j \in DOMAIN acked : i < j => acked[i] < acked[j]
  BY DEF KeptInv, Verifies
<1>2. /\ DOMAIN file = 1..Len(file) /\ Len(file) \in Nat
      /\ \A k \in DOMAIN file : file[k].event \in Nat
  BY RecordFields, LenProperties DEF ChainTypes
<1>. DEFINE take == {k \in DOMAIN file : \E i \in DOMAIN acked : file[k].event = acked[i]}
<1>3. {file[i].event : i \in take} = {acked[i] : i \in DOMAIN acked}
  BY <1>1
<1>4. ASSUME NEW i \in DOMAIN acked, NEW j \in DOMAIN acked, i < j
      PROVE  \E k, l \in take : k < l /\ file[k].event = acked[i]
                                      /\ file[l].event = acked[j]
  <2>1. PICK k \in DOMAIN file : file[k].event = acked[i]
    BY <1>1
  <2>2. PICK l \in DOMAIN file : file[l].event = acked[j]
    BY <1>1
  <2>3. k \in take /\ l \in take
    BY <2>1, <2>2
  <2>4. file[k].event < file[l].event
    BY <1>1, <1>4, <2>1, <2>2
  <2>5. k < l
    <3>1. k = l \/ l < k => FALSE
      BY <1>1, <1>2, <2>4 DEF Rising
    <3>. QED  BY <1>2, <3>1
  <2>. QED  BY <2>1, <2>2, <2>3, <2>5
<1>5. take \in SUBSET DOMAIN file
  OBVIOUS
<1>. HIDE DEF take
<1>. QED  BY <1>3, <1>4, <1>5

\* However processes share the log and writes are cut short, a log nobody else
\* changed and that verifies holds every event acknowledged, in order.
THEOREM VerifiedMeansCompleteHolds == Spec => []VerifiedMeansComplete
<1>1. Init => KeptInv
  <2>. SUFFICES ASSUME Init PROVE KeptInv
    OBVIOUS
  <2>1. DOMAIN file = {} /\ DOMAIN acked = {}
    BY DEF Init
  <2>. QED  BY <2>1 DEF KeptInv, Rising
<1>2. ChainTypes /\ KeptInv /\ [Next]_vars => KeptInv'
  BY KeptStep
<1>3. ChainTypes /\ KeptInv => VerifiedMeansComplete
  BY KeptIsComplete
<1>. QED  BY <1>1, <1>2, <1>3, TypesHold, PTL DEF Spec
=============================================================================
