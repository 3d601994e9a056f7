---------------------------- MODULE RedactionProofs ----------------------------
(***************************************************************************)
(* For every record, however deep: redaction leaves no secret, and its     *)
(* report is exact.  redact_value recurs over its data, so these proofs do *)
(* too: a set of naturals has a smallest member, hence a set of places     *)
(* that a tree's places go down into holds them all (PathInduction).       *)
(***************************************************************************)
EXTENDS Redaction, SequenceTheorems, WellFoundedInduction, TLAPS

-----------------------------------------------------------------------------
(***************************************************************************)
(* Induction along the places of a tree.                                   *)
(***************************************************************************)
LEMMA SmallestOf ==
  ASSUME NEW ns, ns \subseteq Nat, ns # {}
  PROVE  \E n \in ns : \A m \in ns : n <= m
<1> DEFINE Less == {ss \in Nat \X Nat : ss[1] < ss[2]}
<1>1. IsWellFoundedOn(Less, Nat)
  BY NatLessThanWellFounded DEF OpToRel
<1>2. ASSUME NEW n \in Nat, NEW m \in Nat, m < n
      PROVE  <<m, n>> \in Less
  <2>1. <<m, n>>[1] < <<m, n>>[2]
    BY <1>2
  <2>. QED
    BY <2>1
<1> HIDE DEF Less
<1>3. PICK n \in ns : \A m \in ns : ~(<<m, n>> \in Less)
  BY <1>1, WFMin
<1>4. \A m \in ns : ~(m < n)
  BY <1>2, <1>3
<1>. QED
  BY <1>4

LEMMA DeepestOf ==
  ASSUME NEW k \in Nat, NEW ns \in SUBSET (0..k), ns # {}
  PROVE  Deepest(ns) \in ns /\ \A m \in ns : m <= Deepest(ns)
<1> DEFINE above == {k - n : n \in ns}
<1>1. above \subseteq Nat /\ above # {}
  <2>1. \A n \in ns : n \in 0..k /\ k - n \in Nat
    OBVIOUS
  <2>. QED
    BY <2>1
<1>2. PICK d \in above : \A e \in above : d <= e
  BY <1>1, SmallestOf
<1>3. PICK n \in ns : d = k - n
  BY <1>2
<1>4. \A m \in ns : m <= n
  <2> SUFFICES ASSUME NEW m \in ns
               PROVE  m <= n
    OBVIOUS
  <2>1. k - n <= k - m
    BY <1>2, <1>3
  <2>. QED
    BY <2>1
<1>. QED
  BY <1>3, <1>4 DEF Deepest

\* A set of naturals with 0 and every successor holds them all.
LEMMA CountingUp ==
  ASSUME NEW ns, 0 \in ns, \A n \in Nat : n \in ns => n + 1 \in ns
  PROVE  Nat \subseteq ns
<1>1. SUFFICES ASSUME Nat \ ns # {}
               PROVE  FALSE
  OBVIOUS
<1>2. PICK n \in Nat \ ns : \A m \in Nat \ ns : n <= m
  BY <1>1, SmallestOf
<1>3. n - 1 \in Nat /\ n - 1 \in ns
  BY <1>2
<1>. QED
  BY <1>2, <1>3

\* One step up or down a path.
LEMMA FrontOfPath ==
  ASSUME NEW S, NEW p \in Seq(S), p # <<>>
  PROVE  /\ Front(p) \in Seq(S) /\ Len(p) \in Nat /\ Len(p) > 0
         /\ Len(Front(p)) = Len(p) - 1
         /\ Last(p) \in S /\ Last(p) = p[Len(p)]
         /\ \A n \in 1..(Len(p) - 1) : Front(p)[n] = p[n]
         /\ DOMAIN p = 1..Len(p) /\ DOMAIN Front(p) = 1..(Len(p) - 1)
<1>1. Len(p) \in Nat /\ Len(p) > 0 /\ DOMAIN p = 1..Len(p)
  BY EmptySeq, LenProperties
<1>2. \A n \in 1..(Len(p) - 1) : p[n] \in S
  BY <1>1, ElementOfSeq
<1>3. /\ Front(p) \in Seq(S) /\ Len(Front(p)) = Len(p) - 1
      /\ \A n \in 1..(Len(p) - 1) : Front(p)[n] = p[n]
  BY <1>1, <1>2, SubSeqProperties DEF Front
<1>4. Last(p) \in S /\ Last(p) = p[Len(p)]
  BY <1>1, ElementOfSeq DEF Last
<1>. QED
  BY <1>1, <1>3, <1>4, LenProperties

LEMMA StepDown ==
  ASSUME NEW S, NEW p \in Seq(S), NEW k \in S
  PROVE  /\ Append(p, k) \in Seq(S) /\ Append(p, k) # <<>>
         /\ Front(Append(p, k)) = p /\ Last(Append(p, k)) = k
<1>1. /\ Append(p, k) \in Seq(S) /\ Append(p, k) # <<>>
      /\ Len(Append(p, k)) = Len(p) + 1 /\ Len(p) \in Nat
      /\ \A i \in 1..Len(p) : Append(p, k)[i] = p[i]
      /\ Append(p, k)[Len(p) + 1] = k
  BY AppendProperties, LenProperties
<1>2. /\ Front(Append(p, k)) \in Seq(S) /\ Len(Front(Append(p, k))) = Len(p)
      /\ \A n \in 1..Len(p) : Front(Append(p, k))[n] = p[n]
      /\ Last(Append(p, k)) = k
  <2> DEFINE q == Append(p, k)
  <2>1. q \in Seq(S) /\ q # <<>>
    BY <1>1
  <2> HIDE DEF q
  <2>2. /\ Front(q) \in Seq(S) /\ Len(Front(q)) = Len(q) - 1 /\ Last(q) = q[Len(q)]
        /\ \A n \in 1..(Len(q) - 1) : Front(q)[n] = q[n]
    BY <2>1, FrontOfPath
  <2>. QED
    BY <1>1, <2>2 DEF q
<1>3. Front(Append(p, k)) = p
  BY <1>2, SeqEqual
<1>. QED
  BY <1>1, <1>2, <1>3

LEMMA PathInduction ==
  ASSUME NEW tree, IsTree(tree), NEW T, <<>> \in T,
         \A p \in DOMAIN tree : p # <<>> /\ Front(p) \in T => p \in T
  PROVE  DOMAIN tree \subseteq T
<1> DEFINE lens == {Len(p) : p \in DOMAIN tree \ T}
<1>1. SUFFICES ASSUME DOMAIN tree \ T # {}
               PROVE  FALSE
  OBVIOUS
<1>2. \A p \in DOMAIN tree : p \in Seq(STRING) /\ Len(p) \in Nat
  BY LenProperties DEF IsTree
<1>3. lens \subseteq Nat /\ lens # {}
  BY <1>1, <1>2
<1>4. PICK n \in lens : \A m \in lens : n <= m
  BY <1>3, SmallestOf
<1>5. PICK p \in DOMAIN tree \ T : n = Len(p)
  BY <1>4
<1>6. p # <<>> /\ Front(p) \in DOMAIN tree
  BY <1>5 DEF IsTree
<1>7. Len(Front(p)) = Len(p) - 1 /\ Len(p) \in Nat
  BY <1>2, <1>6, FrontOfPath
<1>8. Front(p) \in T
  <2>1. SUFFICES ASSUME Front(p) \in DOMAIN tree \ T
                 PROVE  FALSE
    BY <1>6
  <2>2. Len(Front(p)) \in lens
    BY <2>1
  <2> HIDE DEF lens
  <2>. QED
    BY <1>4, <1>5, <1>7, <2>2
<1>. QED
  BY <1>5, <1>6, <1>8

-----------------------------------------------------------------------------
(***************************************************************************)
(* The calls of redact_value, place by place.                              *)
(***************************************************************************)
\* CallsOn's equation, for any function of calls.
CallAt(tree, full, call, p) ==
  IF p = <<>> THEN [key |-> NoKey, full |-> full, fate |-> "visited"]
  ELSE LET up == Front(p) IN
       [key |-> KeyBelow(tree[up], call[up].key, Last(p)),
        full |-> CaptureBelow(tree, up, call[up].full),
        fate |-> FateBelow(tree[up], call[up])]
\* The calls down to a depth.
DownTo(tree, n) == {p \in DOMAIN tree : Len(p) <= n}
Solves(tree, full, call, n) ==
  call = [p \in DownTo(tree, n) |-> CallAt(tree, full, call, p)]

LEMMA PlacesAbove ==
  ASSUME NEW tree, IsTree(tree), NEW p \in DOMAIN tree
  PROVE  /\ p \in Seq(STRING) /\ Len(p) \in Nat
         /\ p = <<>> => Len(p) = 0
         /\ p # <<>> => /\ Front(p) \in DOMAIN tree
                        /\ Len(p) > 0 /\ Len(Front(p)) = Len(p) - 1
<1>1. p \in Seq(STRING) /\ Len(p) \in Nat
  BY LenProperties DEF IsTree
<1>2. CASE p = <<>>
  BY <1>1, <1>2, EmptySeq
<1>3. CASE p # <<>>
  BY <1>1, <1>3, FrontOfPath DEF IsTree
<1>. QED
  BY <1>1, <1>2, <1>3

\* A call only looks at the one that made it.
LEMMA CallAtLooksUp ==
  ASSUME NEW tree, NEW full, NEW f, NEW g, NEW p, p # <<>> => f[Front(p)] = g[Front(p)]
  PROVE  CallAt(tree, full, f, p) = CallAt(tree, full, g, p)
BY DEF CallAt

LEMMA SolvableDownTo ==
  ASSUME NEW tree, IsTree(tree), NEW full
  PROVE  \A n \in Nat : \E f : Solves(tree, full, f, n)
<1> DEFINE ns == {n \in Nat : \E f : Solves(tree, full, f, n)}
<1>1. 0 \in ns
  <2> DEFINE f == [p \in DownTo(tree, 0) |-> CallAt(tree, full, <<>>, p)]
  <2>1. \A p \in DownTo(tree, 0) : p = <<>>
    BY PlacesAbove DEF DownTo
  <2>2. \A p \in DownTo(tree, 0) : CallAt(tree, full, <<>>, p) = CallAt(tree, full, f, p)
    BY <2>1, CallAtLooksUp
  <2>3. Solves(tree, full, f, 0)
    BY <2>2 DEF Solves
  <2>. QED
    BY <2>3
<1>2. ASSUME NEW n \in Nat, n \in ns
      PROVE  n + 1 \in ns
  <2>1. PICK f : Solves(tree, full, f, n)
    BY <1>2
  <2> DEFINE g == [p \in DownTo(tree, n + 1) |-> CallAt(tree, full, f, p)]
  <2>2. \A p \in DownTo(tree, n) : p \in DownTo(tree, n + 1) /\ g[p] = f[p]
    <3>1. \A p \in DownTo(tree, n) : p \in DownTo(tree, n + 1)
      BY PlacesAbove DEF DownTo
    <3>2. \A p \in DownTo(tree, n) : f[p] = CallAt(tree, full, f, p)
      BY <2>1 DEF Solves
    <3>. QED
      BY <3>1, <3>2
  <2> HIDE DEF g
  <2>3. \A p \in DownTo(tree, n + 1) : CallAt(tree, full, f, p) = CallAt(tree, full, g, p)
    <3> SUFFICES ASSUME NEW p \in DownTo(tree, n + 1)
                 PROVE  CallAt(tree, full, f, p) = CallAt(tree, full, g, p)
      OBVIOUS
    <3>1. p # <<>> => Front(p) \in DownTo(tree, n)
      BY PlacesAbove DEF DownTo
    <3>2. p # <<>> => f[Front(p)] = g[Front(p)]
      BY <2>2, <3>1
    <3>. QED
      BY <3>2, CallAtLooksUp
  <2>4. Solves(tree, full, g, n + 1)
    BY <2>3 DEF Solves, g
  <2>. QED
    BY <2>4
<1> HIDE DEF ns
<1>3. Nat \subseteq ns
  BY <1>1, <1>2, CountingUp
<1>. QED
  BY <1>3 DEF ns

\* Two solutions agree as far down as both go.
LEMMA SolutionsAgree ==
  ASSUME NEW tree, IsTree(tree), NEW full, NEW n \in Nat, NEW m \in Nat, NEW f, NEW g,
         Solves(tree, full, f, n), Solves(tree, full, g, m),
         NEW p \in DOMAIN tree, Len(p) <= n, Len(p) <= m
  PROVE  f[p] = g[p]
<1> DEFINE T == {q \in DOMAIN tree : Len(q) <= n /\ Len(q) <= m => f[q] = g[q]}
<1>1. ASSUME NEW q \in DOMAIN tree, Len(q) <= n, Len(q) <= m,
             q # <<>> => f[Front(q)] = g[Front(q)]
      PROVE  f[q] = g[q]
  <2>1. q \in DownTo(tree, n) /\ q \in DownTo(tree, m)
    BY <1>1 DEF DownTo
  <2>2. f[q] = CallAt(tree, full, f, q) /\ g[q] = CallAt(tree, full, g, q)
    BY <2>1 DEF Solves
  <2>. QED
    BY <1>1, <2>2, CallAtLooksUp
<1>2. <<>> \in T
  BY <1>1 DEF IsTree
<1>3. \A q \in DOMAIN tree : q # <<>> /\ Front(q) \in T => q \in T
  <2> SUFFICES ASSUME NEW q \in DOMAIN tree, q # <<>>, Front(q) \in T,
                      Len(q) <= n, Len(q) <= m
               PROVE  f[q] = g[q]
    OBVIOUS
  <2>1. Len(Front(q)) <= n /\ Len(Front(q)) <= m
    BY PlacesAbove
  <2>. QED
    BY <1>1, <2>1
<1> HIDE DEF T
<1>4. p \in T
  BY <1>2, <1>3, PathInduction
<1>. QED
  BY <1>4 DEF T

\* CallsOn is well defined: it satisfies its own equation.
LEMMA CallsOnEquation ==
  ASSUME NEW tree, IsTree(tree), NEW full
  PROVE  CallsOn(tree, full) =
           [p \in DOMAIN tree |-> CallAt(tree, full, CallsOn(tree, full), p)]
<1> DEFINE upTo(n) == CHOOSE f : Solves(tree, full, f, n)
           whole == [p \in DOMAIN tree |-> upTo(Len(p))[p]]
           Fits(call) == call = [p \in DOMAIN tree |-> CallAt(tree, full, call, p)]
<1>1. \A n \in Nat : Solves(tree, full, upTo(n), n)
  BY SolvableDownTo
<1> HIDE DEF upTo
<1>2. \A p \in DOMAIN tree : whole[p] = CallAt(tree, full, whole, p)
  <2> SUFFICES ASSUME NEW p \in DOMAIN tree
               PROVE  whole[p] = CallAt(tree, full, whole, p)
    OBVIOUS
  <2> DEFINE f == upTo(Len(p))
  <2>1. Len(p) \in Nat /\ Solves(tree, full, f, Len(p)) /\ p \in DownTo(tree, Len(p))
    BY <1>1, PlacesAbove DEF DownTo
  <2>2. whole[p] = f[p] /\ f[p] = CallAt(tree, full, f, p)
    BY <2>1 DEF Solves
  <2>3. ASSUME p # <<>>
        PROVE  f[Front(p)] = whole[Front(p)]
    <3>1. /\ Front(p) \in DOMAIN tree /\ Len(Front(p)) \in Nat
          /\ Len(Front(p)) <= Len(p)
      BY <2>3, PlacesAbove
    <3>2. Solves(tree, full, upTo(Len(Front(p))), Len(Front(p)))
      BY <1>1, <3>1
    <3>3. upTo(Len(Front(p)))[Front(p)] = f[Front(p)]
      BY <2>1, <3>1, <3>2, SolutionsAgree
    <3>. QED
      BY <3>1, <3>3
  <2> HIDE DEF f, whole
  <2>. QED
    BY <2>2, <2>3, CallAtLooksUp
<1>3. Fits(whole)
  BY <1>2
<1>4. CallsOn(tree, full) = CHOOSE call : Fits(call)
  BY DEF CallsOn, CallAt
<1> HIDE DEF Fits
<1>5. Fits(CallsOn(tree, full))
  BY <1>3, <1>4
<1>. QED
  BY <1>5 DEF Fits

LEMMA RootCall ==
  ASSUME NEW tree, IsTree(tree), NEW full
  PROVE  CallsOn(tree, full)[<<>>] = [key |-> NoKey, full |-> full, fate |-> "visited"]
<1> DEFINE call == CallsOn(tree, full)
<1>1. call = [p \in DOMAIN tree |-> CallAt(tree, full, call, p)]
  BY CallsOnEquation
<1> HIDE DEF call
<1>2. call[<<>>] = [key |-> NoKey, full |-> full, fate |-> "visited"]
  BY <1>1 DEF IsTree, CallAt
<1>. QED
  BY <1>2 DEF call

LEMMA CallBelow ==
  ASSUME NEW tree, IsTree(tree), NEW full, NEW p \in DOMAIN tree, p # <<>>
  PROVE  LET call == CallsOn(tree, full) IN
         /\ call[p].key = KeyBelow(tree[Front(p)], call[Front(p)].key, Last(p))
         /\ call[p].full = CaptureBelow(tree, Front(p), call[Front(p)].full)
         /\ call[p].fate = FateBelow(tree[Front(p)], call[Front(p)])
<1> DEFINE call == CallsOn(tree, full)
           key == KeyBelow(tree[Front(p)], call[Front(p)].key, Last(p))
           below == CaptureBelow(tree, Front(p), call[Front(p)].full)
           fate == FateBelow(tree[Front(p)], call[Front(p)])
<1>1. call = [q \in DOMAIN tree |-> CallAt(tree, full, call, q)]
  BY CallsOnEquation
<1>2. call[p] = CallAt(tree, full, call, p)
  <2> HIDE DEF call
  <2>. QED
    BY <1>1
<1>3. CallAt(tree, full, call, p) = [key |-> key, full |-> below, fate |-> fate]
  BY DEF CallAt
<1> HIDE DEF call, key, below, fate
<1>4. call[p].key = key /\ call[p].full = below /\ call[p].fate = fate
  BY <1>2, <1>3
<1>. QED
  BY <1>4, Zenon DEF call, key, below, fate

-----------------------------------------------------------------------------
(***************************************************************************)
(* What a place is judged by is written in its path.                       *)
(***************************************************************************)
LEMMA FiledUnderLast ==
  ASSUME NEW p \in Seq(STRING), p # <<>>
  PROVE  FiledUnder(p) = IF Last(p) \in Indices THEN FiledUnder(Front(p)) ELSE Last(p)
<1> DEFINE named == {n \in DOMAIN p : p[n] \notin Indices}
           above == {n \in DOMAIN Front(p) : Front(p)[n] \notin Indices}
<1>1. /\ Len(p) \in Nat /\ Len(p) > 0 /\ Last(p) = p[Len(p)]
      /\ DOMAIN p = 1..Len(p) /\ DOMAIN Front(p) = 1..(Len(p) - 1)
      /\ \A n \in 1..(Len(p) - 1) : Front(p)[n] = p[n]
  BY FrontOfPath
<1>2. named \in SUBSET (0..Len(p)) /\ above \in SUBSET (0..Len(p))
  BY <1>1
<1>3. CASE Last(p) \in Indices
  <2>1. named = above
    <3>1. \A n \in DOMAIN p : p[n] \notin Indices => n \in 1..(Len(p) - 1)
      BY <1>1, <1>3
    <3>2. \A n \in DOMAIN Front(p) : n \in DOMAIN p
      BY <1>1
    <3>. QED
      BY <1>1, <3>1, <3>2
  <2>2. named # {} => Deepest(named) \in above
    BY <1>1, <1>2, <2>1, DeepestOf
  <2>3. named # {} => p[Deepest(named)] = Front(p)[Deepest(above)]
    BY <1>1, <2>1, <2>2
  <2>. QED
    BY <1>3, <2>1, <2>3 DEF FiledUnder
<1>4. CASE Last(p) \notin Indices
  <2>1. Len(p) \in named
    BY <1>1, <1>4
  <2> HIDE DEF named
  <2>2. Deepest(named) \in 0..Len(p) /\ Len(p) <= Deepest(named)
    BY <1>1, <1>2, <2>1, DeepestOf
  <2>3. Deepest(named) = Len(p)
    BY <1>1, <2>2
  <2>. QED
    BY <1>1, <1>4, <2>1, <2>3 DEF FiledUnder, named
<1>. QED
  BY <1>3, <1>4

LEMMA PrefixOfFront ==
  ASSUME NEW p \in Seq(STRING), p # <<>>, NEW n \in 0..(Len(p) - 1)
  PROVE  SubSeq(p, 1, n) = SubSeq(Front(p), 1, n)
<1>1. /\ Len(p) \in Nat /\ n \in Int /\ n <= Len(p) - 1 /\ n >= 0
      /\ Front(p) \in Seq(STRING) /\ Len(Front(p)) = Len(p) - 1
      /\ \A i \in 1..(Len(p) - 1) : Front(p)[i] = p[i]
  BY FrontOfPath
<1>2. \A i \in 1..n : p[i] \in STRING /\ Front(p)[i] \in STRING /\ p[i] = Front(p)[i]
  BY <1>1, ElementOfSeq
<1>3. /\ SubSeq(p, 1, n) \in Seq(STRING) /\ Len(SubSeq(p, 1, n)) = n
      /\ \A i \in 1..n : SubSeq(p, 1, n)[i] = p[i]
  BY <1>1, <1>2, SubSeqProperties
<1>4. /\ SubSeq(Front(p), 1, n) \in Seq(STRING) /\ Len(SubSeq(Front(p), 1, n)) = n
      /\ \A i \in 1..n : SubSeq(Front(p), 1, n)[i] = Front(p)[i]
  BY <1>1, <1>2, SubSeqProperties
<1>. QED
  BY <1>2, <1>3, <1>4, SeqEqual

LEMMA CapturedBelow ==
  ASSUME NEW tree, NEW full, NEW p \in Seq(STRING), p # <<>>
  PROVE  CapturedAt(tree, full, p) =
           CaptureBelow(tree, Front(p), CapturedAt(tree, full, Front(p)))
<1> DEFINE around == {n \in 0..(Len(p) - 1) : HasPosture(tree, SubSeq(p, 1, n))}
           above == {n \in 0..(Len(Front(p)) - 1) : HasPosture(tree, SubSeq(Front(p), 1, n))}
           last == Len(p) - 1
<1>1. Len(p) \in Nat /\ Len(p) > 0 /\ Len(Front(p)) = last /\ last \in Nat
  BY FrontOfPath
<1>2. SubSeq(p, 1, last) = Front(p)
  BY DEF Front
<1>3. \A n \in 0..last : SubSeq(p, 1, n) = SubSeq(Front(p), 1, n)
  BY PrefixOfFront
<1>4. around \in SUBSET (0..last) /\ above \in SUBSET (0..last)
  BY <1>1
<1>5. CASE HasPosture(tree, Front(p))
  <2>1. last \in around
    <3>1. last \in 0..(Len(p) - 1)
      BY <1>1
    <3>. QED
      BY <1>2, <1>5, <3>1
  <2>2. Deepest(around) = last
    <3> HIDE DEF around, last
    <3>1. Deepest(around) \in 0..last /\ last <= Deepest(around)
      BY <1>1, <1>4, <2>1, DeepestOf
    <3>. QED
      BY <1>1, <3>1
  <2>. QED
    BY <1>2, <1>5, <2>1, <2>2 DEF CapturedAt, CaptureBelow
<1>6. CASE ~HasPosture(tree, Front(p))
  <2>1. around = above
    <3>1. \A n \in around : n \in above
      <4> SUFFICES ASSUME NEW n \in around
                   PROVE  n \in above
        OBVIOUS
      <4>1. n # last
        BY <1>2, <1>6
      <4>2. n \in 0..(last - 1)
        BY <1>1, <4>1
      <4>. QED
        BY <1>1, <1>3, <4>2
    <3>2. \A n \in above : n \in around
      <4> SUFFICES ASSUME NEW n \in above
                   PROVE  n \in around
        OBVIOUS
      <4>1. n \in 0..last /\ n \in 0..(last - 1)
        BY <1>1
      <4>. QED
        BY <1>3, <4>1
    <3>. QED
      BY <3>1, <3>2
  <2>2. around # {} => /\ Deepest(around) \in 0..last
                       /\ SubSeq(p, 1, Deepest(around)) = SubSeq(Front(p), 1, Deepest(above))
    BY <1>1, <1>3, <1>4, <2>1, DeepestOf
  <2>. QED
    BY <1>6, <2>1, <2>2 DEF CapturedAt, CaptureBelow
<1>. QED
  BY <1>5, <1>6

\* redact_value comes to a place with the key it is filed under and the posture
\* that reaches it.
LEMMA CallsFollowPaths ==
  ASSUME NEW tree, IsTree(tree), NEW full, NEW p \in DOMAIN tree
  PROVE  /\ CallsOn(tree, full)[p].key = FiledUnder(p)
         /\ CallsOn(tree, full)[p].full = CapturedAt(tree, full, p)
<1> DEFINE call == CallsOn(tree, full)
           T == {q \in DOMAIN tree : /\ call[q].key = FiledUnder(q)
                                     /\ call[q].full = CapturedAt(tree, full, q)}
<1>1. <<>> \in T
  <2>1. call[<<>>] = [key |-> NoKey, full |-> full, fate |-> "visited"]
    BY RootCall
  <2> HIDE DEF call
  <2>3. call[<<>>].key = NoKey /\ call[<<>>].full = full
    BY <2>1
  <2>2. DOMAIN <<>> = {} /\ 0..(Len(<<>>) - 1) = {}
    OBVIOUS
  <2>. QED
    BY <2>2, <2>3 DEF FiledUnder, CapturedAt, IsTree
<1>2. ASSUME NEW q \in DOMAIN tree, q # <<>>, Front(q) \in T
      PROVE  q \in T
  <2>1. q \in Seq(STRING) /\ tree[Front(q)] = (IF Last(q) \in Indices THEN "list" ELSE "mapping")
    BY <1>2 DEF IsTree
  <2>2. call[q].key = KeyBelow(tree[Front(q)], call[Front(q)].key, Last(q))
    BY <1>2, CallBelow
  <2>3. call[q].full = CaptureBelow(tree, Front(q), call[Front(q)].full)
    BY <1>2, CallBelow
  <2> HIDE DEF call
  <2>4. call[q].key = FiledUnder(q)
    BY <1>2, <2>1, <2>2, FiledUnderLast DEF KeyBelow
  <2>5. call[q].full = CapturedAt(tree, full, q)
    BY <1>2, <2>1, <2>3, CapturedBelow
  <2>. QED
    BY <2>4, <2>5
<1> HIDE DEF T
<1>3. p \in T
  BY <1>1, <1>2, PathInduction
<1>. QED
  BY <1>3 DEF T

\* A call knows of a "redactions" key only from its path, and keeps a place as it
\* is only below one.
LEMMA RedactionsAreNamed ==
  ASSUME NEW tree, IsTree(tree), NEW full, NEW p \in DOMAIN tree,
         "redactions" \notin Range(p)
  PROVE  /\ CallsOn(tree, full)[p].key # "redactions"
         /\ CallsOn(tree, full)[p].fate # "kept"
<1> DEFINE call == CallsOn(tree, full)
           T == {q \in DOMAIN tree : "redactions" \notin Range(q) =>
                   call[q].key # "redactions" /\ call[q].fate # "kept"}
<1>1. <<>> \in T
  <2>1. call[<<>>] = [key |-> NoKey, full |-> full, fate |-> "visited"]
    BY RootCall
  <2> HIDE DEF call
  <2>2. call[<<>>].key = NoKey /\ call[<<>>].fate = "visited"
    BY <2>1
  <2>3. NoKey # "redactions" /\ "visited" # "kept"
    BY DEF NoKey
  <2>. QED
    BY <2>2, <2>3 DEF IsTree
<1>2. ASSUME NEW q \in DOMAIN tree, q # <<>>, Front(q) \in T,
             "redactions" \notin Range(q)
      PROVE  call[q].key # "redactions" /\ call[q].fate # "kept"
  <2>1. /\ call[q].key = KeyBelow(tree[Front(q)], call[Front(q)].key, Last(q))
        /\ call[q].fate = FateBelow(tree[Front(q)], call[Front(q)])
    BY <1>2, CallBelow
  <2> HIDE DEF call
  <2>2. q \in Seq(STRING) /\ Front(q) \in DOMAIN tree /\ tree[Front(q)] \in NodeKinds
    BY <1>2 DEF IsTree
  <2>3. /\ Last(q) = q[Len(q)] /\ Len(q) \in DOMAIN q
        /\ \A n \in DOMAIN Front(q) : n \in DOMAIN q /\ Front(q)[n] = q[n]
    BY <1>2, <2>2, FrontOfPath
  <2>4. Last(q) \in Range(q) /\ Range(Front(q)) \subseteq Range(q)
    BY <2>3 DEF Range
  <2>5. call[Front(q)].key # "redactions" /\ call[Front(q)].fate # "kept"
    BY <1>2, <2>4
  <2>6. call[q].key # "redactions"
    BY <1>2, <2>1, <2>4, <2>5 DEF KeyBelow
  <2>7. KindAfter(tree[Front(q)], call[Front(q)].key, call[Front(q)].full) # "kept-list"
    BY <2>2, <2>5 DEF KindAfter, HidText, NodeKinds, Strings
  <2>8. call[q].fate # "kept"
    BY <2>1, <2>5, <2>7 DEF FateBelow
  <2>. QED
    BY <2>6, <2>8
<1>3. \A q \in DOMAIN tree : q # <<>> /\ Front(q) \in T => q \in T
  BY <1>2
<1> HIDE DEF T
<1>4. p \in T
  BY <1>1, <1>3, PathInduction
<1>. QED
  BY <1>4 DEF T

-----------------------------------------------------------------------------
(***************************************************************************)
(* One call.                                                               *)
(***************************************************************************)
Fates == {"visited", "kept", "dropped"}
\* KindAfter makes no container, and no secret, of anything that is not one.
LEMMA KindAfterIs ==
  ASSUME NEW kind \in NodeKinds, NEW key, NEW full
  PROVE  LET after == KindAfter(kind, key, full) IN
         /\ after = "kept-list" => kind = "list" /\ key = "redactions"
         /\ after \in {"mapping", "list"} => after = kind
         /\ after \in NodeKinds \cup {"kept-list"}
         /\ after # "bytes"
         /\ after = "secret" => key = "event_id"
         /\ after = "on" => kind = "on"
         /\ key \in {"full_capture", "hid_capture"} /\ kind \notin {"secret", "bytes"}
              => after = kind
BY DEF KindAfter, HidText, NodeKinds, Strings, CredentialKeys

\* HID text stays only under full capture.
LEMMA TextNeedsCapture ==
  ASSUME NEW kind \in NodeKinds, NEW full, KindAfter(kind, "text", full) = "plain"
  PROVE  full
BY DEF KindAfter, HidText, NodeKinds, Strings, CredentialKeys

\* Redacting what redact_value left of a node changes it only where a call was
\* reported that had already hidden it.
LEMMA HiddenOnce ==
  ASSUME NEW kind \in NodeKinds, NEW key, NEW full,
         KindAfter(kind, key, full) \notin {"mapping", "list", "kept-list"},
         Hides(KindAfter(kind, key, full), key, full)
  PROVE  Hides(kind, key, full)
BY DEF Hides, KindAfter, HidText, NodeKinds, Strings, CredentialKeys

LEMMA FatesAre ==
  ASSUME NEW tree, IsTree(tree), NEW full, NEW p \in DOMAIN tree
  PROVE  CallsOn(tree, full)[p].fate \in Fates
<1> DEFINE call == CallsOn(tree, full)
           T == {q \in DOMAIN tree : call[q].fate \in Fates}
<1>1. <<>> \in T
  <2>1. call[<<>>] = [key |-> NoKey, full |-> full, fate |-> "visited"]
    BY RootCall
  <2> HIDE DEF call
  <2>. QED
    BY <2>1 DEF IsTree, Fates
<1>2. ASSUME NEW q \in DOMAIN tree, q # <<>>, Front(q) \in T
      PROVE  q \in T
  <2>1. call[q].fate = FateBelow(tree[Front(q)], call[Front(q)])
    BY <1>2, CallBelow
  <2> HIDE DEF call
  <2>. QED
    BY <1>2, <2>1 DEF FateBelow, Fates
<1> HIDE DEF T
<1>3. p \in T
  BY <1>1, <1>2, PathInduction
<1>. QED
  BY <1>3 DEF T

-----------------------------------------------------------------------------
(***************************************************************************)
(* What is left is a tree again.                                           *)
(***************************************************************************)
\* What KindLeft makes of a node, by the fate of its call.
LEMMA KindLeftIs ==
  ASSUME NEW kind \in NodeKinds, NEW call
  PROVE  LET after == KindAfter(kind, call.key, call.full)
             left == KindLeft(kind, call)
         IN /\ left \in NodeKinds
            /\ left = kind \/ left = after
            /\ call.fate = "visited" /\ after # "kept-list" => left = after
            /\ call.fate \in Fates /\ FateBelow(kind, call) # "dropped" => left = kind
            /\ left \in {"mapping", "list"} => left = kind
<1> DEFINE after == KindAfter(kind, call.key, call.full)
<1>1. /\ after = "kept-list" => kind = "list"
      /\ after \in {"mapping", "list"} => after = kind
      /\ after \in NodeKinds \cup {"kept-list"}
  BY KindAfterIs
<1> HIDE DEF after
<1>2. KindLeft(kind, call) = IF call.fate = "kept" \/ after = "kept-list" THEN kind ELSE after
  BY DEF KindLeft, after
<1>3. FateBelow(kind, call) = IF call.fate # "visited" THEN call.fate
                              ELSE IF after = "kept-list" THEN "kept"
                              ELSE IF after \in {"mapping", "list"} THEN "visited" ELSE "dropped"
  BY DEF FateBelow, after
<1>4. /\ KindLeft(kind, call) \in NodeKinds
      /\ KindLeft(kind, call) = kind \/ KindLeft(kind, call) = after
      /\ call.fate = "visited" /\ after # "kept-list" => KindLeft(kind, call) = after
      /\ call.fate \in Fates /\ FateBelow(kind, call) # "dropped" => KindLeft(kind, call) = kind
      /\ KindLeft(kind, call) \in {"mapping", "list"} => KindLeft(kind, call) = kind
  BY <1>1, <1>2, <1>3 DEF Fates
<1>. QED
  BY <1>4 DEF after

LEMMA PlacesLeft ==
  ASSUME NEW tree, NEW full
  PROVE  LET left == Redacted(tree, full)
             call == CallsOn(tree, full)
         IN /\ \A p : p \in DOMAIN left <=> p \in DOMAIN tree /\ call[p].fate # "dropped"
            /\ \A p \in DOMAIN left : left[p] = KindLeft(tree[p], call[p])
<1> DEFINE call == CallsOn(tree, full)
           left == Redacted(tree, full)
<1>1. left = [p \in {q \in DOMAIN tree : call[q].fate # "dropped"} |-> KindLeft(tree[p], call[p])]
  BY DEF Redacted
<1> HIDE DEF call, left
<1>2. /\ \A p : p \in DOMAIN left <=> p \in DOMAIN tree /\ call[p].fate # "dropped"
      /\ \A p \in DOMAIN left : left[p] = KindLeft(tree[p], call[p])
  BY <1>1
<1>. QED
  BY <1>2 DEF call, left

\* What holds a place that is left is left as it was.
LEMMA HolderLeft ==
  ASSUME NEW tree, IsTree(tree), NEW full,
         NEW p \in DOMAIN Redacted(tree, full), p # <<>>
  PROVE  /\ Front(p) \in DOMAIN Redacted(tree, full)
         /\ Redacted(tree, full)[Front(p)] = tree[Front(p)]
<1> DEFINE call == CallsOn(tree, full)
           up == Front(p)
<1>1. p \in DOMAIN tree /\ call[p].fate # "dropped"
  BY PlacesLeft
<1>2. up \in DOMAIN tree /\ tree[up] \in NodeKinds
  BY <1>1 DEF IsTree
<1>3. call[p].fate = FateBelow(tree[up], call[up])
  BY <1>1, CallBelow
<1>4. call[up].fate \in Fates
  BY <1>2, FatesAre
<1> HIDE DEF call, up
<1>5. KindLeft(tree[up], call[up]) = tree[up]
  BY <1>1, <1>2, <1>3, <1>4, KindLeftIs
<1>6. call[up].fate # "dropped"
  BY <1>1, <1>3 DEF FateBelow
<1>7. up \in DOMAIN Redacted(tree, full)
  BY <1>2, <1>6, PlacesLeft DEF call
<1>8. Redacted(tree, full)[up] = KindLeft(tree[up], call[up])
  BY <1>7, PlacesLeft DEF call
<1>. QED
  BY <1>5, <1>7, <1>8 DEF up

LEMMA RedactedIsTree ==
  ASSUME NEW tree, IsTree(tree), NEW full
  PROVE  IsTree(Redacted(tree, full))
<1> DEFINE left == Redacted(tree, full)
           call == CallsOn(tree, full)
<1>1. DOMAIN left \subseteq Seq(STRING)
  BY PlacesLeft DEF IsTree
<1>2. <<>> \in DOMAIN left /\ left[<<>>] = "mapping"
  <2>1. <<>> \in DOMAIN tree /\ tree[<<>>] = "mapping"
    BY DEF IsTree
  <2>2. call[<<>>] = [key |-> NoKey, full |-> full, fate |-> "visited"]
    BY RootCall
  <2>3. <<>> \in DOMAIN left /\ left[<<>>] = KindLeft("mapping", call[<<>>])
    <3> HIDE DEF call
    <3>1. call[<<>>].fate # "dropped"
      BY <2>2
    <3>. QED
      BY <2>1, <3>1, PlacesLeft DEF call
  <2> HIDE DEF call, left
  <2>4. call[<<>>].key = NoKey /\ call[<<>>].fate = "visited"
    BY <2>2
  <2>5. KindAfter("mapping", NoKey, call[<<>>].full) = "mapping"
    BY DEF KindAfter, NoKey, CredentialKeys, Strings
  <2>. QED
    BY <2>3, <2>4, <2>5 DEF KindLeft
<1>3. \A p \in DOMAIN left : left[p] \in NodeKinds
  <2> SUFFICES ASSUME NEW p \in DOMAIN left
               PROVE  left[p] \in NodeKinds
    OBVIOUS
  <2>1. p \in DOMAIN tree /\ left[p] = KindLeft(tree[p], call[p])
    BY PlacesLeft
  <2>2. tree[p] \in NodeKinds
    BY <2>1 DEF IsTree
  <2>. QED
    BY <2>1, <2>2, KindLeftIs
<1>4. \A p \in DOMAIN left \ {<<>>} :
        /\ Front(p) \in DOMAIN left
        /\ left[Front(p)] = (IF Last(p) \in Indices THEN "list" ELSE "mapping")
  <2> SUFFICES ASSUME NEW p \in DOMAIN left, p # <<>>
               PROVE  /\ Front(p) \in DOMAIN left
                      /\ left[Front(p)] = (IF Last(p) \in Indices THEN "list" ELSE "mapping")
    OBVIOUS
  <2>1. Front(p) \in DOMAIN left /\ left[Front(p)] = tree[Front(p)]
    BY HolderLeft
  <2>2. p \in DOMAIN tree
    BY PlacesLeft
  <2>. QED
    BY <2>1, <2>2 DEF IsTree
<1> HIDE DEF left
<1>5. IsTree(left)
  BY <1>1, <1>2, <1>3, <1>4 DEF IsTree
<1>. QED
  BY <1>5 DEF left

-----------------------------------------------------------------------------
(***************************************************************************)
(* What is left has the postures it had.                                   *)
(***************************************************************************)
PostureKeys == {"full_capture", "hid_capture"}
LEMMA PostureKeyLeft ==
  ASSUME NEW tree, IsTree(tree), NEW full,
         NEW q \in DOMAIN Redacted(tree, full), Redacted(tree, full)[q] = "mapping",
         NEW k \in PostureKeys
  PROVE  LET left == Redacted(tree, full)
             c == Append(q, k)
         IN /\ c \in DOMAIN left <=> c \in DOMAIN tree
            /\ c \in DOMAIN left => /\ left[c] = "on" <=> tree[c] = "on"
                                    /\ left[c] = "mapping" <=> tree[c] = "mapping"
<1> DEFINE left == Redacted(tree, full)
           call == CallsOn(tree, full)
           c == Append(q, k)
<1>1. q \in DOMAIN tree /\ left[q] = KindLeft(tree[q], call[q]) /\ call[q].fate # "dropped"
  BY PlacesLeft
<1>2. q \in Seq(STRING) /\ tree[q] \in NodeKinds
  BY <1>1 DEF IsTree
<1>3. c # <<>> /\ Front(c) = q /\ Last(c) = k
  <2> DEFINE S == STRING \cup PostureKeys
  <2>1. q \in Seq(S)
    BY <1>2, SeqMonotonic
  <2> HIDE DEF S
  <2>2. k \in S
    BY DEF S
  <2>. QED
    BY <2>1, <2>2, StepDown
<1>4. call[q].fate \in Fates
  BY <1>1, FatesAre
<1>5. c \in DOMAIN tree => /\ call[c].key = KeyBelow(tree[q], call[q].key, k)
                           /\ call[c].fate = FateBelow(tree[q], call[q])
  <2>1. ASSUME c \in DOMAIN tree
        PROVE  /\ call[c].key = KeyBelow(tree[Front(c)], call[Front(c)].key, Last(c))
               /\ call[c].fate = FateBelow(tree[Front(c)], call[Front(c)])
    BY <1>3, <2>1, CallBelow
  <2> HIDE DEF call, c
  <2>. QED
    BY <1>3, <2>1
<1>6. c \in DOMAIN tree => tree[c] \in NodeKinds
  BY DEF IsTree
<1>7. c \in DOMAIN left <=> c \in DOMAIN tree /\ call[c].fate # "dropped"
  BY PlacesLeft
<1>8. c \in DOMAIN left => left[c] = KindLeft(tree[c], call[c])
  BY PlacesLeft
<1> HIDE DEF left, call, c
<1>9. left[q] = "mapping"
  BY DEF left
<1>10. tree[q] = "mapping"
  BY <1>1, <1>2, <1>9, KindLeftIs
<1>11. FateBelow(tree[q], call[q]) # "dropped"
  <2>1. call[q].fate = "visited" => KindAfter(tree[q], call[q].key, call[q].full) = "mapping"
    BY <1>1, <1>2, <1>9, <1>10, KindAfterIs DEF KindLeft
  <2>. QED
    BY <1>1, <2>1 DEF FateBelow
<1>12. c \in DOMAIN left <=> c \in DOMAIN tree
  BY <1>5, <1>7, <1>11
<1>13. ASSUME c \in DOMAIN left
       PROVE  /\ left[c] = "on" <=> tree[c] = "on"
              /\ left[c] = "mapping" <=> tree[c] = "mapping"
  <2>1. call[c].key = k /\ tree[c] \in NodeKinds
    BY <1>5, <1>6, <1>10, <1>12, <1>13 DEF KeyBelow
  <2> DEFINE after == KindAfter(tree[c], k, call[c].full)
  <2>2. /\ after \in {"mapping", "list"} => after = tree[c]
        /\ after = "on" => tree[c] = "on"
        /\ tree[c] \notin {"secret", "bytes"} => after = tree[c]
    BY <2>1, KindAfterIs DEF PostureKeys
  <2>3. left[c] = tree[c] \/ left[c] = after
    BY <1>8, <1>13, <2>1, KindLeftIs
  <2>. QED
    BY <2>2, <2>3
<1>14. /\ c \in DOMAIN left <=> c \in DOMAIN tree
       /\ c \in DOMAIN left => /\ left[c] = "on" <=> tree[c] = "on"
                               /\ left[c] = "mapping" <=> tree[c] = "mapping"
  BY <1>12, <1>13
<1>. QED
  BY <1>14 DEF left, c

LEMMA PostureLeft ==
  ASSUME NEW tree, IsTree(tree), NEW full,
         NEW q \in DOMAIN Redacted(tree, full),
         Redacted(tree, full)[q] = tree[q]
  PROVE  \A inherited : CaptureBelow(Redacted(tree, full), q, inherited)
                          = CaptureBelow(tree, q, inherited)
<1> DEFINE left == Redacted(tree, full)
           nested == HidCapture(q)
<1>1. CASE tree[q] # "mapping"
  BY <1>1 DEF CaptureBelow, HasPosture
<1>2. CASE tree[q] = "mapping"
  <2>1. /\ nested \in DOMAIN left <=> nested \in DOMAIN tree
        /\ nested \in DOMAIN left => (left[nested] = "mapping" <=> tree[nested] = "mapping")
    BY <1>2, PostureKeyLeft DEF HidCapture, PostureKeys
  <2>2. Append(q, "full_capture") \in DOMAIN left <=> Append(q, "full_capture") \in DOMAIN tree
    BY <1>2, PostureKeyLeft DEF PostureKeys
  <2>3. NestsPosture(left, q) <=> NestsPosture(tree, q)
    BY <2>1 DEF NestsPosture
  <2>4. ASSUME NEW r \in DOMAIN left, left[r] = "mapping"
        PROVE  TurnedOn(left, r) <=> TurnedOn(tree, r)
    BY <2>4, PostureKeyLeft DEF PostureKeys, TurnedOn
  <2>5. TurnedOn(left, q) <=> TurnedOn(tree, q)
    BY <1>2, <2>4
  <2>6. NestsPosture(left, q) => (TurnedOn(left, nested) <=> TurnedOn(tree, nested))
    BY <2>4 DEF NestsPosture
  <2>7. \A t, r : TurnedOn(t, r) \in BOOLEAN
    BY DEF TurnedOn
  <2> HIDE DEF left, nested
  <2>8. HasPosture(left, q) <=> HasPosture(tree, q)
    BY <1>2, <2>2, <2>3 DEF HasPosture, left
  <2>9. Posture(left, q) = Posture(tree, q)
    <3>1. TurnedOn(left, q) = TurnedOn(tree, q)
      BY <2>5, <2>7, Zenon
    <3>2. NestsPosture(left, q) => TurnedOn(left, nested) = TurnedOn(tree, nested)
      BY <2>6, <2>7, Zenon
    <3>. QED
      BY <2>3, <3>1, <3>2, Zenon DEF Posture, nested
  <2>10. \A inherited : CaptureBelow(left, q, inherited) = CaptureBelow(tree, q, inherited)
    BY <2>8, <2>9, Zenon DEF CaptureBelow
  <2>. QED
    BY <2>10 DEF left
<1>. QED
  BY <1>1, <1>2

\* A second pass calls redact_value as the first did.
LEMMA CallsLeft ==
  ASSUME NEW tree, IsTree(tree), NEW full, NEW p \in DOMAIN Redacted(tree, full)
  PROVE  CallsOn(Redacted(tree, full), full)[p] = CallsOn(tree, full)[p]
<1> DEFINE left == Redacted(tree, full)
           first == CallsOn(tree, full)
           again == CallsOn(left, full)
           T == {q \in DOMAIN left : again[q] = first[q]}
<1>1. IsTree(left)
  BY RedactedIsTree
<1>2. <<>> \in T
  <2>1. /\ first[<<>>] = [key |-> NoKey, full |-> full, fate |-> "visited"]
        /\ again[<<>>] = [key |-> NoKey, full |-> full, fate |-> "visited"]
    BY <1>1, RootCall
  <2>2. <<>> \in DOMAIN left
    BY <1>1 DEF IsTree
  <2>. QED
    BY <2>1, <2>2, Zenon
<1>3. ASSUME NEW q \in DOMAIN left, q # <<>>, Front(q) \in T
      PROVE  q \in T
  <2>1. Front(q) \in DOMAIN left /\ left[Front(q)] = tree[Front(q)]
    BY <1>3, HolderLeft
  <2>2. q \in DOMAIN tree
    BY PlacesLeft
  <2>3. \A inherited : CaptureBelow(left, Front(q), inherited) = CaptureBelow(tree, Front(q), inherited)
    BY <2>1, PostureLeft
  <2>4. again[Front(q)] = first[Front(q)]
    BY <1>3
  <2> HIDE DEF left
  <2>5. first[q] = CallAt(tree, full, first, q)
    <3>1. first = [r \in DOMAIN tree |-> CallAt(tree, full, first, r)]
      BY CallsOnEquation
    <3> HIDE DEF first
    <3>. QED
      BY <2>2, <3>1
  <2>6. again[q] = CallAt(left, full, again, q)
    <3>1. again = [r \in DOMAIN left |-> CallAt(left, full, again, r)]
      BY <1>1, CallsOnEquation
    <3> HIDE DEF again
    <3>. QED
      BY <3>1
  <2> HIDE DEF first, again
  <2>7. CallAt(left, full, again, q) = CallAt(tree, full, first, q)
    BY <1>3, <2>1, <2>3, <2>4, Zenon DEF CallAt
  <2>. QED
    BY <2>5, <2>6, <2>7
<1> HIDE DEF T
<1>4. p \in T
  BY <1>1, <1>2, <1>3, PathInduction
<1>. QED
  BY <1>4 DEF T

-----------------------------------------------------------------------------
(***************************************************************************)
(* What one pass leaves, and what the next one finds.                      *)
(***************************************************************************)
\* No secret is left, and no HID text but under full capture.
LEMMA NoSecretAfter ==
  ASSUME NEW tree, IsTree(tree), NEW full,
         NEW p \in DOMAIN Redacted(tree, full), "redactions" \notin Range(p)
  PROVE  LET left == Redacted(tree, full) IN
         /\ left[p] # "bytes"
         /\ left[p] = "secret" => FiledUnder(p) = "event_id"
         /\ left[p] = "plain" /\ FiledUnder(p) = "text" => CapturedAt(left, full, p)
<1> DEFINE left == Redacted(tree, full)
           call == CallsOn(tree, full)
           after == KindAfter(tree[p], call[p].key, call[p].full)
<1>1. /\ p \in DOMAIN tree /\ left[p] = KindLeft(tree[p], call[p])
      /\ call[p].fate # "dropped"
  BY PlacesLeft
<1>2. tree[p] \in NodeKinds
  BY <1>1 DEF IsTree
<1>3. call[p].key # "redactions" /\ call[p].fate # "kept"
  BY <1>1, RedactionsAreNamed
<1>4. call[p].fate = "visited"
  <2>1. call[p].fate \in Fates
    BY <1>1, FatesAre
  <2>. QED
    BY <1>1, <1>3, <2>1 DEF Fates
<1>5. call[p].key = FiledUnder(p)
  BY <1>1, CallsFollowPaths
<1>6. call[p].full = CapturedAt(left, full, p)
  <2>1. IsTree(left)
    BY RedactedIsTree
  <2>2. CallsOn(left, full)[p].full = CapturedAt(left, full, p)
    BY <2>1, CallsFollowPaths, Zenon
  <2>3. CallsOn(left, full)[p] = call[p]
    BY CallsLeft
  <2> HIDE DEF left, call
  <2>. QED
    BY <2>2, <2>3, Zenon
<1> HIDE DEF left, call
<1>7. after # "kept-list" /\ after # "bytes" /\ (after = "secret" => call[p].key = "event_id")
  BY <1>2, <1>3, KindAfterIs
<1>8. left[p] = after
  BY <1>1, <1>2, <1>4, <1>7, KindLeftIs
<1>9. after = "plain" /\ call[p].key = "text" => call[p].full
  <2> DEFINE below == call[p].full
  <2> SUFFICES ASSUME after = "plain", call[p].key = "text"
               PROVE  below
    OBVIOUS
  <2>1. KindAfter(tree[p], "text", below) = "plain"
    OBVIOUS
  <2> HIDE DEF below
  <2>. QED
    BY <1>2, <2>1, TextNeedsCapture
<1>10. left[p] = "plain" /\ FiledUnder(p) = "text" => CapturedAt(left, full, p)
  <2> HIDE DEF after
  <2>. QED
    BY <1>5, <1>6, <1>8, <1>9, Zenon
<1>11. left[p] # "bytes" /\ (left[p] = "secret" => FiledUnder(p) = "event_id")
  BY <1>5, <1>7, <1>8
<1>. QED
  BY <1>10, <1>11, Zenon DEF left

\* What a second pass reports, the first one did.
LEMMA NothingNew ==
  ASSUME NEW tree, IsTree(tree), NEW full
  PROVE  Reported(Redacted(tree, full), full) \subseteq Reported(tree, full)
<1> DEFINE left == Redacted(tree, full)
           call == CallsOn(tree, full)
<1> SUFFICES ASSUME NEW p \in Reported(left, full)
             PROVE  p \in Reported(tree, full)
  OBVIOUS
<1>1. p \in DOMAIN left
  BY DEF Reported
<1>2. CallsOn(left, full)[p] = call[p]
  BY <1>1, CallsLeft
<1>3. /\ call[p].fate = "visited"
      /\ KindAfter(left[p], call[p].key, call[p].full) \notin {"mapping", "list", "kept-list"}
      /\ Hides(left[p], call[p].key, call[p].full)
  BY <1>2 DEF Reported
<1>4. p \in DOMAIN tree /\ left[p] = KindLeft(tree[p], call[p])
  BY <1>1, PlacesLeft
<1>5. tree[p] \in NodeKinds
  BY <1>4 DEF IsTree
<1> DEFINE key == call[p].key
           below == call[p].full
           after == KindAfter(tree[p], key, below)
<1> HIDE DEF left, call
<1>6. after # "kept-list"
  <2>1. after = "kept-list" => left[p] = tree[p]
    BY <1>4 DEF KindLeft
  <2>. QED
    BY <1>3, <2>1
<1>7. left[p] = after
  BY <1>3, <1>4, <1>5, <1>6, KindLeftIs
<1> HIDE DEF key, below
<1>8. after \notin {"mapping", "list"}
  <2>1. KindAfter("mapping", key, below) # "[REDACTED]" => KindAfter("mapping", key, below) = "mapping"
    BY DEF KindAfter, Strings
  <2>2. KindAfter("list", key, below) # "[REDACTED]" => KindAfter("list", key, below) \in {"list", "kept-list"}
    BY DEF KindAfter, Strings
  <2>3. after \in {"mapping", "list"} => after = tree[p]
    BY <1>5, KindAfterIs
  <2>4. KindAfter(left[p], key, below) \notin {"mapping", "list", "kept-list"}
    BY <1>3 DEF key, below
  <2>. QED
    BY <1>7, <2>1, <2>2, <2>3, <2>4
<1>9. Hides(tree[p], key, below)
  <2>1. Hides(after, key, below)
    BY <1>3, <1>7 DEF key, below
  <2>. QED
    BY <1>5, <1>6, <1>8, <2>1, HiddenOnce
<1>10. call[p].fate = "visited" /\ after \notin {"mapping", "list", "kept-list"} /\ Hides(tree[p], key, below)
  BY <1>3, <1>6, <1>8, <1>9
<1>. QED
  BY <1>4, <1>10, Zenon DEF Reported, call, key, below

\* The report of a pass names what it changed, and what already said [REDACTED].
LEMMA OneReport ==
  ASSUME NEW tree, IsTree(tree), NEW full
  PROVE  LET left == Redacted(tree, full) IN
         /\ \A p \in DOMAIN tree \cap DOMAIN left :
              left[p] # tree[p] => p \in Reported(tree, full)
         /\ \A p \in Reported(tree, full) :
              /\ p \in DOMAIN tree /\ p \in DOMAIN left
              /\ left[p] # tree[p] \/ tree[p] = "[REDACTED]"
<1> DEFINE left == Redacted(tree, full)
           call == CallsOn(tree, full)
<1>1. ASSUME NEW p \in DOMAIN tree, p \in DOMAIN left, left[p] # tree[p]
      PROVE  p \in Reported(tree, full)
  <2> DEFINE key == call[p].key
             below == call[p].full
             after == KindAfter(tree[p], key, below)
  <2>1. left[p] = KindLeft(tree[p], call[p]) /\ call[p].fate # "dropped"
    BY <1>1, PlacesLeft
  <2>2. tree[p] \in NodeKinds
    BY DEF IsTree
  <2>3. call[p].fate \in Fates
    BY FatesAre
  <2> HIDE DEF left, call
  <2>4. call[p].fate = "visited" /\ after # "kept-list" /\ left[p] = after
    BY <1>1, <2>1, <2>3 DEF KindLeft, Fates
  <2> HIDE DEF key, below
  <2>5. after \notin {"mapping", "list"}
    BY <1>1, <2>2, <2>4, KindAfterIs
  <2>6. Hides(tree[p], key, below)
    BY <1>1, <2>4 DEF Hides
  <2>7. after \notin {"mapping", "list", "kept-list"}
    BY <2>4, <2>5
  <2>. QED
    BY <2>4, <2>6, <2>7, Zenon DEF Reported, call, key, below
<1>2. ASSUME NEW p \in Reported(tree, full)
      PROVE  /\ p \in DOMAIN tree /\ p \in DOMAIN left
             /\ left[p] # tree[p] \/ tree[p] = "[REDACTED]"
  <2> DEFINE key == call[p].key
             below == call[p].full
             after == KindAfter(tree[p], key, below)
  <2>1. p \in DOMAIN tree /\ call[p].fate = "visited" /\ Hides(tree[p], key, below)
        /\ after \notin {"mapping", "list", "kept-list"}
    BY DEF Reported
  <2>2. p \in DOMAIN left /\ left[p] = KindLeft(tree[p], call[p])
    BY <2>1, PlacesLeft
  <2>3. tree[p] \in NodeKinds
    BY <2>1 DEF IsTree
  <2> HIDE DEF left, call
  <2>4. left[p] = after
    BY <2>1, <2>2, <2>3, KindLeftIs
  <2> HIDE DEF key, below
  <2>5. after # tree[p] \/ tree[p] = "[REDACTED]"
    BY <2>1, <2>3, Zenon DEF Hides, KindAfter, HidText, CredentialKeys
  <2>. QED
    BY <2>1, <2>2, <2>4, <2>5
<1> HIDE DEF left
<1>3. /\ \A p \in DOMAIN tree \cap DOMAIN left :
           left[p] # tree[p] => p \in Reported(tree, full)
      /\ \A p \in Reported(tree, full) :
           /\ p \in DOMAIN tree /\ p \in DOMAIN left
           /\ left[p] # tree[p] \/ tree[p] = "[REDACTED]"
  BY <1>1, <1>2
<1>. QED
  BY <1>3 DEF left

-----------------------------------------------------------------------------
(***************************************************************************)
(* Every record, after any number of passes.                               *)
(***************************************************************************)
ReportsType == reports \in Seq(SUBSET Seq(STRING))
\* Nothing is left that a next pass would report for the first time.
NothingUnreported ==
  /\ reports = <<>> => record = original
  /\ reports # <<>> => Reported(record, capture) \subseteq reports[1]
RecordInv ==
  IsTree(record) /\ ReportsType /\ NothingUnreported /\ NoSecretLeft /\ ReportIsExact

LEMMA RecordInvInit == RedactionInit => RecordInv
<1> SUFFICES ASSUME RedactionInit
             PROVE  RecordInv
  OBVIOUS
<1>1. IsTree(record) /\ reports = <<>> /\ record = original
  BY RecordsAssumption DEF RedactionInit
<1>2. reports \in Seq(SUBSET Seq(STRING)) /\ Len(reports) = 0 /\ DOMAIN reports = {}
  BY <1>1, EmptySeq, LenProperties
<1>3. ReportIsExact
  BY <1>2 DEF ReportIsExact
<1>. QED
  BY <1>1, <1>2, <1>3 DEF RecordInv, ReportsType, NothingUnreported, NoSecretLeft

LEMMA RecordInvStep == RecordInv /\ [RedactMapping]_redactionVars => RecordInv'
<1> SUFFICES ASSUME RecordInv, [RedactMapping]_redactionVars
             PROVE  RecordInv'
  OBVIOUS
<1> USE DEF RecordInv
<1>1. CASE RedactMapping
  <2> DEFINE found == Reported(record, capture)
  <2>1. /\ record' = Redacted(record, capture)
        /\ reports' = Append(reports, found)
        /\ capture' = capture /\ original' = original
    BY <1>1 DEF RedactMapping
  <2>2. IsTree(record)'
    BY <2>1, RedactedIsTree
  <2>3. found \in SUBSET Seq(STRING)
    BY DEF Reported, IsTree
  <2>4. Reported(record, capture)' \subseteq found
    BY <2>1, NothingNew
  <2>5. /\ reports \in Seq(SUBSET Seq(STRING)) /\ Len(reports) \in Nat
        /\ DOMAIN reports = 1..Len(reports)
    BY LenProperties DEF ReportsType
  <2>6. /\ reports' \in Seq(SUBSET Seq(STRING)) /\ Len(reports') = Len(reports) + 1
        /\ DOMAIN reports' = 1..(Len(reports) + 1)
        /\ \A i \in 1..Len(reports) : reports'[i] = reports[i]
        /\ reports'[Len(reports) + 1] = found
    <3> HIDE DEF found
    <3>1. /\ Append(reports, found) \in Seq(SUBSET Seq(STRING))
          /\ Len(Append(reports, found)) = Len(reports) + 1
          /\ \A i \in 1..Len(reports) : Append(reports, found)[i] = reports[i]
          /\ Append(reports, found)[Len(reports) + 1] = found
      BY <2>3, <2>5, AppendProperties
    <3>2. DOMAIN Append(reports, found) = 1..(Len(reports) + 1)
      BY <3>1, LenProperties
    <3>. QED
      BY <2>1, <3>1, <3>2
  <2>7. reports' # <<>>
    BY <2>5, <2>6, EmptySeq
  <2>8. found \subseteq reports'[1] /\ (reports # <<>> => reports'[1] = reports[1])
    <3>1. CASE reports = <<>>
      <4>1. Len(reports) = 0
        BY <3>1, EmptySeq
      <4>. QED
        BY <2>6, <3>1, <4>1
    <3>2. CASE reports # <<>>
      <4>1. Len(reports) > 0
        BY <2>5, <3>2, EmptySeq
      <4>2. reports'[1] = reports[1]
        BY <2>5, <2>6, <4>1
      <4>. QED
        BY <3>2, <4>2 DEF NothingUnreported
    <3>. QED
      BY <3>1, <3>2
  <2>9. ReportsType'
    BY <2>6 DEF ReportsType
  <2>10. NothingUnreported'
    BY <2>4, <2>7, <2>8 DEF NothingUnreported
  <2>11. NoSecretLeft'
    <3>1. \A p \in DOMAIN record' : "redactions" \notin Range(p) =>
            /\ record'[p] # "bytes"
            /\ record'[p] = "secret" => FiledUnder(p) = "event_id"
            /\ record'[p] = "plain" /\ FiledUnder(p) = "text" => CapturedAt(record', capture, p)
      BY <2>1, NoSecretAfter, Zenon
    <3>. QED
      BY <2>1, <3>1, Zenon DEF NoSecretLeft
  <2>12. ReportIsExact'
    <3>1. ASSUME NEW i \in DOMAIN reports'
          PROVE  reports'[i] \subseteq reports'[1]
      <4>1. CASE i = Len(reports) + 1
        BY <2>6, <2>8, <4>1
      <4>2. CASE i # Len(reports) + 1
        <5>1. i \in 1..Len(reports)
          BY <2>5, <2>6, <4>2
        <5>2. reports # <<>> /\ reports'[i] = reports[i]
          BY <2>5, <2>6, <5>1, EmptySeq
        <5>. QED
          BY <2>5, <2>8, <5>1, <5>2 DEF ReportIsExact
      <4>. QED
        BY <4>1, <4>2
    <3>2. ASSUME Len(reports') = 1
          PROVE  reports'[1] = found /\ record = original
      <4>1. Len(reports) = 0
        BY <2>5, <2>6, <3>2
      <4>2. reports = <<>>
        BY <2>5, <4>1, EmptySeq
      <4>. QED
        BY <2>6, <4>1, <4>2 DEF NothingUnreported
    <3>3. /\ \A p \in DOMAIN record \cap DOMAIN record' : record'[p] # record[p] => p \in found
          /\ \A p \in found : /\ p \in DOMAIN record /\ p \in DOMAIN record'
                              /\ record'[p] # record[p] \/ record[p] = "[REDACTED]"
      BY <2>1, OneReport
    <3> HIDE DEF found
    <3>. QED
      BY <2>1, <3>1, <3>2, <3>3 DEF ReportIsExact
  <2>. QED
    BY <2>2, <2>9, <2>10, <2>11, <2>12
<1>2. CASE UNCHANGED redactionVars
  BY <1>2 DEF redactionVars, ReportsType, NothingUnreported, NoSecretLeft, ReportIsExact
<1>. QED
  BY <1>1, <1>2

THEOREM RecordsRedacted == RedactionSpec => []RecordInv
BY RecordInvInit, RecordInvStep, PTL DEF RedactionSpec

\* Once a record was redacted, no bytes and no secret are left anywhere in it, and
\* no HID text where its posture does not opt in, whatever its shape and depth.
THEOREM NoSecretLeftHolds == RedactionSpec => []NoSecretLeft
<1>1. RecordInv => NoSecretLeft
  BY DEF RecordInv
<1>. QED
  BY <1>1, RecordsRedacted, PTL

\* The first report names the places that changed, and those alone but for what
\* said [REDACTED] already; no later one names a place the first did not.
THEOREM ReportIsExactHolds == RedactionSpec => []ReportIsExact
<1>1. RecordInv => ReportIsExact
  BY DEF RecordInv
<1>. QED
  BY <1>1, RecordsRedacted, PTL
=============================================================================
