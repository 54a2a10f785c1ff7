-------------------------- MODULE VerificationProofs --------------------------
(***************************************************************************)
(* Proofs about what reads and judges the books.  The components of        *)
(* MC_Verification share no state, so each has an invariant of its own.    *)
(***************************************************************************)
EXTENDS MC_Verification, BooksProofs

(* A set of at most one element has no two different ones.                 *)
LEMMA AtMostOne ==
    ASSUME NEW S, IsFiniteSet(S)
    PROVE  Cardinality(S) <= 1 <=> \A x, y \in S : x = y
<1>1. Cardinality(S) \in Nat
  BY FS_CardinalityType
<1>2. ASSUME Cardinality(S) <= 1, NEW x \in S, NEW y \in S PROVE x = y
  <2>1. Cardinality(S) = 0 \/ Cardinality(S) = 1
    BY <1>1, <1>2
  <2>2. S = {} \/ \E z : S = {z}
    BY <2>1, FS_EmptySet, FS_Singleton
  <2> QED BY <2>2, <1>2
<1>3. ASSUME \A x, y \in S : x = y PROVE Cardinality(S) <= 1
  <2>1. S = {} \/ \E z : S = {z}
    BY <1>3
  <2>2. Cardinality(S) = 0 \/ Cardinality(S) = 1
    BY <2>1, FS_EmptySet, FS_Singleton
  <2> QED BY <2>2
<1> QED BY <1>2, <1>3

-----------------------------------------------------------------------------
(* Consensus                                                               *)

OwnReports(r, v) == Select(r, {x \in ToSet(r) : x.verifierId = v})

(* The reports of a verifier: some, each in the list, and the first of the *)
(* list where that is its own.                                             *)
LEMMA OwnAre ==
    ASSUME NEW r, IsSequence(r), NEW v \in VerifiersOf(r)
    PROVE  LET own == OwnReports(r, v)
           IN  /\ IsSequence(own) /\ 1 \in DOMAIN own
               /\ \A k \in DOMAIN own : \E i \in DOMAIN r : own[k] = r[i] /\ r[i].verifierId = v
               /\ \A i \in DOMAIN r : r[i].verifierId = v => \E k \in DOMAIN own : own[k] = r[i]
               /\ 1 \in DOMAIN r /\ (r[1].verifierId = v => own[1] = r[1])
<1> DEFINE S == {r[i] : i \in DOMAIN r}
           T == {x \in ToSet(r) : x.verifierId = v}
           own == OwnReports(r, v)
<1>1. r \in Seq(S) /\ Len(r) \in Nat /\ DOMAIN r = 1..Len(r)
  BY DEF IsSequence
<1>2. own = Select(r, T)
  BY DEF OwnReports
<1>3. \A i \in DOMAIN r : r[i] \in T <=> r[i].verifierId = v
  BY DEF ToSet
<1> HIDE DEF T, own
<1>4. own \in Seq(S) /\ \E at : PlacedAt(at, own, r, Len(r), T)
  BY <1>1, <1>2, SelectPlaces DEF S
<1>5. PICK at : PlacedAt(at, own, r, Len(r), T)
  BY <1>4
<1> HIDE DEF S
<1>6. IsSequence(own) /\ Len(own) \in Nat /\ DOMAIN own = 1..Len(own)
  BY <1>4, SequenceIntro
<1>7. \A k \in DOMAIN own : \E i \in DOMAIN r : own[k] = r[i] /\ r[i].verifierId = v
  BY <1>1, <1>3, <1>5, <1>6 DEF PlacedAt
<1>8. ASSUME NEW i \in DOMAIN r, r[i].verifierId = v PROVE \E k \in DOMAIN own : own[k] = r[i]
  <2>1. i \in 1..Len(r) /\ r[i] \in T
    BY <1>1, <1>3, <1>8
  <2>2. PICK k \in 1..Len(own) : at[k] = i
    BY <2>1, <1>5 DEF PlacedAt
  <2>3. own[k] = r[i]
    BY <2>2, <1>5 DEF PlacedAt
  <2> QED BY <2>2, <2>3, <1>6
<1>9. PICK i \in DOMAIN r : r[i].verifierId = v
  BY DEF VerifiersOf
<1>10. PICK k \in DOMAIN own : own[k] = r[i]
  BY <1>8, <1>9
<1>11. 1 \in DOMAIN own /\ 1 \in DOMAIN r
  BY <1>1, <1>6, <1>9, <1>10
<1>12. ASSUME r[1].verifierId = v PROVE own[1] = r[1]
  <2>1. PICK j \in 1..Len(own) : at[j] = 1
    BY <1>12, <1>11, <1>1, <1>3, <1>5 DEF PlacedAt
  <2>2. j = 1
    <3>1. 1 \in 1..Len(own) /\ at[1] \in 1..Len(r) /\ j \in Int /\ Len(own) \in Nat
      BY <1>11, <1>6, <1>5 DEF PlacedAt
    <3>2. 1 < j => at[1] < at[j]
      BY <3>1, <1>5 DEF PlacedAt
    <3> QED BY <3>1, <3>2, <2>1, <1>1
  <2> QED BY <2>1, <2>2, <1>5 DEF PlacedAt
<1> QED BY <1>6, <1>7, <1>8, <1>11, <1>12 DEF own

(* A verifier's vote is a PASS exactly when all it reported is, on one     *)
(* bundle; the bundle of its vote is that of one of its reports, of the    *)
(* first of the list where that is its own.                                *)
LEMMA VoteIs ==
    ASSUME NEW r, IsSequence(r), NEW v \in VerifiersOf(r)
    PROVE  LET vote == voteOf(r, v)
               own == {i \in DOMAIN r : r[i].verifierId = v}
           IN  /\ vote.verdict = "PASS" <=>
                    \A i \in own : r[i].verdict = "PASS" /\ r[i].bundleHash = vote.bundleHash
               /\ \E i \in own : vote.bundleHash = r[i].bundleHash
               /\ 1 \in DOMAIN r /\ (r[1].verifierId = v => vote.bundleHash = r[1].bundleHash)
<1> DEFINE o == OwnReports(r, v)
           vote == voteOf(r, v)
           own == {i \in DOMAIN r : r[i].verifierId = v}
           conflicted == \E k \in DOMAIN o : \/ o[k].verdict # o[1].verdict
                                             \/ o[k].bundleHash # o[1].bundleHash
<1>1. /\ 1 \in DOMAIN o
      /\ \A k \in DOMAIN o : \E i \in own : o[k] = r[i]
      /\ \A i \in own : \E k \in DOMAIN o : o[k] = r[i]
      /\ 1 \in DOMAIN r /\ (r[1].verifierId = v => o[1] = r[1])
  BY OwnAre
<1>2. /\ vote.verdict = IF conflicted THEN "FAIL" ELSE o[1].verdict
      /\ vote.bundleHash = o[1].bundleHash
  BY DEF voteOf, OwnReports
<1> HIDE DEF o, vote, own
<1>3. vote.verdict = "PASS" <=>
        \A i \in own : r[i].verdict = "PASS" /\ r[i].bundleHash = vote.bundleHash
  BY <1>1, <1>2
<1>4. \E i \in own : vote.bundleHash = r[i].bundleHash
  BY <1>1, <1>2
<1> QED BY <1>1, <1>2, <1>3, <1>4 DEF vote, own

(* There are finitely many verifiers.                                      *)
LEMMA VerifiersFinite ==
    ASSUME NEW r, IsSequence(r)
    PROVE  /\ IsFiniteSet(VerifiersOf(r)) /\ Cardinality(VerifiersOf(r)) \in Nat
           /\ IsFiniteSet({voteOf(r, v).bundleHash : v \in VerifiersOf(r)})
<1>1. DOMAIN r = 1..Len(r) /\ Len(r) \in Nat
  BY DEF IsSequence
<1>2. IsFiniteSet(DOMAIN r)
  BY <1>1, FS_Interval
<1> DEFINE V == VerifiersOf(r)
           f == [k \in DOMAIN r |-> r[k].verifierId]
           B == {voteOf(r, v).bundleHash : v \in V}
           g == [v \in V |-> voteOf(r, v).bundleHash]
<1>3. f \in Surjection(DOMAIN r, V)
  BY DEF Surjection, VerifiersOf
<1>4. IsFiniteSet(V)
  BY <1>2, <1>3, FS_Surjection
<1>5. g \in Surjection(V, B)
  BY DEF Surjection
<1>6. IsFiniteSet(B)
  BY <1>4, <1>5, FS_Surjection
<1> QED BY <1>4, <1>6, FS_CardinalityType

Backs(r, v) == \A k \in DOMAIN r : r[k].verifierId = v =>
                   r[k].verdict = "PASS" /\ r[k].bundleHash = r[1].bundleHash
Backers(r) == {v \in VerifiersOf(r) : Backs(r, v)}

(* What the aggregation of any list of reports says.                       *)
LEMMA AggregateIs ==
    ASSUME NEW r, IsSequence(r), NEW m \in Int
    PROVE  LET a == aggregateVerifierReports(r, m)
               V == VerifiersOf(r)
           IN  /\ a.verdict = "PASS" <=>
                    /\ Cardinality(V) > 0 /\ Cardinality(V) >= m
                    /\ \A v, w \in V : voteOf(r, v).bundleHash = voteOf(r, w).bundleHash
                    /\ 2 * Cardinality(Passing(r)) > Cardinality(V)
               /\ a.dissenters = {v \in V : voteOf(r, v).verdict # a.verdict}
               /\ a.singleVerifierPass => m <= 1
<1> DEFINE V == VerifiersOf(r)
           B == {voteOf(r, v).bundleHash : v \in V}
           a == aggregateVerifierReports(r, m)
<1>1. IsFiniteSet(B)
  BY VerifiersFinite
<1>2. Cardinality(B) <= 1 <=> \A v, w \in V : voteOf(r, v).bundleHash = voteOf(r, w).bundleHash
  <2>1. Cardinality(B) <= 1 <=> \A x, y \in B : x = y
    BY <1>1, AtMostOne
  <2> QED BY <2>1
<1>3. /\ a.verdict = IF /\ Cardinality(V) > 0 /\ Cardinality(V) >= m /\ Cardinality(B) <= 1
                        /\ 2 * Cardinality(Passing(r)) > Cardinality(V)
                     THEN "PASS" ELSE "FAIL"
      /\ a.dissenters = {v \in V : voteOf(r, v).verdict # a.verdict}
      /\ a.singleVerifierPass = (a.verdict = "PASS" /\ m <= 1)
  BY DEF aggregateVerifierReports
<1> HIDE DEF a, B, V
<1> QED BY <1>2, <1>3 DEF a, V

(* Where the votes agree on the bundle, those that pass are the verifiers  *)
(* that back the bundle of the first report with everything they said.     *)
LEMMA PassingBack ==
    ASSUME NEW r, IsSequence(r),
           \A v, w \in VerifiersOf(r) : voteOf(r, v).bundleHash = voteOf(r, w).bundleHash
    PROVE  Passing(r) = Backers(r)
<1>1. ASSUME NEW v \in VerifiersOf(r) PROVE voteOf(r, v).verdict = "PASS" <=> Backs(r, v)
  <2> DEFINE own == {i \in DOMAIN r : r[i].verifierId = v}
  <2>1. /\ voteOf(r, v).verdict = "PASS" <=>
             \A i \in own : r[i].verdict = "PASS" /\ r[i].bundleHash = voteOf(r, v).bundleHash
        /\ \E i \in own : voteOf(r, v).bundleHash = r[i].bundleHash
        /\ 1 \in DOMAIN r
    BY VoteIs
  <2> DEFINE w == r[1].verifierId
  <2>2. w \in VerifiersOf(r)
    BY <2>1 DEF VerifiersOf
  <2>3. voteOf(r, w).bundleHash = r[1].bundleHash
    BY <2>2, VoteIs
  <2>4. voteOf(r, v).bundleHash = r[1].bundleHash
    BY <2>2, <2>3
  <2> HIDE DEF w
  <2> QED BY <2>1, <2>4 DEF Backs
<1> QED BY <1>1 DEF Passing, Backers

(* Aggregation fails closed.                                               *)
LEMMA AggregateSound ==
    ASSUME NEW r, IsSequence(r), NEW m \in Int,
           aggregateVerifierReports(r, m).verdict = "PASS"
    PROVE  /\ Cardinality(VerifiersOf(r)) >= m
           /\ 2 * Cardinality(Backers(r)) > Cardinality(VerifiersOf(r))
           /\ aggregateVerifierReports(r, m).dissenters = VerifiersOf(r) \ Backers(r)
<1> DEFINE a == aggregateVerifierReports(r, m)
           V == VerifiersOf(r)
<1>1. /\ Cardinality(V) >= m
      /\ \A v, w \in V : voteOf(r, v).bundleHash = voteOf(r, w).bundleHash
      /\ 2 * Cardinality(Passing(r)) > Cardinality(V)
      /\ a.dissenters = {v \in V : voteOf(r, v).verdict # a.verdict}
  BY AggregateIs
<1>2. Passing(r) = Backers(r)
  BY <1>1, PassingBack
<1>3. a.dissenters = V \ Passing(r)
  BY <1>1 DEF Passing
<1> QED BY <1>1, <1>2, <1>3

(* So does the evaluation of a service level.                              *)
LEMMA SlaSound ==
    ASSUME NEW targets, NEW metrics, evaluateSla(targets, metrics).verdict = "PASS"
    PROVE  \A t \in Range(targets) : t.metric \in DOMAIN metrics /\ metrics[t.metric] # NotFinite
<1>1. {k \in DOMAIN targets : evaluateTarget(targets[k], metrics)} = DOMAIN targets
  BY DEF evaluateSla
<1> QED BY <1>1 DEF Range, evaluateTarget, compareThreshold

-----------------------------------------------------------------------------
(* Replay of a ledger                                                      *)

(* The places where correlation ids appear first are in order.             *)
LEMMA FirstsIncrease ==
    ASSUME NEW es, IsSequence(es)
    PROVE  /\ \A j, k \in 1..Len(Firsts(es)) : j < k => Firsts(es)[j] < Firsts(es)[k]
           /\ \A k \in 1..Len(Firsts(es)) : Firsts(es)[k] \in NewAt(es)
<1> DEFINE u == Upto(Len(es))
           f == Firsts(es)
<1>1. Len(es) \in Nat /\ DOMAIN es = 1..Len(es)
  BY DEF IsSequence
<1>2. u \in Seq(Nat) /\ Len(u) = Len(es) /\ \A i \in 1..Len(es) : u[i] = i
  BY <1>1 DEF Upto
<1>3. f = Select(u, NewAt(es))
  BY DEF Firsts
<1> HIDE DEF u, f
<1>4. PICK at : PlacedAt(at, f, u, Len(u), NewAt(es))
  BY <1>2, <1>3, SelectPlaces
<1>5. \A k \in 1..Len(f) : at[k] \in 1..Len(es) /\ f[k] = at[k] /\ f[k] \in NewAt(es)
  BY <1>2, <1>4 DEF PlacedAt
<1>6. \A j, k \in 1..Len(f) : j < k => f[j] < f[k]
  BY <1>5, <1>4 DEF PlacedAt
<1> QED BY <1>5, <1>6 DEF f

(* No correlation id is used again after another one.                      *)
InBlocks(es) ==
    \A i, j, k \in DOMAIN es :
        i < j /\ j < k /\ es[i].correlationId = es[k].correlationId
            => es[i].correlationId = es[j].correlationId

(* A new block keeps the blocks apart.                                     *)
LEMMA BlockAdded ==
    ASSUME NEW es, NEW fs, IsSequence(es), IsSequence(fs), InBlocks(es),
           NEW x, \A i \in DOMAIN fs : fs[i].correlationId = x, x \notin CorrsOf(es)
    PROVE  InBlocks(es \o fs)
<1>1. /\ Len(es) \in Nat /\ DOMAIN es = 1..Len(es) /\ Len(fs) \in Nat /\ DOMAIN fs = 1..Len(fs)
  BY DEF IsSequence
<1>2. /\ IsSequence(es \o fs) /\ Len(es \o fs) = Len(es) + Len(fs)
      /\ \A i \in 1..Len(es) : (es \o fs)[i] = es[i]
      /\ \A i \in 1..Len(fs) : (es \o fs)[Len(es) + i] = fs[i]
  BY ConcatElements
<1> DEFINE g == es \o fs
<1>3. DOMAIN g = 1..(Len(es) + Len(fs))
  BY <1>2 DEF IsSequence
<1> HIDE DEF g
<1>4. \A i \in DOMAIN g : i > Len(es) => g[i].correlationId = x
  <2> SUFFICES ASSUME NEW i \in DOMAIN g, i > Len(es) PROVE g[i].correlationId = x
    OBVIOUS
  <2>1. i - Len(es) \in 1..Len(fs) /\ Len(es) + (i - Len(es)) = i
    BY <1>1, <1>3
  <2> QED BY <2>1, <1>1, <1>2 DEF g
<1>5. \A i \in DOMAIN g : i <= Len(es) => i \in DOMAIN es /\ g[i] = es[i] /\ g[i].correlationId # x
  BY <1>1, <1>2, <1>3 DEF g, CorrsOf
<1>6. InBlocks(g)
  <2> SUFFICES ASSUME NEW i \in DOMAIN g, NEW j \in DOMAIN g, NEW k \in DOMAIN g, i < j, j < k,
                      g[i].correlationId = g[k].correlationId
               PROVE  g[i].correlationId = g[j].correlationId
    BY DEF InBlocks
  <2>1. CASE k <= Len(es)
    BY <2>1, <1>1, <1>3, <1>5 DEF InBlocks
  <2>2. CASE k > Len(es)
    <3>1. g[k].correlationId = x /\ i > Len(es) /\ j > Len(es)
      BY <2>2, <1>1, <1>3, <1>4, <1>5
    <3> QED BY <3>1, <1>4
  <2> QED BY <2>1, <2>2, <1>1, <1>3
<1> QED BY <1>6 DEF g

(* In a ledger of blocks, what the first n correlation ids left is         *)
(* followed by the block of the next.                                      *)
LEMMA BlockNext ==
    ASSUME NEW es, NEW A, Tidy(es, A), InBlocks(es), NEW n \in Nat, n < Len(Groups(es)),
           NEW l, Stage(l, es, A, n), NEW p \in 0..Len(es), l.entries = SubSeq(es, 1, p)
    PROVE  \E q \in 0..Len(es) : l.entries \o Groups(es)[n + 1] = SubSeq(es, 1, q)
<1> DEFINE ks == Correlations(es)
           f == Firsts(es)
           N == Len(es)
           x == ks[n + 1]
<1>1. IsSequence(es) /\ Once(es) /\ N \in Nat /\ DOMAIN es = 1..N
  BY DEF Tidy, IsSequence
<1>2. /\ IsSequence(ks) /\ ToSet(ks) = CorrsOf(es)
      /\ \A j, k \in DOMAIN ks : ks[j] = ks[k] => j = k
  BY <1>1, CorrelationsList
<1>3. /\ f \in Seq(1..N) /\ Len(f) \in Nat /\ Len(ks) = Len(f)
      /\ \A k \in 1..Len(f) : ks[k] = es[f[k]].correlationId
  BY <1>1, CorrelationsAre
<1>4. /\ \A j, k \in 1..Len(f) : j < k => f[j] < f[k]
      /\ \A k \in 1..Len(f) : f[k] \in NewAt(es)
  BY <1>1, FirstsIncrease
<1>5. /\ n + 1 \in 1..Len(f) /\ DOMAIN ks = 1..Len(f) /\ Groups(es)[n + 1] = Group(es, x)
  <2>1. /\ DOMAIN Groups(es) = DOMAIN ks /\ Len(Groups(es)) = Len(ks)
        /\ \A k \in DOMAIN Groups(es) : Groups(es)[k] = Group(es, ks[k])
    BY <1>1, GroupsAre
  <2>2. DOMAIN ks = 1..Len(ks)
    <3> HIDE DEF ks
    <3> QED BY <1>2 DEF IsSequence
  <2>3. n + 1 \in 1..Len(f)
    BY <2>1, <1>3
  <2> QED BY <2>1, <2>2, <2>3, <1>3
<1>6. /\ IsSequence(l.entries) /\ Len(l.entries) = p /\ p \in Nat
      /\ \A i \in 1..p : l.entries[i] = es[i]
  BY <1>1, PrefixElements
<1>7. ToSet(l.entries) = {e \in ToSet(es) : \E k \in 1..n : e.correlationId = ks[k]}
  BY DEF Stage
<1> HIDE DEF ks, f, N
<1>8. \A i \in 1..p : \E k \in 1..n : es[i].correlationId = ks[k]
  <2> SUFFICES ASSUME NEW i \in 1..p PROVE es[i] \in ToSet(l.entries)
    BY <1>7
  <2>1. DOMAIN l.entries = 1..p
    BY <1>6 DEF IsSequence
  <2> QED BY <2>1, <1>6 DEF ToSet
<1>9. \A i \in DOMAIN es : i > p => \A k \in 1..n : es[i].correlationId # ks[k]
  <2> SUFFICES ASSUME NEW i \in DOMAIN es, i > p, NEW k \in 1..n, es[i].correlationId = ks[k]
               PROVE  FALSE
    OBVIOUS
  <2>1. es[i] \in ToSet(l.entries)
    BY <1>7 DEF ToSet
  <2>2. PICK j \in DOMAIN l.entries : l.entries[j] = es[i]
    BY <2>1 DEF ToSet
  <2>3. j \in 1..p /\ es[j] = es[i] /\ j \in DOMAIN es
    <3>1. j \in 1..p
      BY <2>2, <1>6 DEF IsSequence
    <3> QED BY <3>1, <2>2, <1>6, <1>1 DEF N
  <2> QED BY <2>3, <1>1, <1>6 DEF Once
<1>9a. \A k \in 1..Len(f) : f[k] \in 1..N /\ f[k] \in Int
  <2> SUFFICES ASSUME NEW k \in 1..Len(f) PROVE f[k] \in 1..N
    BY <1>1
  <2> DEFINE W == 1..N
  <2>1. f \in Seq(W)
    BY <1>3
  <2> HIDE DEF W
  <2>2. f[k] \in W
    BY <2>1
  <2> QED BY <2>2 DEF W
<1>10. f[n + 1] \in 1..N /\ es[f[n + 1]].correlationId = x /\ f[n + 1] > p
  <2>1. f[n + 1] \in 1..N /\ es[f[n + 1]].correlationId = x
    BY <1>3, <1>5, <1>9a
  <2>2. ASSUME f[n + 1] <= p PROVE FALSE
    <3>1. PICK k \in 1..n : x = ks[k]
      BY <2>1, <2>2, <1>8
    <3>2. k \in DOMAIN ks /\ n + 1 \in DOMAIN ks /\ k # n + 1
      BY <1>3, <1>5
    <3> QED BY <3>1, <3>2, <1>2
  <2> QED BY <2>1, <2>2, <1>6, <1>1
<1>11. p + 1 \in DOMAIN es /\ f[n + 1] = p + 1
  <2>1. p + 1 \in DOMAIN es
    BY <1>1, <1>6, <1>10
  <2>2. PICK k \in DOMAIN ks : es[p + 1].correlationId = ks[k]
    <3>1. es[p + 1].correlationId \in ToSet(ks)
      BY <2>1, <1>2 DEF CorrsOf
    <3> QED BY <3>1 DEF ToSet
  <2>3. k \in 1..Len(f) /\ k > n
    <3>1. k \in 1..Len(f)
      BY <1>5
    <3>2. k \notin 1..n
      BY <2>1, <2>2, <1>6, <1>9
    <3> QED BY <3>1, <3>2, <1>3
  <2>4. f[k] <= p + 1
    <3>1. f[k] \in 1..N /\ f[k] \in NewAt(es) /\ es[f[k]].correlationId = es[p + 1].correlationId
      BY <2>2, <2>3, <1>3, <1>4, <1>9a
    <3>2. ~(p + 1 \in 1..(f[k] - 1))
      BY <3>1 DEF NewAt
    <3> QED BY <3>1, <3>2, <1>6, <1>1
  <2>5. f[n + 1] <= f[k]
    <3>1. n + 1 = k \/ n + 1 < k
      BY <2>3
    <3>2. f[n + 1] \in Int /\ f[k] \in Int
      BY <1>5, <1>9a, <2>3
    <3> QED BY <3>1, <3>2, <2>3, <1>4, <1>5
  <2>6. f[n + 1] \in Int /\ f[k] \in Int
    BY <1>5, <1>9a, <2>3
  <2> QED BY <2>1, <2>4, <2>5, <2>6, <1>10, <1>6
<1> DEFINE X == {i \in DOMAIN es : es[i].correlationId = x}
<1>12. PICK q \in X : \A i \in X : i <= q
  <2>1. X \in SUBSET Nat /\ X # {} /\ \A i \in X : i <= N
    BY <1>1, <1>10
  <2> HIDE DEF X
  <2> QED BY <2>1, <1>1, GreatestNatural
<1>13. q \in 1..N /\ p < q /\ es[q].correlationId = x
  BY <1>12, <1>11, <1>10, <1>1
<1>14. \A i \in (p + 1)..q : es[i].correlationId = x
  <2> SUFFICES ASSUME NEW i \in (p + 1)..q PROVE es[i].correlationId = x
    OBVIOUS
  <2>1. i \in DOMAIN es /\ q \in DOMAIN es /\ p + 1 \in DOMAIN es /\ es[p + 1].correlationId = x
    BY <1>1, <1>6, <1>10, <1>11, <1>13
  <2>2. CASE i = p + 1 \/ i = q
    BY <2>1, <2>2, <1>13
  <2>3. CASE p + 1 < i /\ i < q
    BY <2>1, <2>3, <1>13 DEF InBlocks
  <2> QED BY <2>2, <2>3, <1>6
<1>15. \A i \in 1..p : es[i].correlationId # x
  <2> SUFFICES ASSUME NEW i \in 1..p, es[i].correlationId = x PROVE FALSE
    OBVIOUS
  <2>1. PICK k \in 1..n : x = ks[k]
    BY <1>8
  <2>2. k \in DOMAIN ks /\ n + 1 \in DOMAIN ks /\ k # n + 1
    BY <1>3, <1>5
  <2> QED BY <2>1, <2>2, <1>2
<1>16. \A i \in DOMAIN es : i > q => es[i].correlationId # x
  BY <1>12, <1>1, <1>13
<1> HIDE DEF X, x
<1> DEFINE front == SubSeq(es, 1, q)
           head == SubSeq(es, 1, p)
           mid == SubSeq(front, p + 1, q)
           rest == SubSeq(es, q + 1, N)
<1>17. /\ IsSequence(front) /\ Len(front) = q /\ \A i \in 1..q : front[i] = es[i]
  <2>1. q \in 0..Len(es)
    BY <1>13, <1>1 DEF N
  <2> QED BY <1>1, <2>1, PrefixElements
<1>18. /\ IsSequence(rest) /\ Len(rest) = N - q /\ es = front \o rest
       /\ \A i \in 1..(N - q) : rest[i] = es[q + i]
  <2>1. q \in 0..Len(es)
    BY <1>13, <1>1 DEF N
  <2> QED BY <1>1, <2>1, CutSequence DEF N
<1> HIDE DEF front, rest
<1>19. /\ IsSequence(mid) /\ Len(mid) = q - p /\ front = SubSeq(front, 1, p) \o mid
       /\ \A i \in 1..(q - p) : mid[i] = front[p + i]
  <2>1. p \in 0..Len(front)
    BY <1>13, <1>6, <1>17
  <2> QED BY <1>17, <2>1, CutSequence
<1>20. SubSeq(front, 1, p) = head
  <2>1. p \in 0..Len(front) /\ p \in 0..Len(es)
    BY <1>13, <1>6, <1>17
  <2>2. /\ IsSequence(SubSeq(front, 1, p)) /\ Len(SubSeq(front, 1, p)) = p
        /\ \A i \in 1..p : SubSeq(front, 1, p)[i] = front[i]
    BY <2>1, <1>17, PrefixElements
  <2>3. IsSequence(head) /\ Len(head) = p /\ \A i \in 1..p : head[i] = es[i]
    BY <2>1, <1>1, PrefixElements
  <2>4. \A i \in 1..p : SubSeq(front, 1, p)[i] = head[i]
    BY <2>2, <2>3, <1>17, <1>13, <1>6
  <2> HIDE DEF head
  <2> QED BY <2>2, <2>3, <2>4, SameSequence
<1> HIDE DEF mid
<1>21. l.entries = head /\ IsSequence(head) /\ front = head \o mid
  BY <1>19, <1>20, <1>6
<1> HIDE DEF head
<1>22. \A i \in DOMAIN mid : mid[i].correlationId = x
  <2> SUFFICES ASSUME NEW i \in DOMAIN mid PROVE mid[i].correlationId = x
    OBVIOUS
  <2>1. i \in 1..(q - p)
    BY <1>19 DEF IsSequence
  <2>2. p + i \in (p + 1)..q /\ p + i \in 1..q
    BY <2>1, <1>6, <1>13
  <2> QED BY <2>1, <2>2, <1>14, <1>17, <1>19
<1>23. x \notin CorrsOf(head)
  <2> SUFFICES ASSUME NEW i \in DOMAIN head, head[i].correlationId = x PROVE FALSE
    BY DEF CorrsOf
  <2>1. i \in 1..p /\ head[i] = es[i]
    BY <1>6, <1>21 DEF IsSequence
  <2> QED BY <2>1, <1>15
<1>24. x \notin CorrsOf(rest)
  <2> SUFFICES ASSUME NEW i \in DOMAIN rest, rest[i].correlationId = x PROVE FALSE
    BY DEF CorrsOf
  <2>1. i \in 1..(N - q)
    BY <1>18 DEF IsSequence
  <2>2. q + i \in DOMAIN es /\ q + i > q
    BY <2>1, <1>1, <1>13
  <2> QED BY <2>1, <2>2, <1>16, <1>18
<1>25. Group(es, x) = mid
  <2>1. Group(es, x) = Group(front, x) \o Group(rest, x)
    BY <1>17, <1>18, GroupConcat
  <2>2. Group(front, x) = Group(head, x) \o Group(mid, x)
    BY <1>19, <1>21, GroupConcat
  <2>3. Group(head, x) = <<>> /\ Group(rest, x) = <<>> /\ Group(mid, x) = mid
    <3>1. Group(head, x) = <<>>
      BY <1>21, <1>23, GroupOfOne
    <3>2. Group(rest, x) = <<>>
      BY <1>18, <1>24, GroupOfOne
    <3>3. Group(mid, x) = mid
      BY <1>19, <1>22, GroupOfOne
    <3> QED BY <3>1, <3>2, <3>3
  <2>4. \A t : IsSequence(t) => <<>> \o t = t /\ t \o <<>> = t
    BY DEF IsSequence
  <2> QED BY <2>1, <2>2, <2>3, <2>4, <1>19
<1>26. l.entries \o Groups(es)[n + 1] = SubSeq(es, 1, q)
  BY <1>5, <1>21, <1>25 DEF front
<1>27. q \in 0..Len(es)
  BY <1>1, <1>13 DEF N
<1> QED BY <1>26, <1>27

(* The ledger that fromSnapshot rebuilds is one of blocks, and the front   *)
(* of the old one where that is one of blocks too.                         *)
LEMMA BlocksRebuilt ==
    ASSUME NEW es, NEW A, Tidy(es, A)
    PROVE  \A n \in 0..Len(Groups(es)) :
              LET l == Rebuilt(A, Groups(es))[n]
              IN  /\ InBlocks(l.entries)
                  /\ InBlocks(es) => \E p \in 0..Len(es) : l.entries = SubSeq(es, 1, p)
<1> DEFINE gs == Groups(es)
           ks == Correlations(es)
           at == Rebuilt(A, gs)
           G(n) == /\ InBlocks(at[n].entries)
                   /\ InBlocks(es) => \E p \in 0..Len(es) : at[n].entries = SubSeq(es, 1, p)
           P == {n \in Nat : n <= Len(gs) => G(n)}
<1>0. IsSequence(es) /\ Len(es) \in Nat
  BY DEF Tidy, IsSequence
<1>1. /\ gs \in Seq(Seq(ToSet(es))) /\ DOMAIN gs = DOMAIN ks /\ Len(gs) = Len(ks)
      /\ \A k \in DOMAIN gs : gs[k] = Group(es, ks[k])
  BY <1>0, GroupsAre
<1>2. Len(gs) \in Nat /\ DOMAIN gs = 1..Len(gs)
  <2> DEFINE W == Seq(ToSet(es))
  <2>1. gs \in Seq(W)
    BY <1>1
  <2> HIDE DEF W, gs
  <2> QED BY <2>1
<1>3. /\ at[0] = WithAccounts(EmptyLedger, A)
      /\ \A n \in 1..Len(gs) : at[n] = append(at[n - 1], gs[n])
  <2> HIDE DEF gs
  <2> QED BY <1>1, RebuiltSteps
<1>4. \A n \in 0..Len(gs) : Stage(at[n], es, A, n)
  BY Rebuilding
<1>5. /\ ToSet(ks) = CorrsOf(es) /\ \A j, k \in DOMAIN ks : ks[j] = ks[k] => j = k
  BY <1>0, CorrelationsList
<1> HIDE DEF at
<1>6. G(0)
  <2>1. at[0].entries = <<>>
    BY <1>3 DEF WithAccounts, EmptyLedger
  <2>2. <<>> = SubSeq(es, 1, 0) /\ 0 \in 0..Len(es)
    BY <1>0 DEF IsSequence
  <2> QED BY <2>1, <2>2 DEF InBlocks
<1>7. ASSUME NEW j \in Nat, j < Len(gs), G(j) PROVE G(j + 1)
  <2>1. j + 1 \in DOMAIN gs /\ j \in 0..Len(gs) /\ j + 1 \in 1..Len(gs) /\ (j + 1) - 1 = j
    BY <1>2, <1>7
  <2> DEFINE l == at[j]
             x == ks[j + 1]
             g == gs[j + 1]
  <2>2. Stage(l, es, A, j) /\ g = Group(es, x)
    BY <1>1, <1>4, <2>1
  <2>3. at[j + 1] = append(l, g)
    BY <1>3, <2>1
  <2>4. at[j + 1].entries = l.entries \o g
    <3>1. IsLedger(l)
      BY <2>2 DEF Stage
    <3> HIDE DEF l, g
    <3> QED BY <2>3, <3>1 DEF append, IsLedger
  <2>5. InBlocks(at[j + 1].entries)
    <3>1. IsSequence(l.entries)
      BY <2>2 DEF Stage, Tidy
    <3>2. IsSequence(g) /\ \A i \in DOMAIN g : g[i].correlationId = x
      <4>1. IsSequence(g) /\ ToSet(g) = {e \in ToSet(es) : e.correlationId = x}
        BY <1>0, <2>2, GroupFrom
      <4>2. \A i \in DOMAIN g : g[i] \in ToSet(g)
        BY DEF ToSet
      <4> QED BY <4>1, <4>2
    <3>3. x \notin CorrsOf(l.entries)
      <4>1. ToSet(l.entries) = {e \in ToSet(es) : \E k \in 1..j : e.correlationId = ks[k]}
        BY <2>2 DEF Stage
      <4>2. \A k \in 1..j : ks[k] # x
        <5> SUFFICES ASSUME NEW k \in 1..j PROVE ks[k] # x
          OBVIOUS
        <5>1. k \in 1..Len(gs) /\ k # j + 1
          BY <1>7, <1>2
        <5>2. k \in DOMAIN ks /\ j + 1 \in DOMAIN ks
          BY <5>1, <1>1, <1>2, <2>1
        <5> HIDE DEF ks
        <5> QED BY <5>1, <5>2, <1>5
      <4>3. \A i \in DOMAIN l.entries : l.entries[i] \in ToSet(l.entries)
        BY DEF ToSet
      <4> HIDE DEF ks, l
      <4> QED BY <4>1, <4>2, <4>3 DEF CorrsOf
    <3>4. InBlocks(l.entries)
      BY <1>7
    <3> HIDE DEF l, g, x
    <3> QED BY <3>1, <3>2, <3>3, <3>4, <2>4, BlockAdded
  <2>6. ASSUME InBlocks(es) PROVE \E p \in 0..Len(es) : at[j + 1].entries = SubSeq(es, 1, p)
    <3>1. PICK p \in 0..Len(es) : l.entries = SubSeq(es, 1, p)
      BY <1>7, <2>6
    <3> HIDE DEF l
    <3>2. \E q \in 0..Len(es) : l.entries \o g = SubSeq(es, 1, q)
      BY <1>7, <2>2, <2>6, <3>1, BlockNext
    <3> QED BY <3>2, <2>4
  <2> QED BY <2>5, <2>6
<1> HIDE DEF G
<1>8. ASSUME NEW k \in Nat, \A j \in Nat : j < k => j \in P PROVE k \in P
  <2> SUFFICES ASSUME k <= Len(gs) PROVE G(k)
    OBVIOUS
  <2>1. CASE k = 0
    BY <2>1, <1>6
  <2>2. CASE k # 0
    <3>1. PICK j \in Nat : k = j + 1
      <4>1. k - 1 \in Nat /\ k = (k - 1) + 1
        BY <2>2
      <4> QED BY <4>1
    <3>2. j < k /\ j < Len(gs) /\ j <= Len(gs)
      BY <1>2, <3>1
    <3>3. G(j)
      BY <1>8, <3>2
    <3> QED BY <3>1, <3>2, <3>3, <1>7
  <2> QED BY <2>1, <2>2
<1>9. P = Nat
  <2> HIDE DEF P
  <2>1. P \in SUBSET Nat
    BY DEF P
  <2> QED BY <1>8, <2>1, NoLeastExceptionIsNone
<1>10. \A n \in 0..Len(gs) : G(n)
  <2> SUFFICES ASSUME NEW n \in 0..Len(gs) PROVE G(n)
    OBVIOUS
  <2>1. n \in Nat /\ n <= Len(gs)
    BY <1>2
  <2> QED BY <2>1, <1>9
<1> QED BY <1>10 DEF G, at

(* Replay leaves the entries in place exactly where they are in blocks.    *)
LEMMA ReplayOrder ==
    ASSUME NEW es, NEW A, Tidy(es, A), NEW s, s = [accounts |-> A, entries |-> es]
    PROVE  fromSnapshot(s).entries = es <=> InBlocks(es)
<1> DEFINE gs == Groups(es)
           r == fromSnapshot(s)
<1>1. IsSequence(es) /\ Len(es) \in Nat
  BY DEF Tidy, IsSequence
<1>2. Len(gs) \in Nat
  <2> DEFINE W == Seq(ToSet(es))
  <2>1. gs \in Seq(W)
    BY <1>1, GroupsAre
  <2> HIDE DEF W, gs
  <2> QED BY <2>1
<1>3. r = Rebuilt(A, gs)[Len(gs)]
  BY DEF fromSnapshot
<1>4. Len(r.entries) = Len(es)
  BY RestoreRebuilds
<1>5. Len(gs) \in 0..Len(gs)
  <2> HIDE DEF gs
  <2> QED BY <1>2
<1>6. /\ InBlocks(r.entries)
      /\ InBlocks(es) => \E p \in 0..Len(es) : r.entries = SubSeq(es, 1, p)
  BY <1>3, <1>5, BlocksRebuilt
<1> HIDE DEF r
<1>7. ASSUME InBlocks(es) PROVE r.entries = es
  <2>1. PICK p \in 0..Len(es) : r.entries = SubSeq(es, 1, p)
    BY <1>6, <1>7
  <2>2. p = Len(es)
    BY <2>1, <1>1, <1>4, PrefixElements
  <2> QED BY <2>1, <2>2, <1>1, WholePrefix
<1> QED BY <1>6, <1>7 DEF r

(* What is rebuilt holds the entries of the groups so far.                 *)
LEMMA RebuiltHolds ==
    ASSUME NEW es, IsSequence(es), NEW A
    PROVE  \A n \in 0..Len(Groups(es)) :
              LET l == Rebuilt(A, Groups(es))[n]
              IN  /\ IsLedger(l) /\ l.accounts = A /\ IsSequence(l.entries)
                  /\ ToSet(l.entries) =
                       {e \in ToSet(es) : \E k \in 1..n : e.correlationId = Correlations(es)[k]}
<1> DEFINE gs == Groups(es)
           ks == Correlations(es)
           at == Rebuilt(A, gs)
           Held(n) == {e \in ToSet(es) : \E k \in 1..n : e.correlationId = ks[k]}
           G(n) == /\ IsLedger(at[n]) /\ at[n].accounts = A /\ IsSequence(at[n].entries)
                   /\ ToSet(at[n].entries) = Held(n)
           P == {n \in Nat : n <= Len(gs) => G(n)}
<1>1. /\ gs \in Seq(Seq(ToSet(es))) /\ DOMAIN gs = DOMAIN ks
      /\ \A k \in DOMAIN gs : gs[k] = Group(es, ks[k])
  BY GroupsAre
<1>2. Len(gs) \in Nat /\ DOMAIN gs = 1..Len(gs)
  <2> DEFINE W == Seq(ToSet(es))
  <2>1. gs \in Seq(W)
    BY <1>1
  <2> HIDE DEF W, gs
  <2> QED BY <2>1
<1>3. /\ at[0] = WithAccounts(EmptyLedger, A)
      /\ \A n \in 1..Len(gs) : at[n] = append(at[n - 1], gs[n])
  <2> HIDE DEF gs
  <2> QED BY <1>1, RebuiltSteps
<1> HIDE DEF at, gs, ks
<1>4. G(0)
  <2>1. at[0] = [accounts |-> A, entries |-> <<>>, transactions |-> <<>>]
    BY <1>3 DEF WithAccounts, EmptyLedger
  <2>2. IsLedger(at[0]) /\ at[0].accounts = A /\ at[0].entries = <<>>
    <3>1. IsLedger(at[0])
      BY <2>1 DEF IsLedger
    <3> QED BY <2>1, <3>1
  <2>3. ToSet(<<>>) = {} /\ IsSequence(<<>>)
    BY EmptyIsSequence DEF ToSet
  <2>4. Held(0) = {}
    OBVIOUS
  <2> QED BY <2>2, <2>3, <2>4
<1>5. ASSUME NEW j \in Nat, j < Len(gs), G(j) PROVE G(j + 1)
  <2>1. j + 1 \in DOMAIN gs /\ j + 1 \in 1..Len(gs) /\ (j + 1) - 1 = j
    BY <1>2, <1>5
  <2> DEFINE l == at[j]
             g == gs[j + 1]
  <2>2. IsLedger(l) /\ l.accounts = A /\ IsSequence(l.entries) /\ ToSet(l.entries) = Held(j)
    BY <1>5
  <2>3. at[j + 1] = append(l, g)
    BY <1>3, <2>1
  <2>4. IsSequence(g) /\ ToSet(g) = {e \in ToSet(es) : e.correlationId = ks[j + 1]}
    BY <1>1, <2>1, GroupFrom
  <2> HIDE DEF l, g
  <2>5. /\ IsLedger(at[j + 1]) /\ at[j + 1].accounts = A /\ at[j + 1].entries = l.entries \o g
    BY <2>2, <2>3 DEF append, IsLedger
  <2>6. IsSequence(l.entries \o g) /\ ToSet(l.entries \o g) = ToSet(l.entries) \cup ToSet(g)
    BY <2>2, <2>4, ConcatElements, ConcatSet
  <2>7. Held(j + 1) = Held(j) \cup ToSet(g)
    <3>1. 1..(j + 1) = (1..j) \cup {j + 1}
      OBVIOUS
    <3> QED BY <3>1, <2>4
  <2> HIDE DEF Held
  <2> QED BY <2>2, <2>5, <2>6, <2>7
<1> HIDE DEF G
<1>6. ASSUME NEW k \in Nat, \A j \in Nat : j < k => j \in P PROVE k \in P
  <2> SUFFICES ASSUME k <= Len(gs) PROVE G(k)
    OBVIOUS
  <2>1. CASE k = 0
    BY <2>1, <1>4
  <2>2. CASE k # 0
    <3>1. PICK j \in Nat : k = j + 1
      <4>1. k - 1 \in Nat /\ k = (k - 1) + 1
        BY <2>2
      <4> QED BY <4>1
    <3>2. j < k /\ j < Len(gs) /\ j <= Len(gs)
      BY <1>2, <3>1
    <3>3. G(j)
      BY <1>6, <3>2
    <3> QED BY <3>1, <3>2, <3>3, <1>5
  <2> QED BY <2>1, <2>2
<1>7. P = Nat
  <2> HIDE DEF P
  <2>1. P \in SUBSET Nat
    BY DEF P
  <2> QED BY <1>6, <2>1, NoLeastExceptionIsNone
<1>8. \A n \in 0..Len(gs) : G(n)
  <2> SUFFICES ASSUME NEW n \in 0..Len(gs) PROVE G(n)
    OBVIOUS
  <2>1. n \in Nat /\ n <= Len(gs)
    BY <1>2
  <2> QED BY <2>1, <1>7
<1> QED BY <1>8 DEF G, at, gs, ks, Held

(* A well-kept ledger is one that fromSnapshot accepts.                    *)
LEMMA KeptIsTidy ==
    ASSUME NEW es, IsSequence(es), NEW A, IsFiniteSet(A),
           \A e \in ToSet(es) : e.scaled \in Int /\ e.decimals \in Int,
           NEW s, s = [accounts |-> A, entries |-> es], WellKept(s)
    PROVE  Tidy(es, A)
<1>1. /\ \A i \in DOMAIN es : es[i].accountId \in A /\ es[i].scaled > 0 /\ es[i].decimals >= 0
      /\ \A i, j \in DOMAIN es : es[i].id = es[j].id => i = j
      /\ \A i \in DOMAIN es : _assertBalanced(Group(es, es[i].correlationId))
  BY DEF WellKept
<1>2. Fit(ToSet(es), A) /\ Once(es)
  BY <1>1 DEF Fit, Once, ToSet
<1>3. ASSUME NEW x, NEW c PROVE Balance(Group(es, x), c) = 0
  <2>1. CASE x \in CorrsOf(es)
    <3>1. PICK i \in DOMAIN es : es[i].correlationId = x
      BY <2>1 DEF CorrsOf
    <3>2. _assertBalanced(Group(es, x))
      BY <3>1, <1>1
    <3>3. IsSequence(Group(es, x)) /\ ToSet(Group(es, x)) = {e \in ToSet(es) : e.correlationId = x}
      BY GroupFrom
    <3>4. IsBook(Group(es, x))
      <4>1. \A k \in DOMAIN Group(es, x) : Group(es, x)[k] \in ToSet(Group(es, x))
        BY DEF ToSet
      <4> QED BY <4>1, <3>3 DEF IsBook
    <3> QED BY <3>2, <3>4, BalancedAddsNothing
  <2>2. CASE x \notin CorrsOf(es)
    <3>1. Group(es, x) = <<>>
      BY <2>2, GroupOfOne
    <3> QED BY <3>1, EmptySound DEF Sound
  <2> QED BY <2>1, <2>2
<1> QED BY <1>2, <1>3 DEF Tidy

(* A ledger that fromSnapshot accepts is well kept.                        *)
LEMMA AcceptedIsKept ==
    ASSUME NEW es, IsSequence(es), NEW A,
           NEW s, s = [accounts |-> A, entries |-> es], Restorable(s)
    PROVE  WellKept(s)
<1> DEFINE gs == Groups(es)
           ks == Correlations(es)
           at == Rebuilt(A, gs)
<1>1. /\ gs \in Seq(Seq(ToSet(es))) /\ DOMAIN gs = DOMAIN ks
      /\ \A k \in DOMAIN gs : gs[k] = Group(es, ks[k])
  BY GroupsAre
<1>2. Len(gs) \in Nat /\ DOMAIN gs = 1..Len(gs)
  <2> DEFINE W == Seq(ToSet(es))
  <2>1. gs \in Seq(W)
    BY <1>1
  <2> HIDE DEF W, gs
  <2> QED BY <2>1
<1>3. ToSet(ks) = CorrsOf(es)
  BY CorrelationsList
<1>4. \A n \in DOMAIN gs : Appendable(at[n - 1], gs[n])
  BY DEF Restorable
<1>5. \A n \in 0..Len(gs) :
        /\ at[n].accounts = A /\ IsSequence(at[n].entries)
        /\ ToSet(at[n].entries) = {e \in ToSet(es) : \E k \in 1..n : e.correlationId = ks[k]}
  BY RebuiltHolds
<1> HIDE DEF gs, ks, at
<1>6. ASSUME NEW i \in DOMAIN es
      PROVE  \E n \in DOMAIN gs : /\ es[i].correlationId = ks[n] /\ gs[n] = Group(es, ks[n])
                                  /\ \E a \in DOMAIN gs[n] : gs[n][a] = es[i]
  <2>1. es[i].correlationId \in ToSet(ks)
    BY <1>3 DEF CorrsOf
  <2>2. PICK n \in DOMAIN gs : es[i].correlationId = ks[n]
    BY <2>1, <1>1 DEF ToSet
  <2>3. ToSet(gs[n]) = {e \in ToSet(es) : e.correlationId = ks[n]}
    BY <1>1, <2>2, GroupFrom
  <2>4. es[i] \in ToSet(gs[n])
    BY <2>2, <2>3 DEF ToSet
  <2> QED BY <2>2, <2>4, <1>1 DEF ToSet
<1>7. ASSUME NEW i \in DOMAIN es
      PROVE  /\ es[i].accountId \in A /\ es[i].scaled > 0 /\ es[i].decimals >= 0
             /\ _assertBalanced(Group(es, es[i].correlationId))
  <2>1. PICK n \in DOMAIN gs : /\ es[i].correlationId = ks[n] /\ gs[n] = Group(es, ks[n])
                               /\ \E a \in DOMAIN gs[n] : gs[n][a] = es[i]
    BY <1>6
  <2>2. Appendable(at[n - 1], gs[n]) /\ at[n - 1].accounts = A
    BY <1>2, <1>4, <1>5
  <2> QED BY <2>1, <2>2 DEF Appendable, hasAccount
<1>8. ASSUME NEW i \in DOMAIN es, NEW j \in DOMAIN es, es[i].id = es[j].id,
             es[i].correlationId = es[j].correlationId
      PROVE  i = j
  <2> DEFINE x == es[i].correlationId
             T == {e \in ToSet(es) : e.correlationId = x}
             g == Group(es, x)
             S == {es[k] : k \in DOMAIN es}
  <2>1. PICK n \in DOMAIN gs : x = ks[n] /\ gs[n] = Group(es, ks[n])
    BY <1>6
  <2>2. \A a, b \in DOMAIN g : g[a].id = g[b].id => a = b
    BY <2>1, <1>4 DEF Appendable, UniqueIds
  <2>3. es \in Seq(S) /\ DOMAIN es = 1..Len(es) /\ g = Select(es, T) /\ es[i] \in T /\ es[j] \in T
    BY <1>8 DEF IsSequence, Group, ToSet
  <2> HIDE DEF g, T, S
  <2>4. g \in Seq(S) /\ \E p : PlacedAt(p, g, es, Len(es), T)
    BY <2>3, SelectPlaces
  <2>5. PICK p : PlacedAt(p, g, es, Len(es), T)
    BY <2>4
  <2>6. DOMAIN g = 1..Len(g)
    BY <2>4
  <2>7. PICK a \in DOMAIN g : p[a] = i /\ g[a] = es[i]
    <3>1. PICK a \in DOMAIN g : p[a] = i
      BY <2>3, <2>5, <2>6 DEF PlacedAt
    <3> QED BY <3>1, <2>5, <2>6 DEF PlacedAt
  <2>8. PICK b \in DOMAIN g : p[b] = j /\ g[b] = es[j]
    <3>1. PICK b \in DOMAIN g : p[b] = j
      BY <2>3, <2>5, <2>6 DEF PlacedAt
    <3> QED BY <3>1, <2>5, <2>6 DEF PlacedAt
  <2>9. a = b
    BY <2>2, <2>7, <2>8, <1>8
  <2> QED BY <2>7, <2>8, <2>9
<1>9. ASSUME NEW i \in DOMAIN es, NEW j \in DOMAIN es, es[i].id = es[j].id,
             NEW m \in DOMAIN gs, NEW n \in DOMAIN gs, m < n,
             es[i].correlationId = ks[m], es[j].correlationId = ks[n]
      PROVE  FALSE
  <2>1. n - 1 \in 0..Len(gs) /\ m \in 1..(n - 1)
    BY <1>2, <1>9
  <2>2. es[i] \in ToSet(at[n - 1].entries)
    BY <2>1, <1>5, <1>9 DEF ToSet
  <2>3. es[i].id \in EntryIds(at[n - 1].entries)
    BY <2>2 DEF ToSet, EntryIds
  <2>4. es[j] \in ToSet(gs[n])
    <3>1. ToSet(gs[n]) = {e \in ToSet(es) : e.correlationId = ks[n]}
      BY <1>1, GroupFrom
    <3> QED BY <3>1, <1>9 DEF ToSet
  <2>5. es[j].id \in EntryIds(gs[n])
    BY <2>4 DEF ToSet, EntryIds
  <2>6. EntryIds(gs[n]) \cap EntryIds(at[n - 1].entries) = {}
    BY <1>4 DEF Appendable, UniqueIds
  <2> QED BY <2>3, <2>5, <2>6, <1>9
<1>10. ASSUME NEW i \in DOMAIN es, NEW j \in DOMAIN es, es[i].id = es[j].id PROVE i = j
  <2>1. PICK m \in DOMAIN gs : es[i].correlationId = ks[m]
    BY <1>6
  <2>2. PICK n \in DOMAIN gs : es[j].correlationId = ks[n]
    BY <1>6
  <2>3. m = n
    <3>1. m < n \/ n < m \/ m = n
      BY <1>2
    <3>2. ~(m < n)
      BY <2>1, <2>2, <1>9, <1>10
    <3>3. ~(n < m)
      BY <2>1, <2>2, <1>9, <1>10
    <3> QED BY <3>1, <3>2, <3>3
  <2> QED BY <2>1, <2>2, <2>3, <1>8, <1>10
<1> QED BY <1>7, <1>10 DEF WellKept

-----------------------------------------------------------------------------
(* Bundles                                                                 *)

(* A digest stands for what it was computed from.                          *)
LEMMA DigestBinds ==
    ASSUME NEW tag, NEW x, NEW y PROVE Digest(tag, x) = Digest(tag, y) <=> x = y
  BY DEF Digest

LEMMA GlobalBinds ==
    ASSUME NEW l, NEW r, NEW c, NEW l2, NEW r2, NEW c2
    PROVE  computeGlobalStateHash(l, r, c).hash = computeGlobalStateHash(l2, r2, c2).hash
             <=> l = l2 /\ r = r2 /\ c = c2
<1> DEFINE s == subsystemsOf(l, r, c)
           s2 == subsystemsOf(l2, r2, c2)
<1>1. /\ computeGlobalStateHash(l, r, c).hash = Digest("global", s)
      /\ computeGlobalStateHash(l2, r2, c2).hash = Digest("global", s2)
  BY DEF computeGlobalStateHash
<1>2. s = s2 <=> /\ hashLedgerSnapshot(l) = hashLedgerSnapshot(l2)
                 /\ hashRegistrumSnapshot(r) = hashRegistrumSnapshot(r2) /\ c = c2
  BY DEF subsystemsOf
<1>3. /\ hashLedgerSnapshot(l) = hashLedgerSnapshot(l2) <=> l = l2
      /\ hashRegistrumSnapshot(r) = hashRegistrumSnapshot(r2) <=> r = r2
  BY DigestBinds DEF hashLedgerSnapshot, hashRegistrumSnapshot
<1> HIDE DEF s, s2
<1> QED BY <1>1, <1>2, <1>3, DigestBinds

LEMMA BundleBinds ==
    ASSUME NEW g, NEW e, NEW c, NEW g2, NEW e2, NEW c2
    PROVE  computeBundleHash(g, e, c) = computeBundleHash(g2, e2, c2) <=> g = g2 /\ e = e2 /\ c = c2
<1>1. <<g, e, c>> = <<g2, e2, c2>> <=> g = g2 /\ e = e2 /\ c = c2
  OBVIOUS
<1> QED BY <1>1, DigestBinds DEF computeBundleHash

(* Replay passes a ledger exactly when it is well kept and in blocks.      *)
LEMMA ReplayPasses ==
    ASSUME NEW es, IsSequence(es), NEW A, IsFiniteSet(A),
           \A e \in ToSet(es) : e.scaled \in Int /\ e.decimals \in Int,
           NEW l, l = [accounts |-> A, entries |-> es], NEW r, r.sound \in BOOLEAN
    PROVE  verifyByReplay(l, r, Absent) = "PASS" <=>
             r.mode = "legacy" /\ r.sound /\ WellKept(l) /\ ~ResumesCorrelation(l)
<1> DEFINE back == snapshotOf(fromSnapshot(l))
<1>1. verifyByReplay(l, r, Absent) = "PASS" <=> ~ReplayThrows(l, r) /\ l = back
  <2>1. computeGlobalStateHash(l, r, NoChains).hash = computeGlobalStateHash(back, r, NoChains).hash
          <=> l = back
    BY GlobalBinds
  <2> QED BY <2>1 DEF verifyByReplay
<1>2. ReplayThrows(l, r) <=> ~Restorable(l) \/ ~r.sound \/ r.mode # "legacy"
  BY DEF ReplayThrows
<1>3. ~ResumesCorrelation(l) <=> InBlocks(es)
  BY DEF ResumesCorrelation, InBlocks
<1>4. ASSUME WellKept(l) PROVE Restorable(l) /\ (l = back <=> InBlocks(es))
  <2>1. Tidy(es, A)
    BY <1>4, KeptIsTidy
  <2>2. Restorable(l) /\ fromSnapshot(l).accounts = A
    BY <2>1, RestoreRebuilds
  <2>3. fromSnapshot(l).entries = es <=> InBlocks(es)
    BY <2>1, ReplayOrder
  <2>4. back = [accounts |-> A, entries |-> fromSnapshot(l).entries]
    BY <2>2 DEF snapshotOf
  <2>5. l = back <=> es = fromSnapshot(l).entries
    <3> HIDE DEF back
    <3> QED BY <2>4
  <2> QED BY <2>2, <2>3, <2>5
<1>5. Restorable(l) => WellKept(l)
  BY AcceptedIsKept
<1> HIDE DEF back
<1> QED BY <1>1, <1>2, <1>3, <1>4, <1>5

(* The checks of integrity hold exactly for an honest bundle, but for the  *)
(* chain hashes among its subsystems.                                      *)
LEMMA IntegrityIsHonest ==
    ASSUME NEW b \in Bundles
    PROVE  verifyBundleIntegrity(b) <=>
             Honest([b EXCEPT !.globalStateHash.subsystems.chains = b.chainHashes])
<1> DEFINE l == b.ledgerSnapshot
           r == b.registrumSnapshot
           h == b.globalStateHash.hash
           sl == b.globalStateHash.subsystems.ledger
           sr == b.globalStateHash.subsystems.registrum
           sc == b.globalStateHash.subsystems.chains
           ev == b.eventHashes
           ch == b.chainHashes
           bh == b.bundleHash
           Made(x) == [ledgerSnapshot |-> l, registrumSnapshot |-> r,
                       globalStateHash |-> [hash |-> h, subsystems |->
                           [ledger |-> sl, registrum |-> sr, chains |-> x]],
                       eventHashes |-> ev, chainHashes |-> ch, bundleHash |-> bh]
           bound == [b EXCEPT !.globalStateHash.subsystems.chains = b.chainHashes]
           g == computeGlobalStateHash(l, r, ch)
<1>1. b = Made(sc)
  BY BundlesAssumption
<1>2. bound = Made(ch)
  <2>1. bound = [Made(sc) EXCEPT !.globalStateHash.subsystems.chains = ch]
    BY <1>1
  <2> HIDE DEF l, r, h, sl, sr, sc, ev, ch, bh, bound
  <2> QED BY <2>1
<1>3. createStateBundle(l, r, ev, ch) =
        [ledgerSnapshot |-> l, registrumSnapshot |-> r,
         globalStateHash |-> [hash |-> g.hash, subsystems |->
             [ledger |-> hashLedgerSnapshot(l), registrum |-> hashRegistrumSnapshot(r), chains |-> ch]],
         eventHashes |-> ev, chainHashes |-> ch, bundleHash |-> computeBundleHash(g.hash, ev, ch)]
  BY DEF createStateBundle, computeGlobalStateHash, subsystemsOf
<1>4. verifyBundleIntegrity(b) <=>
        /\ bh = computeBundleHash(h, ev, ch) /\ h = g.hash
        /\ sl = hashLedgerSnapshot(l) /\ sr = hashRegistrumSnapshot(r)
  BY DEF verifyBundleIntegrity, bundleHashValid, globalHashValid, subsystemsMatch, Recomputed
<1> HIDE DEF l, r, h, sl, sr, sc, ev, ch, bh, bound, g
<1>5. Honest(bound) <=> Made(ch) = createStateBundle(l, r, ev, ch)
  BY <1>2 DEF Honest
<1>6. Honest(bound) <=> /\ h = g.hash /\ sl = hashLedgerSnapshot(l) /\ sr = hashRegistrumSnapshot(r)
                        /\ bh = computeBundleHash(g.hash, ev, ch)
  BY <1>3, <1>5
<1>7. verifyBundleIntegrity(b) <=> Honest(bound)
  BY <1>4, <1>6
<1> QED BY <1>7 DEF bound

(* The parts of a bundle that its types promise.                           *)
LEMMA BundleParts ==
    ASSUME NEW b \in Bundles
    PROVE  LET l == b.ledgerSnapshot
           IN  /\ l = [accounts |-> l.accounts, entries |-> l.entries]
               /\ IsSequence(l.entries) /\ IsFiniteSet(l.accounts)
               /\ \A e \in ToSet(l.entries) : e.scaled \in Int /\ e.decimals \in Int
               /\ b.registrumSnapshot.sound \in BOOLEAN
<1> DEFINE l == b.ledgerSnapshot
<1>1. /\ l = [accounts |-> l.accounts, entries |-> l.entries]
      /\ l.entries \in Seq(ToSet(l.entries)) /\ IsFiniteSet(l.accounts)
      /\ \A e \in ToSet(l.entries) : e.scaled \in Int /\ e.decimals \in Int
      /\ b.registrumSnapshot.sound \in BOOLEAN
  BY BundlesAssumption
<1> QED BY <1>1, SequenceIntro

(* A verifier passes exactly the honest bundles of well-kept ledgers that  *)
(* replay leaves in order.                                                 *)
LEMMA VerifierPasses ==
    ASSUME NEW b \in Bundles, NEW strict \in BOOLEAN
    PROVE  runVerification(b, strict) = "PASS" <=>
             /\ Honest([b EXCEPT !.globalStateHash.subsystems.chains = b.chainHashes])
             /\ b.registrumSnapshot.mode = "legacy" /\ b.registrumSnapshot.sound
             /\ WellKept(b.ledgerSnapshot) /\ ~ResumesCorrelation(b.ledgerSnapshot)
             /\ strict => b.globalStateHash.subsystems.chains # NoChains
<1> DEFINE replay0 == verifyByReplay(b.ledgerSnapshot, b.registrumSnapshot, Absent)
<1>1. replay0 = "PASS" <=> /\ b.registrumSnapshot.mode = "legacy" /\ b.registrumSnapshot.sound
                           /\ WellKept(b.ledgerSnapshot) /\ ~ResumesCorrelation(b.ledgerSnapshot)
  <2> DEFINE l == b.ledgerSnapshot
             r == b.registrumSnapshot
             es == l.entries
             A == l.accounts
  <2>1. /\ l = [accounts |-> A, entries |-> es] /\ IsSequence(es) /\ IsFiniteSet(A)
        /\ \A e \in ToSet(es) : e.scaled \in Int /\ e.decimals \in Int
        /\ r.sound \in BOOLEAN
    BY BundleParts
  <2> HIDE DEF l, r, es, A
  <2>2. verifyByReplay(l, r, Absent) = "PASS" <=>
          r.mode = "legacy" /\ r.sound /\ WellKept(l) /\ ~ResumesCorrelation(l)
    BY <2>1, ReplayPasses
  <2> QED BY <2>2 DEF l, r
<1>2. verifyBundleIntegrity(b) => subsystemsMatch(b) /\ globalHashValid(b)
  BY DEF verifyBundleIntegrity
<1>3. runVerification(b, strict) = "PASS" <=>
        /\ replay0 = "PASS" /\ verifyBundleIntegrity(b) /\ subsystemsMatch(b) /\ globalHashValid(b)
        /\ strict => b.globalStateHash.subsystems.chains # NoChains
  BY DEF runVerification
<1> HIDE DEF replay0
<1> QED BY <1>1, <1>2, <1>3, IntegrityIsHonest

(* Two bundles that pass with one hash hold the same state.                *)
LEMMA PassIsBinding ==
    ASSUME NEW b \in Bundles, NEW o \in Bundles, verifyBundleIntegrity(b), verifyBundleIntegrity(o),
           o.bundleHash = b.bundleHash
    PROVE  /\ o.ledgerSnapshot = b.ledgerSnapshot /\ o.eventHashes = b.eventHashes
           /\ o.registrumSnapshot = b.registrumSnapshot /\ o.chainHashes = b.chainHashes
<1>1. /\ b.globalStateHash.hash = o.globalStateHash.hash
      /\ b.eventHashes = o.eventHashes /\ b.chainHashes = o.chainHashes
  <2>1. computeBundleHash(b.globalStateHash.hash, b.eventHashes, b.chainHashes) =
          computeBundleHash(o.globalStateHash.hash, o.eventHashes, o.chainHashes)
    BY DEF verifyBundleIntegrity, bundleHashValid
  <2> QED BY <2>1, BundleBinds
<1>2. Recomputed(b).hash = Recomputed(o).hash
  BY <1>1 DEF verifyBundleIntegrity, globalHashValid
<1> QED BY <1>1, <1>2, GlobalBinds DEF Recomputed

-----------------------------------------------------------------------------
(* Compliance                                                              *)

(* The kinds of evidence a control may ask for.                            *)
Kinds == {"hash-chain", "replay-verification", "state-snapshot", "merkle-proof"} \cup Architectural

Evidenced(c) == c.evidenceTypes # {} /\ c.evidenceTypes \subseteq Kinds
Implemented(c) == c.status = "implemented"

LEMMA OrganisationControls ==
    /\ IsSequence(OrganisationCriteria) /\ Len(OrganisationCriteria) = 10
    /\ \A k \in 1..10 : Evidenced(OrganisationCriteria[k]) /\ Implemented(OrganisationCriteria[k])
<1>1. IsSequence(OrganisationCriteria) /\ Len(OrganisationCriteria) = 10
  BY DEF OrganisationCriteria, IsSequence
<1>2. ASSUME NEW k \in 1..10 PROVE Evidenced(OrganisationCriteria[k]) /\ Implemented(OrganisationCriteria[k])
  BY DEF OrganisationCriteria, Evidenced, Implemented, Control, Kinds, Architectural
<1> QED BY <1>1, <1>2

LEMMA OperationsControls ==
    /\ IsSequence(OperationsCriteria) /\ Len(OperationsCriteria) = 10
    /\ \A k \in 1..10 : Evidenced(OperationsCriteria[k]) /\ Implemented(OperationsCriteria[k])
<1>1. IsSequence(OperationsCriteria) /\ Len(OperationsCriteria) = 10
  BY DEF OperationsCriteria, IsSequence
<1>2. ASSUME NEW k \in 1..10 PROVE Evidenced(OperationsCriteria[k]) /\ Implemented(OperationsCriteria[k])
  BY DEF OperationsCriteria, Evidenced, Implemented, Control, Kinds, Architectural
<1> QED BY <1>1, <1>2

(* What the proofs use of a framework: it has n controls, all but one have *)
(* to be implemented, and some of those ask for either kind of hash.       *)
Framework(M, n) ==
    /\ DOMAIN M = 1..n /\ Len(M) = n
    /\ \A k \in 1..n : Evidenced(M[k])
    /\ \E k \in 1..n : Implemented(M[k]) /\ "hash-chain" \in M[k].evidenceTypes
    /\ \E k \in 1..n : Implemented(M[k]) /\ "replay-verification" \in M[k].evidenceTypes
    /\ \E j \in 1..n : \A k \in 1..n : k # j => Implemented(M[k])

LEMMA Soc2Is == Framework(SOC2_MAPPINGS, 20)
<1> DEFINE O == OrganisationCriteria
           P == OperationsCriteria
<1>1. /\ IsSequence(O) /\ Len(O) = 10 /\ \A k \in 1..10 : Evidenced(O[k]) /\ Implemented(O[k])
  BY OrganisationControls
<1>2. /\ IsSequence(P) /\ Len(P) = 10 /\ \A k \in 1..10 : Evidenced(P[k]) /\ Implemented(P[k])
  BY OperationsControls
<1>3. "hash-chain" \in O[1].evidenceTypes /\ "replay-verification" \in O[5].evidenceTypes
  BY DEF OrganisationCriteria, Control
<1> HIDE DEF O, P
<1>4. /\ IsSequence(O \o P) /\ Len(O \o P) = Len(O) + Len(P)
      /\ \A i \in 1..Len(O) : (O \o P)[i] = O[i]
      /\ \A i \in 1..Len(P) : (O \o P)[Len(O) + i] = P[i]
  <2>1. IsSequence(O) /\ IsSequence(P)
    BY <1>1, <1>2
  <2> QED BY <2>1, ConcatElements
<1> DEFINE M == O \o P
<1>5. Len(M) = 20 /\ DOMAIN M = 1..20
  <2>1. Len(M) = 20
    BY <1>1, <1>2, <1>4
  <2>2. IsSequence(M)
    BY <1>4
  <2> HIDE DEF M
  <2> QED BY <2>1, <2>2 DEF IsSequence
<1>6. \A k \in 1..20 : Evidenced(M[k]) /\ Implemented(M[k])
  <2> SUFFICES ASSUME NEW k \in 1..20 PROVE Evidenced(M[k]) /\ Implemented(M[k])
    OBVIOUS
  <2>1. CASE k <= 10
    BY <2>1, <1>1, <1>4
  <2>2. CASE k > 10
    <3> DEFINE m == k - 10
    <3>1. m \in 1..10 /\ k = 10 + m
      BY <2>2
    <3> HIDE DEF m
    <3>2. M[10 + m] = P[m]
      BY <3>1, <1>1, <1>2, <1>4
    <3> QED BY <3>1, <3>2, <1>2
  <2>3. k <= 10 \/ k > 10
    OBVIOUS
  <2> QED BY <2>1, <2>2, <2>3
<1>7. M[1] = O[1] /\ M[5] = O[5]
  BY <1>1, <1>4
<1> HIDE DEF M
<1>8. Framework(M, 20)
  <2>1. 1 \in 1..20 /\ 5 \in 1..20
    OBVIOUS
  <2> QED BY <2>1, <1>3, <1>5, <1>6, <1>7 DEF Framework
<1> QED BY <1>8 DEF M, O, P, SOC2_MAPPINGS

LEMMA Iso27001Is == Framework(ISO27001_MAPPINGS, 14)
<1> DEFINE M == ISO27001_MAPPINGS
<1>1. Len(M) = 14 /\ DOMAIN M = 1..14
  BY DEF ISO27001_MAPPINGS
<1>2. \A k \in 1..14 : Evidenced(M[k])
  BY DEF ISO27001_MAPPINGS, Evidenced, Control, Kinds, Architectural
<1>3. \A k \in 1..14 : k # 6 => Implemented(M[k])
  BY DEF ISO27001_MAPPINGS, Implemented, Control
<1>4. "hash-chain" \in M[5].evidenceTypes /\ "replay-verification" \in M[3].evidenceTypes
  BY DEF ISO27001_MAPPINGS, Control
<1> HIDE DEF M
<1>5. 3 \in 1..14 /\ 5 \in 1..14 /\ 6 \in 1..14
  OBVIOUS
<1>6. Implemented(M[3]) /\ Implemented(M[5])
  BY <1>3, <1>5
<1>7. Framework(M, 14)
  BY <1>1, <1>2, <1>3, <1>4, <1>5, <1>6 DEF Framework
<1> QED BY <1>7 DEF M

(* What a kind of evidence is worth.                                       *)
LEMMA EvidenceIs ==
    ASSUME NEW b
    PROVE  /\ checkEvidence("hash-chain", b) # "failed" => b # Absent /\ bundleHashValid(b)
           /\ checkEvidence("replay-verification", b) # "failed" => b # Absent /\ globalHashValid(b)
           /\ \A type \in Kinds : b = Absent => checkEvidence(type, b) = "failed"
<1>1. checkEvidence("hash-chain", b) # "failed" => b # Absent /\ bundleHashValid(b)
  BY DEF checkEvidence, Architectural
<1>2. checkEvidence("replay-verification", b) # "failed" => b # Absent /\ globalHashValid(b)
  BY DEF checkEvidence, Architectural
<1>3. ASSUME NEW type \in Kinds, b = Absent PROVE checkEvidence(type, b) = "failed"
  BY <1>3 DEF checkEvidence, Kinds, Architectural, bundleIsCorroborated
<1> QED BY <1>1, <1>2, <1>3

(* How a control is judged.                                                *)
LEMMA ControlIs ==
    ASSUME NEW c, NEW b
    PROVE  LET e == evaluateControl(c, b)
           IN  /\ e.passed <=> \/ c.status = "not-applicable"
                               \/ \A type \in c.evidenceTypes : checkEvidence(type, b) # "failed"
               /\ e.passed <=> e.evidenceClass \in {"verified", "asserted"}
<1> DEFINE kinds == {checkEvidence(type, b) : type \in c.evidenceTypes}
           passed == c.status = "not-applicable" \/ "failed" \notin kinds
           e == evaluateControl(c, b)
<1>1. /\ e.passed = passed
      /\ e.evidenceClass = IF ~passed THEN "failed"
                           ELSE IF "verified" \in kinds THEN "verified" ELSE "asserted"
  BY DEF evaluateControl
<1>2. passed <=> \/ c.status = "not-applicable"
                 \/ \A type \in c.evidenceTypes : checkEvidence(type, b) # "failed"
  OBVIOUS
<1> HIDE DEF e, passed, kinds
<1> QED BY <1>1, <1>2 DEF e

(* A report counts what passed.                                            *)
LEMMA ReportIs ==
    ASSUME NEW n \in {14, 20}, NEW M, Framework(M, n), NEW b
    PROVE  LET rep == generateComplianceEvidence(M, b)
           IN  /\ rep.score = 100 /\ b # Absent => bundleHashValid(b) /\ globalHashValid(b)
               /\ b = Absent => rep.passedControls <= 1 /\ rep.verifiedControls = 0
               /\ rep.passedControls = rep.verifiedControls + rep.assertedControls
<1> DEFINE E == [k \in DOMAIN M |-> evaluateControl(M[k], b)]
           P == {k \in 1..n : E[k].passed}
           V == {k \in 1..n : E[k].evidenceClass = "verified"}
           S == {k \in 1..n : E[k].evidenceClass = "asserted"}
           rep == generateComplianceEvidence(M, b)
<1>1. n \in Nat /\ DOMAIN M = 1..n /\ Len(M) = n
  BY DEF Framework
<1>2. DOMAIN E = 1..n /\ \A k \in 1..n : E[k] = evaluateControl(M[k], b)
  BY <1>1
<1>3. /\ rep.passedControls = Cardinality(P) /\ rep.verifiedControls = Cardinality(V)
      /\ rep.assertedControls = Cardinality(S)
      /\ rep.score = IF n = 0 THEN 0 ELSE (200 * Cardinality(P) + n) \div (2 * n)
  BY <1>1, <1>2 DEF generateComplianceEvidence
<1> HIDE DEF rep, E
<1>4. \A k \in 1..n :
        /\ k \in P <=> \/ M[k].status = "not-applicable"
                       \/ \A type \in M[k].evidenceTypes : checkEvidence(type, b) # "failed"
        /\ k \in P <=> k \in V \cup S
  BY <1>2, ControlIs
<1>5. IsFiniteSet(1..n) /\ Cardinality(1..n) = n
  BY <1>1, FS_Interval
<1>6. /\ IsFiniteSet(P) /\ IsFiniteSet(V) /\ IsFiniteSet(S)
      /\ Cardinality(P) \in Nat /\ Cardinality(P) <= n /\ (Cardinality(P) = n => P = 1..n)
      /\ Cardinality(V) \in Nat /\ Cardinality(S) \in Nat
  <2>1. P \in SUBSET (1..n) /\ V \in SUBSET (1..n) /\ S \in SUBSET (1..n)
    OBVIOUS
  <2> HIDE DEF P, V, S
  <2>2. ASSUME NEW T \in SUBSET (1..n)
        PROVE  /\ IsFiniteSet(T) /\ Cardinality(T) \in Nat /\ Cardinality(T) <= n
               /\ Cardinality(T) = n => T = 1..n
    <3>1. /\ IsFiniteSet(T) /\ Cardinality(T) <= Cardinality(1..n)
          /\ Cardinality(1..n) = Cardinality(T) => 1..n = T
      BY <1>5, FS_Subset
    <3> QED BY <3>1, <1>5, FS_CardinalityType
  <2> QED BY <2>1, <2>2
<1>7. P = V \cup S /\ V \cap S = {}
  BY <1>4
<1>8. Cardinality(P) = Cardinality(V) + Cardinality(S)
  <2> HIDE DEF P, V, S
  <2>1. Cardinality(V \cup S) = Cardinality(V) + Cardinality(S) - Cardinality(V \cap S)
    BY <1>6, FS_Union
  <2> QED BY <2>1, <1>6, <1>7, FS_EmptySet
<1>9. ASSUME rep.score = 100 PROVE bundleHashValid(b) /\ globalHashValid(b)
  <2>1. Cardinality(P) = n
    <3> DEFINE p == Cardinality(P)
    <3>1. p \in Nat /\ p <= n /\ (200 * p + n) \div (2 * n) = 100
      BY <1>3, <1>6, <1>9
    <3> HIDE DEF p
    <3>2. ASSUME n = 14 PROVE p = n
      BY <3>1, <3>2
    <3>3. ASSUME n = 20 PROVE p = n
      BY <3>1, <3>3
    <3>4. p = n
      BY <3>2, <3>3
    <3> QED BY <3>4 DEF p
  <2>2. P = 1..n
    BY <2>1, <1>6
  <2>3. \A k \in 1..n : Implemented(M[k]) =>
            \A type \in M[k].evidenceTypes : checkEvidence(type, b) # "failed"
    BY <2>2, <1>4 DEF Implemented
  <2>4. checkEvidence("hash-chain", b) # "failed" /\ checkEvidence("replay-verification", b) # "failed"
    BY <2>3 DEF Framework
  <2> QED BY <2>4, EvidenceIs
<1>10. ASSUME b = Absent PROVE Cardinality(P) <= 1 /\ Cardinality(V) = 0
  <2>1. PICK j \in 1..n : \A k \in 1..n : k # j => Implemented(M[k])
    BY DEF Framework
  <2>2. ASSUME NEW k \in P PROVE M[k].status = "not-applicable"
    <3>1. PICK type \in M[k].evidenceTypes : type \in Kinds
      BY DEF Framework, Evidenced
    <3> QED BY <3>1, <1>4, <1>10, EvidenceIs
  <2>3. P \subseteq {j}
    BY <2>1, <2>2 DEF Implemented
  <2>4. \A x, y \in P : x = y
    BY <2>3
  <2>5. Cardinality(P) <= 1
    <3> HIDE DEF P
    <3> QED BY <2>4, <1>6, AtMostOne
  <2>6. V = {}
    <3> SUFFICES ASSUME NEW k \in V PROVE FALSE
      OBVIOUS
    <3> DEFINE kinds == {checkEvidence(type, b) : type \in M[k].evidenceTypes}
    <3>1. E[k] = evaluateControl(M[k], b)
      BY <1>2
    <3>2. "verified" \in kinds
      BY <3>1 DEF evaluateControl
    <3>3. PICK type \in M[k].evidenceTypes : checkEvidence(type, b) = "verified"
      BY <3>2
    <3>4. type \in Kinds
      BY <3>3 DEF Framework, Evidenced
    <3> QED BY <3>3, <3>4, <1>10, EvidenceIs
  <2> QED BY <2>5, <2>6, FS_EmptySet
<1> HIDE DEF P, V, S
<1> QED BY <1>3, <1>8, <1>9, <1>10 DEF rep

-----------------------------------------------------------------------------
(* The desk: what a call returned is what its operation gives for its      *)
(* arguments.                                                              *)

DeskInv ==
    /\ task.op = "aggregate" =>
         /\ task.given.reports \in ReportLists /\ task.given.min \in Int
         /\ verdict = aggregateVerifierReports(task.given.reports, task.given.min)
    /\ task.op = "sla" => verdict = evaluateSla(task.given.targets, task.given.metrics)
    /\ task.op = "verify" =>
         /\ task.given.b \in Bundles /\ task.given.strictMode \in BOOLEAN
         /\ verdict.answer = runVerification(task.given.b, task.given.strictMode)
    /\ task.op = "comply" => \E f \in DOMAIN FRAMEWORK_REGISTRY :
         verdict = generateComplianceEvidence(FRAMEWORK_REGISTRY[f], task.given)
    /\ task.op = "prove" =>
         /\ task.given.records \in Records
         /\ verdict = proofOfAttestation(task.given.records, task.given.id)
    /\ task.op = "package" =>
         /\ task.given \in Packages /\ verdict = verifyAttestationProof(task.given.pkg)

LEMMA DeskInitial == DeskInit => DeskInv
  BY DEF DeskInit, DeskInv, NoTask

LEMMA DeskKept == DeskInv /\ [DeskNext]_deskVars => DeskInv'
<1> SUFFICES ASSUME DeskInv, [DeskNext]_deskVars PROVE DeskInv'
  OBVIOUS
<1>1. CASE Aggregate
  <2>1. PICK r \in ReportLists, min \in 1..2 :
          Called("aggregate", [reports |-> r, min |-> min], aggregateVerifierReports(r, min))
    BY <1>1 DEF Aggregate
  <2> QED BY <2>1 DEF Called, DeskInv
<1>2. CASE EvaluateSla
  BY <1>2 DEF EvaluateSla, Called, DeskInv
<1>3. CASE Return
  BY <1>3 DEF Return, NoTask, DeskInv
<1>4. ASSUME NEW op \in {"reconcile", "dedupe", "audit", "replay"},
             task'.op = op
      PROVE  DeskInv'
  BY <1>4 DEF DeskInv
<1>5. CASE Reconcile \/ MatchMultiChain
  BY <1>5, <1>4 DEF Reconcile, MatchMultiChain, Called
<1>6. CASE Audit \/ Replay
  BY <1>6, <1>4 DEF Audit, Replay, Called
<1>7. CASE UNCHANGED deskVars
  BY <1>7 DEF deskVars, DeskInv
<1>8. CASE Verify
  BY <1>8 DEF Verify, Called, DeskInv
<1>9. CASE Comply
  BY <1>9 DEF Comply, Called, DeskInv
<1>10. CASE Prove
  BY <1>10 DEF Prove, Called, DeskInv
<1>11. CASE CheckPackage
  BY <1>11 DEF CheckPackage, Called, DeskInv
<1> QED BY <1>1, <1>2, <1>3, <1>5, <1>6, <1>7, <1>8, <1>9, <1>10, <1>11 DEF DeskNext

LEMMA DeskFailsClosed == DeskInv => VerdictsFailClosed
<1> SUFFICES ASSUME DeskInv PROVE VerdictsFailClosed
  OBVIOUS
<1>1. ASSUME task.op = "aggregate", verdict.verdict = "PASS"
      PROVE  LET r == task.given.reports
             IN  /\ Cardinality(VerifiersOf(r)) >= task.given.min
                 /\ 2 * Cardinality(Backers(r)) > Cardinality(VerifiersOf(r))
                 /\ verdict.dissenters = VerifiersOf(r) \ Backers(r)
  <2>1. IsSequence(task.given.reports)
    BY <1>1, ReportsAssumption, SequenceIntro DEF DeskInv
  <2> QED BY <2>1, <1>1, AggregateSound DEF DeskInv
<1>2. ASSUME task.op = "sla", verdict.verdict = "PASS"
      PROVE  \A t \in Range(task.given.targets) :
                t.metric \in DOMAIN task.given.metrics /\ task.given.metrics[t.metric] # NotFinite
  BY <1>2, SlaSound DEF DeskInv
<1> QED BY <1>1, <1>2 DEF VerdictsFailClosed, Backers, Backs

-----------------------------------------------------------------------------
(* The public board: one report for each verifier on it, its last one, all *)
(* about one bundle.                                                       *)

OneEach(r) ==
    /\ \A j, k \in DOMAIN r : r[j].verifierId = r[k].verifierId => j = k
    /\ \A j, k \in DOMAIN r : r[j].bundleHash = r[k].bundleHash

BoardInv ==
    /\ reports \in Seq(Submissions) /\ OneEach(reports)
    /\ DOMAIN last = Verifiers
    /\ \A k \in DOMAIN reports : last[reports[k].verifierId] = reports[k]

LEMMA BoardInitial == BoardInit => BoardInv
<1> SUFFICES ASSUME BoardInit PROVE BoardInv
  OBVIOUS
<1>1. reports = <<>> /\ DOMAIN last = Verifiers
  BY DEF BoardInit
<1>2. reports \in Seq(Submissions) /\ DOMAIN reports = {}
  BY <1>1
<1> QED BY <1>1, <1>2 DEF BoardInv, OneEach

(* A replaced report leaves the others where they are.                     *)
LEMMA ReplaceReport ==
    ASSUME BoardInv, NEW r \in Submissions, ~Refused(r),
           NEW m \in DOMAIN reports, reports[m].verifierId = r.verifierId
    PROVE  /\ Stored(r) = [reports EXCEPT ![m] = r]
           /\ Stored(r) \in Seq(Submissions) /\ OneEach(Stored(r))
<1> DEFINE own == {k \in DOMAIN reports : reports[k].verifierId = r.verifierId}
<1>1. /\ reports \in Seq(Submissions) /\ DOMAIN reports = 1..Len(reports) /\ Len(reports) \in Nat
      /\ OneEach(reports)
  BY DEF BoardInv
<1>2. own = {m}
  BY <1>1 DEF OneEach
<1>3. Min(own) = m
  BY <1>2, <1>1 DEF Min
<1>4. Stored(r) = [reports EXCEPT ![m] = r]
  BY <1>2, <1>3 DEF Stored
<1>5. reports[1].bundleHash = r.bundleHash /\ 1 \in DOMAIN reports
  <2>1. reports # <<>>
    BY <1>1
  <2> QED BY <2>1, <1>1 DEF Refused
<1>6. [reports EXCEPT ![m] = r] \in Seq(Submissions)
  BY <1>1
<1>7. OneEach([reports EXCEPT ![m] = r])
  BY <1>1, <1>5 DEF OneEach
<1> QED BY <1>4, <1>6, <1>7

(* A new report goes to the end, and what is left of the others stays in   *)
(* place before it.                                                        *)
LEMMA AddReport ==
    ASSUME BoardInv, NEW r \in Submissions, ~Refused(r),
           \A k \in DOMAIN reports : reports[k].verifierId # r.verifierId
    PROVE  /\ Stored(r) \in Seq(Submissions) /\ OneEach(Stored(r))
           /\ \A k \in DOMAIN Stored(r) : Stored(r)[k] = r \/ \E i \in DOMAIN reports : Stored(r)[k] = reports[i]
<1> DEFINE longer == Append(reports, r)
           n == Len(longer)
<1>1. /\ reports \in Seq(Submissions) /\ DOMAIN reports = 1..Len(reports) /\ Len(reports) \in Nat
      /\ OneEach(reports)
  BY DEF BoardInv
<1>2. /\ longer \in Seq(Submissions) /\ n = Len(reports) + 1 /\ DOMAIN longer = 1..n
      /\ longer[n] = r /\ \A k \in 1..Len(reports) : longer[k] = reports[k]
  BY <1>1
<1>3. \A k \in DOMAIN reports : reports[k].bundleHash = r.bundleHash
  <2> SUFFICES ASSUME NEW k \in DOMAIN reports PROVE reports[k].bundleHash = r.bundleHash
    OBVIOUS
  <2>1. reports # <<>> /\ 1 \in DOMAIN reports
    BY <1>1
  <2> QED BY <2>1, <1>1 DEF Refused, OneEach
<1> HIDE DEF longer, n
<1>4. \A k \in 1..n : longer[k] = r \/ \E i \in DOMAIN reports : longer[k] = reports[i]
  BY <1>1, <1>2
<1>5. OneEach(longer)
  BY <1>1, <1>2, <1>3 DEF OneEach
<1>6. {k \in DOMAIN reports : reports[k].verifierId = r.verifierId} = {}
  OBVIOUS
<1>7. Stored(r) = SubSeq(longer, IF n > maxReports THEN n - maxReports + 1 ELSE 1, n)
  BY <1>6 DEF Stored, longer, n
<1>8. CASE n > maxReports
  <2> DEFINE t == SubSeq(longer, n - maxReports + 1, n)
  <2>1. Stored(r) = t
    BY <1>7, <1>8
  <2>2. /\ t \in Seq(Submissions) /\ Len(t) = maxReports
        /\ \A k \in 1..maxReports : t[k] = longer[n - maxReports + k]
    BY <1>2, <1>8, LastElements, BoardAssumption DEF n
  <2> HIDE DEF t
  <2>3. DOMAIN t = 1..maxReports /\ \A k \in 1..maxReports : n - maxReports + k \in 1..n
    BY <2>2, <1>8, <1>2, <1>1, BoardAssumption
  <2>4. OneEach(t)
    <3> SUFFICES ASSUME NEW j \in DOMAIN t, NEW k \in DOMAIN t
                 PROVE  /\ t[j].verifierId = t[k].verifierId => j = k
                        /\ t[j].bundleHash = t[k].bundleHash
      BY DEF OneEach
    <3>1. /\ t[j] = longer[n - maxReports + j] /\ n - maxReports + j \in 1..n
          /\ t[k] = longer[n - maxReports + k] /\ n - maxReports + k \in 1..n
      BY <2>2, <2>3
    <3>2. /\ t[j].verifierId = t[k].verifierId => n - maxReports + j = n - maxReports + k
          /\ t[j].bundleHash = t[k].bundleHash
      BY <3>1, <1>2, <1>5 DEF OneEach
    <3> QED BY <3>2, <2>3, <1>1, <1>2, BoardAssumption
  <2> QED BY <2>1, <2>2, <2>3, <2>4, <1>4
<1>9. CASE ~(n > maxReports)
  <2>1. Stored(r) = longer
    BY <1>7, <1>9, <1>2 DEF n
  <2> QED BY <2>1, <1>2, <1>4, <1>5
<1> QED BY <1>8, <1>9

LEMMA BoardKept == BoardInv /\ [SubmitReport]_boardVars => BoardInv'
<1> SUFFICES ASSUME BoardInv, [SubmitReport]_boardVars PROVE BoardInv'
  OBVIOUS
<1>1. CASE UNCHANGED boardVars
  BY <1>1 DEF boardVars, BoardInv, OneEach
<1>2. ASSUME NEW r \in Submissions, ~Refused(r), reports' = Stored(r),
             last' = [last EXCEPT ![r.verifierId] = r]
      PROVE  BoardInv'
  <2>1. r.verifierId \in Verifiers
    BY DEF Verifiers
  <2>2. DOMAIN last' = Verifiers /\ last'[r.verifierId] = r
        /\ \A v \in Verifiers : v # r.verifierId => last'[v] = last[v]
    BY <1>2, <2>1 DEF BoardInv
  <2>3. ASSUME NEW m \in DOMAIN reports, reports[m].verifierId = r.verifierId PROVE BoardInv'
    <3>1. reports' = [reports EXCEPT ![m] = r] /\ reports' \in Seq(Submissions) /\ OneEach(reports')
      BY <1>2, <2>3, ReplaceReport
    <3>2. ASSUME NEW k \in DOMAIN reports' PROVE last'[reports'[k].verifierId] = reports'[k]
      <4>1. CASE k = m
        BY <4>1, <3>1, <2>2, <2>3
      <4>2. CASE k # m
        <5>1. k \in DOMAIN reports /\ reports'[k] = reports[k]
          BY <4>2, <3>1
        <5>2. reports[k].verifierId # r.verifierId
          BY <4>2, <5>1, <2>3 DEF BoardInv, OneEach
        <5>3. reports[k].verifierId \in Verifiers
          BY <5>1 DEF BoardInv, Verifiers
        <5> QED BY <5>1, <5>2, <5>3, <2>2 DEF BoardInv
      <4> QED BY <4>1, <4>2
    <3> QED BY <3>1, <3>2, <2>2 DEF BoardInv, OneEach
  <2>4. ASSUME \A k \in DOMAIN reports : reports[k].verifierId # r.verifierId PROVE BoardInv'
    <3>1. /\ reports' \in Seq(Submissions) /\ OneEach(reports')
          /\ \A k \in DOMAIN reports' : reports'[k] = r \/ \E i \in DOMAIN reports : reports'[k] = reports[i]
      BY <1>2, <2>4, AddReport
    <3>2. ASSUME NEW k \in DOMAIN reports' PROVE last'[reports'[k].verifierId] = reports'[k]
      <4>1. CASE reports'[k] = r
        BY <4>1, <2>2
      <4>2. ASSUME NEW i \in DOMAIN reports, reports'[k] = reports[i]
            PROVE  last'[reports'[k].verifierId] = reports'[k]
        <5>1. reports[i].verifierId \in Verifiers
          BY DEF BoardInv, Verifiers
        <5> QED BY <5>1, <4>2, <2>2, <2>4 DEF BoardInv
      <4> QED BY <4>1, <4>2, <3>1
    <3> QED BY <3>1, <3>2, <2>2 DEF BoardInv, OneEach
  <2> QED BY <2>3, <2>4
<1> QED BY <1>1, <1>2 DEF SubmitReport

LEMMA BoardIsMajority == BoardInv => ConsensusIsMajority
<1> SUFFICES ASSUME BoardInv PROVE ConsensusIsMajority
  OBVIOUS
<1> DEFINE V == VerifiersOf(reports)
           m == Max({minimumVerifiers, PUBLIC_MIN_VERIFIERS})
           passing == {v \in V : last[v].verdict = "PASS"}
<1>1. IsSequence(reports)
  BY SequenceIntro DEF BoardInv
<1>2. /\ m \in Int /\ m >= 2
      /\ \A c \in Int : c >= m <=> c >= PUBLIC_MIN_VERIFIERS /\ c >= minimumVerifiers
  <2> DEFINE s == {minimumVerifiers, PUBLIC_MIN_VERIFIERS}
  <2>1. minimumVerifiers \in Int /\ PUBLIC_MIN_VERIFIERS = 2
    BY BoardAssumption DEF PUBLIC_MIN_VERIFIERS
  <2>2. \E x \in s : \A y \in s : x >= y
    BY <2>1
  <2>3. m \in s /\ \A y \in s : m >= y
    BY <2>2 DEF Max
  <2> HIDE DEF m
  <2> QED BY <2>1, <2>3
<1>3. ASSUME NEW v \in V
      PROVE  /\ voteOf(reports, v).verdict = "PASS" <=> last[v].verdict = "PASS"
             /\ voteOf(reports, v).bundleHash = last[v].bundleHash
             /\ last[v].bundleHash = reports[1].bundleHash
  <2> DEFINE own == {i \in DOMAIN reports : reports[i].verifierId = v}
  <2>1. /\ voteOf(reports, v).verdict = "PASS" <=>
             \A i \in own : reports[i].verdict = "PASS" /\ reports[i].bundleHash = voteOf(reports, v).bundleHash
        /\ \E i \in own : voteOf(reports, v).bundleHash = reports[i].bundleHash
        /\ 1 \in DOMAIN reports
    BY <1>1, VoteIs
  <2>2. PICK i \in own : voteOf(reports, v).bundleHash = reports[i].bundleHash
    BY <2>1
  <2>3. own = {i} /\ last[v] = reports[i] /\ reports[i].bundleHash = reports[1].bundleHash
    BY <2>1, <2>2 DEF BoardInv, OneEach
  <2> QED BY <2>1, <2>2, <2>3
<1>4. Passing(reports) = passing
  BY <1>3 DEF Passing
<1>5. \A v, w \in V : voteOf(reports, v).bundleHash = voteOf(reports, w).bundleHash
  BY <1>3
<1>6. Cardinality(V) \in Nat
  BY <1>1, VerifiersFinite
<1> HIDE DEF m
<1>7. LET a == aggregateVerifierReports(reports, m)
      IN  /\ a.verdict = "PASS" <=>
               /\ Cardinality(V) > 0 /\ Cardinality(V) >= m
               /\ \A v, w \in V : voteOf(reports, v).bundleHash = voteOf(reports, w).bundleHash
               /\ 2 * Cardinality(Passing(reports)) > Cardinality(V)
          /\ a.singleVerifierPass => m <= 1
  BY <1>1, <1>2, AggregateIs
<1>8. publicConsensus = aggregateVerifierReports(reports, m)
  BY DEF publicConsensus, m
<1>9. publicConsensus.verdict = "PASS" <=>
        /\ 2 * Cardinality(passing) > Cardinality(V)
        /\ Cardinality(V) >= PUBLIC_MIN_VERIFIERS
        /\ Cardinality(V) >= minimumVerifiers
  <2>1. Cardinality(V) >= m <=>
          Cardinality(V) >= PUBLIC_MIN_VERIFIERS /\ Cardinality(V) >= minimumVerifiers
    BY <1>2, <1>6
  <2>2. Cardinality(V) >= m => Cardinality(V) > 0
    BY <1>2, <1>6
  <2> QED BY <2>1, <2>2, <1>4, <1>5, <1>7, <1>8
<1>10. ~publicConsensus.singleVerifierPass
  BY <1>2, <1>7, <1>8
<1>11. \A v, w \in V : last[v].bundleHash = last[w].bundleHash
  BY <1>3
<1> QED BY <1>9, <1>10, <1>11 DEF ConsensusIsMajority

(* A verdict of several verifiers is a majority's: aggregation and service *)
(* levels fail closed for any reports and metrics, and the public board    *)
(* holds for any reports delivered in any order, again and late, with any  *)
(* limit on its length.                                                    *)
THEOREM ConsensusCorrect == ReadersSpec => []ConsensusSound
<1>1. ReadersInit => DeskInv /\ BoardInv
  BY DeskInitial, BoardInitial DEF ReadersInit
<1>2. DeskInv /\ BoardInv /\ [ReadersNext]_readerVars => (DeskInv /\ BoardInv)'
  <2>1. [ReadersNext]_readerVars => [DeskNext]_deskVars /\ [SubmitReport]_boardVars
    BY DEF ReadersNext, readerVars, Desk, Board, Observers, Memory, Pages
  <2> QED BY <2>1, DeskKept, BoardKept
<1>3. DeskInv /\ BoardInv => ConsensusSound
  BY DeskFailsClosed, BoardIsMajority DEF ConsensusSound
<1> QED BY <1>1, <1>2, <1>3, PTL DEF ReadersSpec

LEMMA DeskBindsState == DeskInv => PassBindsState
<1> SUFFICES ASSUME DeskInv, task.op = "verify" PROVE PassBindsState
  BY DEF PassBindsState
<1> DEFINE b == task.given.b
           strict == task.given.strictMode
<1>1. b \in Bundles /\ strict \in BOOLEAN /\ verdict.answer = runVerification(b, strict)
  BY DEF DeskInv
<1>2. verdict.answer = "PASS" <=>
        /\ Honest([b EXCEPT !.globalStateHash.subsystems.chains = b.chainHashes])
        /\ b.registrumSnapshot.mode = "legacy" /\ b.registrumSnapshot.sound
        /\ WellKept(b.ledgerSnapshot) /\ ~ResumesCorrelation(b.ledgerSnapshot)
        /\ strict => b.globalStateHash.subsystems.chains # NoChains
  <2> HIDE DEF b, strict
  <2> QED BY <1>1, VerifierPasses
<1>3. ASSUME verdict.answer = "PASS", NEW o \in Bundles, runVerification(o, FALSE) = "PASS",
             o.bundleHash = b.bundleHash
      PROVE  /\ o.ledgerSnapshot = b.ledgerSnapshot /\ o.eventHashes = b.eventHashes
             /\ o.registrumSnapshot = b.registrumSnapshot /\ o.chainHashes = b.chainHashes
  <2> HIDE DEF b, strict
  <2>1. verifyBundleIntegrity(b)
    BY <1>1, <1>2, <1>3, IntegrityIsHonest
  <2>2. verifyBundleIntegrity(o)
    BY <1>3, VerifierPasses, IntegrityIsHonest
  <2> QED BY <2>1, <2>2, <1>1, <1>3, PassIsBinding
<1> QED BY <1>2, <1>3 DEF PassBindsState

LEMMA DeskGivesFullMarks == DeskInv => FullMarksBindState
<1> SUFFICES ASSUME DeskInv, task.op = "comply" PROVE FullMarksBindState
  BY DEF FullMarksBindState
<1>1. PICK f \in DOMAIN FRAMEWORK_REGISTRY :
        verdict = generateComplianceEvidence(FRAMEWORK_REGISTRY[f], task.given)
  BY DEF DeskInv
<1>2. \E n \in {14, 20} : Framework(FRAMEWORK_REGISTRY[f], n)
  BY Soc2Is, Iso27001Is DEF FRAMEWORK_REGISTRY
<1> QED BY <1>1, <1>2, ReportIs DEF FullMarksBindState

(* What a verifier or a compliance report says of any bundle, however it   *)
(* was put together, it says of the state the bundle holds: a PASS means   *)
(* an honest bundle of a well-kept ledger that replay leaves in order, one *)
(* bundle hash stands for one state, and full marks need both hashes.      *)
THEOREM BundleCorrect == ReadersSpec => []BundleSound
<1>1. ReadersInit => DeskInv
  BY DeskInitial DEF ReadersInit
<1>2. DeskInv /\ [ReadersNext]_readerVars => DeskInv'
  <2>1. [ReadersNext]_readerVars => [DeskNext]_deskVars
    BY DEF ReadersNext, readerVars, Desk, Board, Observers, Memory, Pages
  <2> QED BY <2>1, DeskKept
<1>3. DeskInv => BundleSound
  BY DeskBindsState, DeskGivesFullMarks DEF BundleSound
<1> QED BY <1>1, <1>2, <1>3, PTL DEF ReadersSpec
-----------------------------------------------------------------------------
(* Merkle trees                                                            *)

(* Induction over the naturals, for a property given as a set.             *)
LEMMA StepByStep ==
    ASSUME NEW T \in SUBSET Nat, 0 \in T, \A n \in T : n + 1 \in T
    PROVE  T = Nat
<1>1. ASSUME NEW n \in Nat, \A k \in Nat : k < n => k \in T PROVE n \in T
  <2>1. CASE n = 0
    BY <2>1
  <2>2. CASE n # 0
    <3>1. n - 1 \in T /\ (n - 1) + 1 = n
      BY <1>1, <2>2
    <3> QED BY <3>1
  <2> QED BY <2>1, <2>2
<1> QED BY <1>1, NoLeastExceptionIsNone

LeafHashes(leaves) == [k \in DOMAIN leaves |-> hashLeaf(leaves[k])]

(* The first n levels above the leaves.                                    *)
Tree(f, leaves, n) ==
    /\ DOMAIN f = 0..n
    /\ f[0] = LeafHashes(leaves)
    /\ \A k \in 0..n : k # 0 => f[k] = ParentLevel(f[k - 1])

(* The recursion of Levels has a solution.                                 *)
LEMMA LevelsAre ==
    ASSUME NEW leaves, Len(leaves) \in Nat
    PROVE  Tree(Levels(leaves), leaves, Len(leaves))
<1> DEFINE T == {n \in Nat : \E f : Tree(f, leaves, n)}
           N == Len(leaves)
<1>1. 0 \in T
  <2> DEFINE f == [k \in 0..0 |-> LeafHashes(leaves)]
  <2>1. Tree(f, leaves, 0)
    BY DEF Tree
  <2> QED BY <2>1
<1>2. ASSUME NEW n \in T PROVE n + 1 \in T
  <2>1. PICK f : Tree(f, leaves, n)
    BY <1>2
  <2> DEFINE g == [k \in 0..(n + 1) |-> IF k = n + 1 THEN ParentLevel(f[n]) ELSE f[k]]
  <2>2. n \in Nat
    BY <1>2
  <2>3. g[n + 1] = ParentLevel(g[n]) /\ \A k \in 0..n : g[k] = f[k]
    BY <2>2
  <2>4. \A k \in 0..(n + 1) : k \in 0..n \/ k = n + 1
    BY <2>2
  <2>5. \A k \in 0..n : k # 0 => k - 1 \in 0..n
    BY <2>2
  <2>6. 0 \in 0..n /\ (n + 1) - 1 = n /\ DOMAIN g = 0..(n + 1)
    BY <2>2
  <2> HIDE DEF g
  <2>7. Tree(g, leaves, n + 1)
    BY <2>1, <2>3, <2>4, <2>5, <2>6 DEF Tree
  <2> QED BY <2>2, <2>7
<1>3. T = Nat
  <2>1. T \in SUBSET Nat
    OBVIOUS
  <2> HIDE DEF T
  <2> QED BY <1>1, <1>2, <2>1, StepByStep
<1>4. PICK f : Tree(f, leaves, N)
  BY <1>3
<1> DEFINE IsLevels(g) == g = [n \in 0..N |-> IF n = 0 THEN LeafHashes(leaves) ELSE ParentLevel(g[n - 1])]
           c == CHOOSE g : IsLevels(g)
<1>5. Levels(leaves) = c
  BY DEF Levels, LeafHashes
<1>6. \E g : IsLevels(g)
  <2> DEFINE g == [n \in 0..N |-> f[n]]
             e(n) == IF n = 0 THEN LeafHashes(leaves) ELSE ParentLevel(g[n - 1])
  <2>1. \A n \in 0..N : n # 0 => n - 1 \in 0..N
    OBVIOUS
  <2>2. \A n \in 0..N : g[n] = f[n]
    OBVIOUS
  <2> HIDE DEF N
  <2>3. \A n \in 0..N : f[n] = e(n)
    BY <1>4, <2>1, <2>2 DEF Tree
  <2>4. [n \in 0..N |-> f[n]] = [n \in 0..N |-> e(n)]
    BY <2>3
  <2>5. IsLevels(g)
    BY <2>4
  <2> HIDE DEF g
  <2> QED BY <2>5
<1>7. IsLevels(c)
  BY <1>6
<1> HIDE DEF c
<1>8. Tree(c, leaves, N)
  <2>1. DOMAIN c = 0..N /\ \A n \in 0..N : c[n] = IF n = 0 THEN LeafHashes(leaves) ELSE ParentLevel(c[n - 1])
    BY <1>7
  <2> QED BY <2>1 DEF Tree
<1> QED BY <1>5, <1>8

(* What the level above a level has.                                       *)
LEMMA ParentIs ==
    ASSUME NEW level, Len(level) \in Nat
    PROVE  LET up == ParentLevel(level)
               m == (Len(level) + 1) \div 2
           IN  /\ Len(up) = m /\ DOMAIN up = 1..m
               /\ \A k \in 1..m : up[k] = IF 2 * k > Len(level) THEN level[2 * k - 1]
                                          ELSE hashPair(level[2 * k - 1], level[2 * k])
<1> DEFINE m == (Len(level) + 1) \div 2
           e(k) == IF 2 * k > Len(level) THEN level[2 * k - 1] ELSE hashPair(level[2 * k - 1], level[2 * k])
           up == [k \in 1..m |-> e(k)]
<1>1. ParentLevel(level) = up
  BY DEF ParentLevel
<1>2. m \in Nat
  OBVIOUS
<1> HIDE DEF m, e
<1>3. Len(up) = m /\ DOMAIN up = 1..m /\ \A k \in 1..m : up[k] = e(k)
  BY <1>2
<1> QED BY <1>1, <1>3 DEF m, e

(* A tree of N leaves: every level is a list of nodes, shorter than the    *)
(* one below, until one node is left.                                      *)
LEMMA LevelShape ==
    ASSUME NEW leaves, IsSequence(leaves), leaves # <<>>
    PROVE  LET L == Levels(leaves)
               N == Len(leaves)
           IN  /\ N \in Nat \ {0} /\ L[0] = LeafHashes(leaves) /\ Len(L[0]) = N
               /\ \A n \in 0..N : /\ Len(L[n]) \in Nat \ {0} /\ DOMAIN L[n] = 1..Len(L[n])
                                  /\ Len(L[n]) + n <= N \/ Len(L[n]) = 1
               /\ \A n \in 0..N : n # N =>
                     /\ Len(L[n + 1]) = (Len(L[n]) + 1) \div 2
                     /\ \A k \in 1..Len(L[n + 1]) :
                           L[n + 1][k] = IF 2 * k > Len(L[n]) THEN L[n][2 * k - 1]
                                         ELSE hashPair(L[n][2 * k - 1], L[n][2 * k])
<1> DEFINE L == Levels(leaves)
           N == Len(leaves)
           Good(n) == /\ Len(L[n]) \in Nat \ {0} /\ DOMAIN L[n] = 1..Len(L[n])
                      /\ Len(L[n]) + n <= N \/ Len(L[n]) = 1
           T == {n \in Nat : n <= N => Good(n)}
<1>1. N \in Nat \ {0} /\ DOMAIN leaves = 1..N
  BY DEF IsSequence
<1>2. Tree(L, leaves, N)
  BY <1>1, LevelsAre
<1>3. L[0] = LeafHashes(leaves) /\ Len(L[0]) = N /\ DOMAIN L[0] = 1..N
  <2>1. L[0] = LeafHashes(leaves)
    BY <1>2 DEF Tree
  <2>2. LeafHashes(leaves) = [k \in 1..N |-> hashLeaf(leaves[k])]
    BY <1>1 DEF LeafHashes
  <2>3. Len(LeafHashes(leaves)) = N /\ DOMAIN LeafHashes(leaves) = 1..N
    BY <1>1, <2>2
  <2> QED BY <2>1, <2>3
<1>4. \A n \in 0..N : n # N => L[n + 1] = ParentLevel(L[n])
  <2> SUFFICES ASSUME NEW n \in 0..N, n # N PROVE L[n + 1] = ParentLevel(L[n])
    OBVIOUS
  <2> HIDE DEF L, N
  <2>1. n + 1 \in 0..N /\ n + 1 # 0 /\ (n + 1) - 1 = n
    BY <1>1
  <2> QED BY <2>1, <1>2 DEF Tree
<1> HIDE DEF L, N
<1>5. 0 \in T
  BY <1>1, <1>3
<1>6. ASSUME NEW n \in T PROVE n + 1 \in T
  <2>0. n + 1 \in Nat
    BY <1>6
  <2> SUFFICES ASSUME n + 1 <= N PROVE Good(n + 1)
    BY <2>0
  <2>1. n \in 0..N /\ n # N /\ n \in Nat /\ Good(n)
    BY <1>1, <1>6
  <2>2. L[n + 1] = ParentLevel(L[n])
    BY <2>1, <1>4
  <2> DEFINE a == Len(L[n])
             b == Len(L[n + 1])
  <2>3. a \in Nat \ {0} /\ (a + n <= N \/ a = 1)
    BY <2>1
  <2>4. b = (a + 1) \div 2 /\ DOMAIN L[n + 1] = 1..b
    BY <2>2, <2>3, ParentIs
  <2> HIDE DEF a, b
  <2>5. b \in Nat \ {0} /\ (b + (n + 1) <= N \/ b = 1)
    BY <2>1, <2>3, <2>4, <1>1
  <2> QED BY <2>4, <2>5 DEF b
<1>7. T = Nat
  <2>1. T \in SUBSET Nat
    OBVIOUS
  <2> HIDE DEF T
  <2> QED BY <1>5, <1>6, <2>1, StepByStep
<1>8. \A n \in 0..N : Good(n)
  <2> SUFFICES ASSUME NEW n \in 0..N PROVE Good(n)
    OBVIOUS
  <2>1. n \in Nat /\ n <= N
    BY <1>1
  <2>2. n \in T
    BY <2>1, <1>7
  <2> QED BY <2>1, <2>2
<1>9. ASSUME NEW n \in 0..N, n # N
      PROVE  /\ Len(L[n + 1]) = (Len(L[n]) + 1) \div 2
             /\ \A k \in 1..Len(L[n + 1]) :
                   L[n + 1][k] = IF 2 * k > Len(L[n]) THEN L[n][2 * k - 1]
                                 ELSE hashPair(L[n][2 * k - 1], L[n][2 * k])
  <2>1. L[n + 1] = ParentLevel(L[n]) /\ Len(L[n]) \in Nat
    BY <1>4, <1>8, <1>9
  <2> QED BY <2>1, ParentIs
<1> QED BY <1>1, <1>3, <1>8, <1>9 DEF L, N

(* The root is the only node of the first level of one node.               *)
LEMMA HeightIs ==
    ASSUME NEW leaves, IsSequence(leaves), leaves # <<>>
    PROVE  LET h == Height(leaves)
           IN  /\ h \in 0..Len(leaves) /\ Len(Levels(leaves)[h]) = 1
               /\ \A n \in 0..Len(leaves) : n < h => Len(Levels(leaves)[n]) # 1
               /\ getRoot(leaves) = Levels(leaves)[h][1]
<1> DEFINE N == Len(leaves)
           S == {n \in 0..N : Len(Levels(leaves)[n]) = 1}
<1>1. N \in Nat \ {0} /\ Len(Levels(leaves)[N]) = 1
  <2>1. N \in Nat \ {0} /\ N \in 0..N
    BY LevelShape
  <2>2. LET a == Len(Levels(leaves)[N]) IN a \in Nat \ {0} /\ (a + N <= N \/ a = 1)
    BY <2>1, LevelShape
  <2> QED BY <2>1, <2>2
<1>2. N \in S /\ S \in SUBSET Nat
  BY <1>1
<1>3. PICK m \in S : \A k \in S : m <= k
  BY <1>2, LeastNatural
<1>4. Height(leaves) = CHOOSE x \in S : \A y \in S : x <= y
  BY DEF Height, Min
<1>5. Height(leaves) \in S /\ \A k \in S : Height(leaves) <= k
  BY <1>3, <1>4
<1>6. \A n \in 0..N : n < Height(leaves) => n \notin S
  BY <1>1, <1>5
<1> QED BY <1>5, <1>6 DEF getRoot

(* The nodes of a tree.                                                    *)
Nodes(leaves) ==
    LET L == Levels(leaves)
    IN  UNION {{L[n][k] : k \in 1..Len(L[n])} : n \in 0..Len(leaves)}

(* A node is the hash of a leaf, or of two nodes.                          *)
NodeForm(v, leaves) ==
    \/ \E j \in DOMAIN leaves : v = hashLeaf(leaves[j])
    \/ \E c, d \in Nodes(leaves) : v = hashPair(c, d)

LEMMA NodeIntro ==
    ASSUME NEW leaves, NEW n \in 0..Len(leaves), NEW k \in 1..Len(Levels(leaves)[n])
    PROVE  Levels(leaves)[n][k] \in Nodes(leaves)
  BY DEF Nodes

LEMMA NodesAreBuilt ==
    ASSUME NEW leaves, IsSequence(leaves), leaves # <<>>, NEW v \in Nodes(leaves)
    PROVE  NodeForm(v, leaves)
<1> DEFINE L == Levels(leaves)
           N == Len(leaves)
           Good(n) == \A k \in 1..Len(L[n]) : NodeForm(L[n][k], leaves)
           T == {n \in Nat : n <= N => Good(n)}
<1>1. N \in Nat /\ DOMAIN leaves = 1..N
  BY DEF IsSequence
<1>2. /\ L[0] = LeafHashes(leaves) /\ Len(L[0]) = N
      /\ \A n \in 0..N : Len(L[n]) \in Nat
      /\ \A n \in 0..N : n # N =>
           /\ Len(L[n + 1]) = (Len(L[n]) + 1) \div 2
           /\ \A k \in 1..Len(L[n + 1]) :
                 L[n + 1][k] = IF 2 * k > Len(L[n]) THEN L[n][2 * k - 1]
                               ELSE hashPair(L[n][2 * k - 1], L[n][2 * k])
  BY LevelShape
<1>3. \A n \in 0..N : \A k \in 1..Len(L[n]) : L[n][k] \in Nodes(leaves)
  BY NodeIntro
<1>4. v \in UNION {{L[n][k] : k \in 1..Len(L[n])} : n \in 0..N}
  BY DEF Nodes
<1> HIDE DEF L, N
<1>5. 0 \in T
  <2>1. \A k \in 1..N : L[0][k] = hashLeaf(leaves[k])
    BY <1>1, <1>2 DEF LeafHashes
  <2>2. Good(0)
    BY <2>1, <1>1, <1>2 DEF NodeForm
  <2> QED BY <2>2
<1>6. ASSUME NEW n \in T PROVE n + 1 \in T
  <2>0. n + 1 \in Nat /\ n \in Nat
    BY <1>6
  <2> SUFFICES ASSUME n + 1 <= N PROVE Good(n + 1)
    BY <2>0
  <2>1. n \in 0..N /\ n # N /\ Good(n)
    BY <2>0, <1>1, <1>6
  <2> SUFFICES ASSUME NEW k \in 1..Len(L[n + 1]) PROVE NodeForm(L[n + 1][k], leaves)
    OBVIOUS
  <2> DEFINE a == Len(L[n])
  <2>2. a \in Nat /\ k \in 1..((a + 1) \div 2)
    BY <2>1, <1>2
  <2>3. L[n + 1][k] = IF 2 * k > a THEN L[n][2 * k - 1] ELSE hashPair(L[n][2 * k - 1], L[n][2 * k])
    BY <2>1, <1>2
  <2>4. \A i \in 1..a : L[n][i] \in Nodes(leaves) /\ NodeForm(L[n][i], leaves)
    BY <2>1, <1>3
  <2> HIDE DEF a
  <2>5. 2 * k - 1 \in 1..a /\ (~(2 * k > a) => 2 * k \in 1..a)
    BY <2>2
  <2>6. CASE 2 * k > a
    BY <2>3, <2>4, <2>5, <2>6
  <2>7. CASE ~(2 * k > a)
    BY <2>3, <2>4, <2>5, <2>7 DEF NodeForm
  <2> QED BY <2>6, <2>7
<1>7. T = Nat
  <2>1. T \in SUBSET Nat
    OBVIOUS
  <2> HIDE DEF T
  <2> QED BY <1>5, <1>6, <2>1, StepByStep
<1>8. PICK n \in 0..N : \E k \in 1..Len(L[n]) : v = L[n][k]
  BY <1>4
<1>9. n \in Nat /\ n <= N /\ n \in T
  BY <1>1, <1>7
<1> QED BY <1>8, <1>9

(* No node is one of the digests that are refused.                         *)
LEMMA NodesAreDigests ==
    ASSUME NEW leaves, IsSequence(leaves), leaves # <<>>, NEW v \in Nodes(leaves)
    PROVE  assertValidSha256Hex(v)
<1>1. NodeForm(v, leaves)
  BY NodesAreBuilt
<1> QED BY <1>1 DEF NodeForm, hashLeaf, hashPair, assertValidSha256Hex, Malformed, Null

-----------------------------------------------------------------------------
(* Paths                                                                   *)

(* The hashes on the way up from a leaf along a path.                      *)
Way(w, x, path, n) ==
    /\ w[0] = hashLeaf(x)
    /\ \A k \in 1..n : w[k] = Fold(path[k], w[k - 1])

LEMMA WayExists ==
    ASSUME NEW x, NEW path, Len(path) \in Nat
    PROVE  \E w : Way(w, x, path, Len(path)) /\ FoldUp(x, path) = w[Len(path)]
<1> DEFINE N == Len(path)
           T == {n \in Nat : \E f : Way(f, x, path, n)}
<1>1. 0 \in T
  <2> DEFINE f == [k \in 0..0 |-> hashLeaf(x)]
  <2>1. Way(f, x, path, 0)
    BY DEF Way
  <2> QED BY <2>1
<1>2. ASSUME NEW n \in T PROVE n + 1 \in T
  <2>1. PICK f : Way(f, x, path, n)
    BY <1>2
  <2> DEFINE g == [k \in 0..(n + 1) |-> IF k = n + 1 THEN Fold(path[n + 1], f[n]) ELSE f[k]]
  <2>2. n \in Nat
    BY <1>2
  <2>3. g[n + 1] = Fold(path[n + 1], g[n]) /\ \A k \in 0..n : g[k] = f[k]
    BY <2>2
  <2>4. \A k \in 1..(n + 1) : k \in 1..n \/ k = n + 1
    BY <2>2
  <2>5. \A k \in 1..n : k \in 0..n /\ k - 1 \in 0..n
    BY <2>2
  <2>6. 0 \in 0..n /\ (n + 1) - 1 = n
    BY <2>2
  <2> HIDE DEF g
  <2>7. Way(g, x, path, n + 1)
    BY <2>1, <2>3, <2>4, <2>5, <2>6 DEF Way
  <2> QED BY <2>2, <2>7
<1>3. T = Nat
  <2>1. T \in SUBSET Nat
    OBVIOUS
  <2> HIDE DEF T
  <2> QED BY <1>1, <1>2, <2>1, StepByStep
<1>4. PICK f : Way(f, x, path, N)
  BY <1>3
<1> DEFINE IsWay(g) == g = [k \in 0..N |-> IF k = 0 THEN hashLeaf(x) ELSE Fold(path[k], g[k - 1])]
           c == CHOOSE g : IsWay(g)
<1>5. FoldUp(x, path) = c[N]
  BY DEF FoldUp
<1>6. \E g : IsWay(g)
  <2> DEFINE g == [n \in 0..N |-> f[n]]
             e(n) == IF n = 0 THEN hashLeaf(x) ELSE Fold(path[n], g[n - 1])
  <2>1. \A n \in 0..N : n # 0 => n \in 1..N /\ n - 1 \in 0..N
    OBVIOUS
  <2>2. \A n \in 0..N : g[n] = f[n]
    OBVIOUS
  <2> HIDE DEF N
  <2>3. \A n \in 0..N : f[n] = e(n)
    BY <1>4, <2>1, <2>2 DEF Way
  <2>4. [n \in 0..N |-> f[n]] = [n \in 0..N |-> e(n)]
    BY <2>3
  <2>5. IsWay(g)
    BY <2>4
  <2> HIDE DEF g
  <2> QED BY <2>5
<1>7. IsWay(c)
  BY <1>6
<1> HIDE DEF c
<1>8. Way(c, x, path, N)
  <2>1. \A n \in 0..N : c[n] = IF n = 0 THEN hashLeaf(x) ELSE Fold(path[n], c[n - 1])
    BY <1>7
  <2>2. 0 \in 0..N /\ \A n \in 1..N : n \in 0..N /\ n # 0
    OBVIOUS
  <2> HIDE DEF N
  <2> QED BY <2>1, <2>2 DEF Way
<1> QED BY <1>5, <1>8

(* The hashes on the way up from a leaf are determined.                    *)
LEMMA WaysAgree ==
    ASSUME NEW x, NEW p, NEW q, NEW n \in Nat, NEW v, NEW w,
           Way(v, x, p, n), Way(w, x, q, n), \A k \in 1..n : p[k] = q[k]
    PROVE  v[n] = w[n]
<1> DEFINE T == {k \in Nat : k <= n => v[k] = w[k]}
<1>1. 0 \in T
  BY DEF Way
<1>2. ASSUME NEW k \in T PROVE k + 1 \in T
  <2>1. k \in Nat /\ k + 1 \in Nat /\ (k + 1) - 1 = k
    BY <1>2
  <2> SUFFICES ASSUME k + 1 <= n PROVE v[k + 1] = w[k + 1]
    BY <2>1
  <2>2. k + 1 \in 1..n /\ v[k] = w[k]
    BY <1>2, <2>1
  <2> QED BY <2>1, <2>2 DEF Way
<1>3. T = Nat
  <2>1. T \in SUBSET Nat
    OBVIOUS
  <2> HIDE DEF T
  <2> QED BY <1>1, <1>2, <2>1, StepByStep
<1> QED BY <1>3

(* Of a way that ends in a node of a tree every hash is a node, so that it *)
(* starts at a leaf of the tree.                                           *)
LEMMA WayStartsAtLeaf ==
    ASSUME NEW leaves, IsSequence(leaves), leaves # <<>>, NEW x, NEW path, Len(path) \in Nat,
           FoldUp(x, path) \in Nodes(leaves)
    PROVE  \E j \in DOMAIN leaves : x = leaves[j]
<1> DEFINE N == Len(path)
<1>1. PICK w : Way(w, x, path, N) /\ FoldUp(x, path) = w[N]
  BY WayExists
<1>2. \A a, b, c, d : hashPair(a, b) = hashPair(c, d) => a = c /\ b = d
  BY DEF hashPair
<1>3. \A a, b, c : hashLeaf(a) # hashPair(b, c)
  BY DEF hashPair, hashLeaf
<1>4. \A v \in Nodes(leaves) : NodeForm(v, leaves)
  BY NodesAreBuilt
<1> DEFINE T == {k \in Nat : k <= N => w[N - k] \in Nodes(leaves)}
<1>5. 0 \in T
  <2>1. N - 0 = N
    OBVIOUS
  <2> QED BY <1>1, <2>1
<1>6. ASSUME NEW k \in T PROVE k + 1 \in T
  <2>1. k \in Nat /\ k + 1 \in Nat
    BY <1>6
  <2> SUFFICES ASSUME k + 1 <= N PROVE w[N - (k + 1)] \in Nodes(leaves)
    BY <2>1
  <2> DEFINE m == N - k
  <2>2. m \in 1..N /\ N - (k + 1) = m - 1 /\ w[m] \in Nodes(leaves)
    BY <1>6, <2>1
  <2> HIDE DEF m, N
  <2>3. w[m] = Fold(path[m], w[m - 1])
    BY <1>1, <2>2 DEF Way
  <2>4. \E s : w[m] = hashPair(s, w[m - 1]) \/ w[m] = hashPair(w[m - 1], s)
    BY <2>3 DEF Fold
  <2>5. PICK c \in Nodes(leaves), d \in Nodes(leaves) : w[m] = hashPair(c, d)
    BY <2>2, <2>4, <1>3, <1>4 DEF NodeForm
  <2> QED BY <2>2, <2>4, <2>5, <1>2
<1>7. T = Nat
  <2>1. T \in SUBSET Nat
    OBVIOUS
  <2> HIDE DEF T
  <2> QED BY <1>5, <1>6, <2>1, StepByStep
<1>8. w[0] \in Nodes(leaves)
  <2>1. N \in T /\ N - N = 0 /\ N <= N
    BY <1>7
  <2> QED BY <2>1
<1>9. w[0] = hashLeaf(x)
  BY <1>1 DEF Way
<1>10. PICK j \in DOMAIN leaves : hashLeaf(x) = hashLeaf(leaves[j])
  BY <1>3, <1>4, <1>8, <1>9 DEF NodeForm
<1> QED BY <1>10 DEF hashLeaf
LEMMA FoldAppend ==
    ASSUME NEW x, NEW p, IsSequence(p), NEW s
    PROVE  FoldUp(x, Append(p, s)) = Fold(s, FoldUp(x, p))
<1> DEFINE q == Append(p, s)
           m == Len(p)
<1>1. /\ m \in Nat /\ Len(q) = m + 1 /\ q[m + 1] = s
      /\ \A i \in 1..m : q[i] = p[i]
  BY AppendElements
<1> HIDE DEF q, m
<1>2. PICK v : Way(v, x, p, m) /\ FoldUp(x, p) = v[m]
  BY <1>1, WayExists DEF m
<1>3. m + 1 \in Nat /\ (m + 1) - 1 = m /\ m + 1 \in 1..(m + 1) /\ \A k \in 1..m : k \in 1..(m + 1)
  BY <1>1
<1>4. PICK w : Way(w, x, q, m + 1) /\ FoldUp(x, q) = w[m + 1]
  BY <1>1, <1>3, WayExists
<1>5. Way(w, x, q, m) /\ w[m + 1] = Fold(q[m + 1], w[m])
  BY <1>3, <1>4 DEF Way
<1>6. v[m] = w[m]
  BY <1>1, <1>2, <1>5, WaysAgree
<1> QED BY <1>1, <1>2, <1>4, <1>5, <1>6 DEF q

(* The recursion of PathUp has a solution.                                 *)
Path(f, leaves, index, n) ==
    /\ f[0] = [at |-> index, siblings |-> <<>>]
    /\ \A k \in 1..n : f[k] = Climb(Levels(leaves)[k - 1], f[k - 1])

LEMMA PathIs ==
    ASSUME NEW leaves, Len(leaves) \in Nat, NEW index
    PROVE  Path(PathUp(leaves, index), leaves, index, Len(leaves))
<1> DEFINE N == Len(leaves)
           L == Levels(leaves)
           start == [at |-> index, siblings |-> <<>>]
           T == {n \in Nat : \E f : Path(f, leaves, index, n)}
<1>1. 0 \in T
  <2> DEFINE f == [k \in 0..0 |-> start]
  <2>1. Path(f, leaves, index, 0)
    BY DEF Path
  <2> QED BY <2>1
<1>2. ASSUME NEW n \in T PROVE n + 1 \in T
  <2>1. PICK f : Path(f, leaves, index, n)
    BY <1>2
  <2> DEFINE g == [k \in 0..(n + 1) |-> IF k = n + 1 THEN Climb(L[n], f[n]) ELSE f[k]]
  <2>2. n \in Nat
    BY <1>2
  <2>3. g[n + 1] = Climb(L[n], g[n]) /\ \A k \in 0..n : g[k] = f[k]
    BY <2>2
  <2>4. \A k \in 1..(n + 1) : k \in 1..n \/ k = n + 1
    BY <2>2
  <2>5. \A k \in 1..n : k \in 0..n /\ k - 1 \in 0..n
    BY <2>2
  <2>6. 0 \in 0..n /\ (n + 1) - 1 = n
    BY <2>2
  <2> HIDE DEF g
  <2>7. Path(g, leaves, index, n + 1)
    BY <2>1, <2>3, <2>4, <2>5, <2>6 DEF Path
  <2> QED BY <2>2, <2>7
<1>3. T = Nat
  <2>1. T \in SUBSET Nat
    OBVIOUS
  <2> HIDE DEF T
  <2> QED BY <1>1, <1>2, <2>1, StepByStep
<1>4. PICK f : Path(f, leaves, index, N)
  BY <1>3
<1> DEFINE IsPath(g) == g = [k \in 0..N |-> IF k = 0 THEN start ELSE Climb(L[k - 1], g[k - 1])]
           c == CHOOSE g : IsPath(g)
<1>5. PathUp(leaves, index) = c
  BY DEF PathUp
<1>6. \E g : IsPath(g)
  <2> DEFINE g == [n \in 0..N |-> f[n]]
             e(n) == IF n = 0 THEN start ELSE Climb(L[n - 1], g[n - 1])
  <2>1. \A n \in 0..N : n # 0 => n \in 1..N /\ n - 1 \in 0..N
    OBVIOUS
  <2>2. \A n \in 0..N : g[n] = f[n]
    OBVIOUS
  <2> HIDE DEF N
  <2>3. \A n \in 0..N : f[n] = e(n)
    BY <1>4, <2>1, <2>2 DEF Path
  <2>4. [n \in 0..N |-> f[n]] = [n \in 0..N |-> e(n)]
    BY <2>3
  <2>5. IsPath(g)
    BY <2>4
  <2> HIDE DEF g
  <2> QED BY <2>5
<1>7. IsPath(c)
  BY <1>6
<1> HIDE DEF c
<1>8. Path(c, leaves, index, N)
  <2>1. \A n \in 0..N : c[n] = IF n = 0 THEN start ELSE Climb(L[n - 1], c[n - 1])
    BY <1>7
  <2>2. 0 \in 0..N /\ \A n \in 1..N : n \in 0..N /\ n # 0
    OBVIOUS
  <2> HIDE DEF N
  <2> QED BY <2>1, <2>2 DEF Path
<1> QED BY <1>5, <1>8

(* The path of a leaf leads up to the node it has reached, beside nodes.   *)
OnPath(p, leaves, x, n) ==
    /\ p.at \in 1..Len(Levels(leaves)[n])
    /\ IsSequence(p.siblings)
    /\ \A k \in 1..Len(p.siblings) : p.siblings[k].hash \in Nodes(leaves)
    /\ FoldUp(x, p.siblings) = Levels(leaves)[n][p.at]

LEMMA PathLeadsUp ==
    ASSUME NEW leaves, IsSequence(leaves), NEW index \in DOMAIN leaves, NEW n \in 0..Len(leaves)
    PROVE  OnPath(PathUp(leaves, index)[n], leaves, leaves[index], n)
<1> DEFINE L == Levels(leaves)
           N == Len(leaves)
           P == PathUp(leaves, index)
           x == leaves[index]
           T == {k \in Nat : k <= N => OnPath(P[k], leaves, x, k)}
<1>1. N \in Nat /\ DOMAIN leaves = 1..N /\ leaves # <<>>
  BY DEF IsSequence
<1>2. /\ L[0] = LeafHashes(leaves) /\ Len(L[0]) = N
      /\ \A m \in 0..N : Len(L[m]) \in Nat
      /\ \A m \in 0..N : m # N =>
           /\ Len(L[m + 1]) = (Len(L[m]) + 1) \div 2
           /\ \A k \in 1..Len(L[m + 1]) :
                 L[m + 1][k] = IF 2 * k > Len(L[m]) THEN L[m][2 * k - 1]
                               ELSE hashPair(L[m][2 * k - 1], L[m][2 * k])
  BY <1>1, LevelShape
<1>3. Path(P, leaves, index, N)
  BY <1>1, PathIs
<1>4. \A m \in 0..N : \A k \in 1..Len(L[m]) : L[m][k] \in Nodes(leaves)
  BY NodeIntro
<1>5. 0 \in T
  <2>1. P[0].at = index /\ P[0].siblings = <<>>
    BY <1>3 DEF Path
  <2>2. IsSequence(<<>>) /\ Len(<<>>) = 0
    BY EmptyIsSequence
  <2>3. PICK w : Way(w, x, <<>>, 0) /\ FoldUp(x, <<>>) = w[0]
    BY <2>2, WayExists
  <2>4. FoldUp(x, <<>>) = hashLeaf(x)
    BY <2>3 DEF Way
  <2>5. L[0][index] = hashLeaf(x) /\ index \in 1..Len(L[0])
    BY <1>1, <1>2 DEF LeafHashes
  <2> HIDE DEF P, x
  <2>6. OnPath(P[0], leaves, x, 0)
    BY <2>1, <2>2, <2>4, <2>5 DEF OnPath
  <2> QED BY <2>6
<1>6. ASSUME NEW k \in T PROVE k + 1 \in T
  <2>0. k \in Nat /\ k + 1 \in Nat
    BY <1>6
  <2> SUFFICES ASSUME k + 1 <= N PROVE OnPath(P[k + 1], leaves, x, k + 1)
    BY <2>0
  <2> HIDE DEF N, P, L, x
  <2>1. k \in 0..N /\ k # N /\ k + 1 \in 1..N /\ (k + 1) - 1 = k /\ OnPath(P[k], leaves, x, k)
    BY <2>0, <1>1, <1>6
  <2>2. P[k + 1] = Climb(L[k], P[k])
    BY <2>1, <1>3 DEF Path, L
  <2> DEFINE a == P[k].at
             sibs == P[k].siblings
             n1 == Len(L[k])
             b == (a + 1) \div 2
             left == a % 2 = 1
             sib == IF left THEN a + 1 ELSE a - 1
             step == [hash |-> L[k][sib], direction |-> IF left THEN "right" ELSE "left"]
  <2>3. /\ P[k + 1].at = b
        /\ P[k + 1].siblings = IF sib > n1 THEN sibs ELSE Append(sibs, step)
    BY <2>2 DEF Climb
  <2>4. /\ a \in 1..n1 /\ n1 \in Nat /\ IsSequence(sibs) /\ FoldUp(x, sibs) = L[k][a]
        /\ \A i \in 1..Len(sibs) : sibs[i].hash \in Nodes(leaves)
    BY <2>1, <1>2 DEF OnPath, L
  <2>5. /\ Len(L[k + 1]) = (n1 + 1) \div 2
        /\ \A j \in 1..((n1 + 1) \div 2) :
              L[k + 1][j] = IF 2 * j > n1 THEN L[k][2 * j - 1] ELSE hashPair(L[k][2 * j - 1], L[k][2 * j])
    BY <2>1, <1>2
  <2>6. \A i \in 1..n1 : L[k][i] \in Nodes(leaves)
    BY <2>1, <1>4
  <2>7. step.hash = L[k][sib] /\ (step.direction = "left" <=> ~left)
    OBVIOUS
  <2> HIDE DEF a, sibs, n1, step
  <2>8. /\ b \in 1..((n1 + 1) \div 2)
        /\ left => 2 * b - 1 = a /\ sib = a + 1 /\ 2 * b = a + 1
        /\ ~left => 2 * b = a /\ sib = a - 1 /\ 2 * b - 1 = a - 1 /\ sib \in 1..n1 /\ ~(sib > n1)
        /\ ~(sib > n1) => sib \in 1..n1
    BY <2>4
  <2> HIDE DEF b, left, sib
  <2>9. CASE sib > n1
    <3>1. L[k + 1][b] = L[k][a] /\ P[k + 1].siblings = sibs
      BY <2>3, <2>5, <2>8, <2>9
    <3> QED BY <3>1, <2>3, <2>4, <2>5, <2>8 DEF OnPath, L
  <2>10. CASE ~(sib > n1)
    <3>1. P[k + 1].siblings = Append(sibs, step)
      BY <2>3, <2>10
    <3>2. FoldUp(x, Append(sibs, step)) = Fold(step, L[k][a])
      BY <2>4, FoldAppend
    <3>3. /\ IsSequence(Append(sibs, step)) /\ Len(Append(sibs, step)) = Len(sibs) + 1 /\ Len(sibs) \in Nat
          /\ \A i \in 1..Len(sibs) : Append(sibs, step)[i] = sibs[i]
          /\ Append(sibs, step)[Len(sibs) + 1] = step
      BY <2>4, AppendElements
    <3>4. \A i \in 1..(Len(sibs) + 1) : i \in 1..Len(sibs) \/ i = Len(sibs) + 1
      BY <3>3
    <3>5. step.hash \in Nodes(leaves)
      BY <2>6, <2>7, <2>8, <2>10
    <3>6. \A i \in 1..Len(Append(sibs, step)) : Append(sibs, step)[i].hash \in Nodes(leaves)
      BY <3>3, <3>4, <3>5, <2>4
    <3>7. L[k + 1][b] = Fold(step, L[k][a])
      <4>1. ~(2 * b > n1)
        BY <2>4, <2>8, <2>10
      <4>2. L[k + 1][b] = hashPair(L[k][2 * b - 1], L[k][2 * b])
        BY <4>1, <2>5, <2>8
      <4>3. CASE left
        BY <4>2, <4>3, <2>7, <2>8 DEF Fold
      <4>4. CASE ~left
        BY <4>2, <4>4, <2>7, <2>8 DEF Fold
      <4> QED BY <4>3, <4>4
    <3> QED BY <3>1, <3>2, <3>3, <3>6, <3>7, <2>3, <2>5, <2>8 DEF OnPath, L
  <2> QED BY <2>9, <2>10
<1>7. T = Nat
  <2>1. T \in SUBSET Nat
    OBVIOUS
  <2> HIDE DEF T
  <2> QED BY <1>5, <1>6, <2>1, StepByStep
<1>8. n \in Nat /\ n <= N /\ n \in T
  BY <1>1, <1>7
<1> QED BY <1>8

(* The proof of inclusion of a leaf verifies, when its digest is one.      *)
LEMMA ProofsVerify ==
    ASSUME NEW leaves, IsSequence(leaves), NEW index \in DOMAIN leaves,
           assertValidSha256Hex(leaves[index])
    PROVE  verifyProof(getProof(leaves, index))
<1> DEFINE h == Height(leaves)
           p == PathUp(leaves, index)[h]
           proof == getProof(leaves, index)
<1>1. leaves # <<>>
  BY DEF IsSequence
<1>2. h \in 0..Len(leaves) /\ Len(Levels(leaves)[h]) = 1 /\ getRoot(leaves) = Levels(leaves)[h][1]
  BY <1>1, HeightIs
<1>3. OnPath(p, leaves, leaves[index], h)
  BY <1>2, PathLeadsUp
<1>4. getRoot(leaves) \in Nodes(leaves)
  BY <1>2, NodeIntro
<1>5. /\ proof.leafHash = leaves[index] /\ proof.root = getRoot(leaves)
      /\ proof.siblings = p.siblings
  BY DEF getProof
<1> HIDE DEF h, p, proof
<1>6. p.at = 1
  BY <1>2, <1>3 DEF OnPath
<1>7. DOMAIN p.siblings = 1..Len(p.siblings)
  BY <1>3 DEF OnPath, IsSequence
<1>8. \A k \in DOMAIN p.siblings : assertValidSha256Hex(p.siblings[k].hash)
  BY <1>1, <1>3, <1>7, NodesAreDigests DEF OnPath
<1>9. proof.root = FoldUp(proof.leafHash, proof.siblings)
  BY <1>2, <1>3, <1>5, <1>6 DEF OnPath
<1>10. assertValidSha256Hex(getRoot(leaves))
  BY <1>1, <1>4, NodesAreDigests
<1> QED BY <1>5, <1>8, <1>9, <1>10 DEF verifyProof, proof
-----------------------------------------------------------------------------
(* One root, one list                                                      *)

(* From v, d steps to the left lead down to a leaf.                        *)
Spine(v, d) ==
    \E f : /\ f[d] = v /\ \E x : f[0] = hashLeaf(x)
           /\ \A k \in 1..d : \E r : f[k] = hashPair(f[k - 1], r)

LEMMA SpineOfLeaf == ASSUME NEW x PROVE Spine(hashLeaf(x), 0)
<1> DEFINE f == [k \in 0..0 |-> hashLeaf(x)]
<1>1. f[0] = hashLeaf(x)
  OBVIOUS
<1> HIDE DEF f
<1> QED BY <1>1 DEF Spine

LEMMA SpineOfPair ==
    ASSUME NEW l, NEW r, NEW d \in Nat, Spine(l, d)
    PROVE  Spine(hashPair(l, r), d + 1)
<1>1. PICK f : /\ f[d] = l /\ \E x : f[0] = hashLeaf(x)
               /\ \A k \in 1..d : \E s : f[k] = hashPair(f[k - 1], s)
  BY DEF Spine
<1> DEFINE g == [k \in 0..(d + 1) |-> IF k = d + 1 THEN hashPair(l, r) ELSE f[k]]
<1>2. g[d + 1] = hashPair(l, r) /\ \A k \in 0..d : g[k] = f[k]
  OBVIOUS
<1>3. 0 \in 0..d /\ d \in 0..d /\ (d + 1) - 1 = d /\ \A k \in 1..d : k \in 0..d /\ k - 1 \in 0..d
  OBVIOUS
<1>4. \A k \in 1..(d + 1) : k \in 1..d \/ k = d + 1
  OBVIOUS
<1> HIDE DEF g
<1>5. \A k \in 1..(d + 1) : \E s : g[k] = hashPair(g[k - 1], s)
  <2> SUFFICES ASSUME NEW k \in 1..(d + 1) PROVE \E s : g[k] = hashPair(g[k - 1], s)
    OBVIOUS
  <2>1. CASE k \in 1..d
    <3>1. g[k] = f[k] /\ g[k - 1] = f[k - 1]
      BY <2>1, <1>2, <1>3
    <3> QED BY <3>1, <2>1, <1>1
  <2>2. CASE k = d + 1
    BY <2>2, <1>1, <1>2, <1>3
  <2> QED BY <2>1, <2>2, <1>4
<1> QED BY <1>1, <1>2, <1>3, <1>5 DEF Spine

LEMMA SpineOpens ==
    ASSUME NEW v, NEW d \in Nat, Spine(v, d)
    PROVE  IF d = 0 THEN \E x : v = hashLeaf(x)
           ELSE \E l, r : v = hashPair(l, r) /\ Spine(l, d - 1)
<1>1. PICK f : /\ f[d] = v /\ \E x : f[0] = hashLeaf(x)
               /\ \A k \in 1..d : \E s : f[k] = hashPair(f[k - 1], s)
  BY DEF Spine
<1>2. CASE d = 0
  BY <1>1, <1>2
<1>3. CASE d # 0
  <2>1. d \in 1..d /\ \A k \in 1..(d - 1) : k \in 1..d
    BY <1>3
  <2>2. PICK r : v = hashPair(f[d - 1], r)
    BY <1>1, <2>1
  <2>3. Spine(f[d - 1], d - 1)
    BY <1>1, <2>1 DEF Spine
  <2> QED BY <1>3, <2>2, <2>3
<1> QED BY <1>2, <1>3

(* The way down to the left has one length.                                *)
LEMMA SpineIsUnique ==
    ASSUME NEW v, NEW d \in Nat, NEW e \in Nat, Spine(v, d), Spine(v, e)
    PROVE  d = e
<1> DEFINE T == {n \in Nat : \A u : \A m \in Nat : Spine(u, n) /\ Spine(u, m) => n = m}
<1>1. \A a, b, c, x : hashPair(a, b) = hashPair(c, x) => a = c
  BY DEF hashPair
<1>2. \A a, b, c : hashLeaf(a) # hashPair(b, c)
  BY DEF hashPair, hashLeaf
<1>3. 0 \in T
  <2> SUFFICES ASSUME NEW u, NEW m \in Nat, Spine(u, 0), Spine(u, m) PROVE 0 = m
    OBVIOUS
  <2>1. \E x : u = hashLeaf(x)
    BY SpineOpens
  <2>2. m # 0 => \E l, r : u = hashPair(l, r)
    BY SpineOpens
  <2> QED BY <2>1, <2>2, <1>2
<1>4. ASSUME NEW n \in T PROVE n + 1 \in T
  <2>1. n \in Nat /\ n + 1 \in Nat /\ n + 1 # 0 /\ (n + 1) - 1 = n
    BY <1>4
  <2> SUFFICES ASSUME NEW u, NEW m \in Nat, Spine(u, n + 1), Spine(u, m) PROVE n + 1 = m
    BY <2>1
  <2>2. PICK l, r : u = hashPair(l, r) /\ Spine(l, n)
    BY <2>1, SpineOpens
  <2>3. m # 0
    <3>1. m = 0 => \E x : u = hashLeaf(x)
      BY SpineOpens
    <3> QED BY <3>1, <2>2, <1>2
  <2>4. PICK a, b : u = hashPair(a, b) /\ Spine(a, m - 1)
    BY <2>3, SpineOpens
  <2>5. a = l /\ m - 1 \in Nat
    <3>1. a = l
      BY <2>2, <2>4, <1>1
    <3>2. m - 1 \in Nat
      BY <2>3
    <3> QED BY <3>1, <3>2
  <2>6. n = m - 1
    BY <1>4, <2>2, <2>4, <2>5
  <2> QED BY <2>1, <2>6
<1>5. T = Nat
  <2>1. T \in SUBSET Nat
    OBVIOUS
  <2> HIDE DEF T
  <2> QED BY <1>3, <1>4, <2>1, StepByStep
<1> QED BY <1>5

(* On level n of a tree every node but the last is n steps above its       *)
(* leftmost leaf, and the last at most n.                                  *)
Spines(level, n) ==
    /\ \A k \in 1..Len(level) : k # Len(level) => Spine(level[k], n)
    /\ \E d \in 0..n : Spine(level[Len(level)], d)

LEMMA LevelSpines ==
    ASSUME NEW leaves, IsSequence(leaves), leaves # <<>>, NEW n \in 0..Len(leaves)
    PROVE  Spines(Levels(leaves)[n], n)
<1> DEFINE L == Levels(leaves)
           N == Len(leaves)
           T == {k \in Nat : k <= N => Spines(L[k], k)}
<1>1. N \in Nat \ {0} /\ DOMAIN leaves = 1..N
  BY LevelShape DEF IsSequence
<1>2. /\ L[0] = LeafHashes(leaves) /\ Len(L[0]) = N
      /\ \A m \in 0..N : Len(L[m]) \in Nat \ {0}
      /\ \A m \in 0..N : m # N =>
           /\ Len(L[m + 1]) = (Len(L[m]) + 1) \div 2
           /\ \A k \in 1..Len(L[m + 1]) :
                 L[m + 1][k] = IF 2 * k > Len(L[m]) THEN L[m][2 * k - 1]
                               ELSE hashPair(L[m][2 * k - 1], L[m][2 * k])
  BY LevelShape
<1> HIDE DEF L, N
<1>3. 0 \in T
  <2>1. \A k \in 1..N : L[0][k] = hashLeaf(leaves[k])
    BY <1>1, <1>2 DEF LeafHashes
  <2>2. \A k \in 1..N : Spine(L[0][k], 0)
    BY <2>1, SpineOfLeaf
  <2>3. N \in 1..N /\ 0 \in 0..0
    BY <1>1
  <2>4. Spines(L[0], 0)
    BY <2>2, <2>3, <1>2 DEF Spines
  <2> QED BY <2>4
<1>4. ASSUME NEW k \in T PROVE k + 1 \in T
  <2>0. k \in Nat /\ k + 1 \in Nat
    BY <1>4
  <2> SUFFICES ASSUME k + 1 <= N PROVE Spines(L[k + 1], k + 1)
    BY <2>0
  <2>1. k \in 0..N /\ k # N /\ Spines(L[k], k)
    BY <2>0, <1>1, <1>4
  <2> DEFINE a == Len(L[k])
             b == Len(L[k + 1])
  <2>2. a \in Nat \ {0} /\ b = (a + 1) \div 2
    BY <2>1, <1>2
  <2>3. \A j \in 1..b : L[k + 1][j] = IF 2 * j > a THEN L[k][2 * j - 1]
                                      ELSE hashPair(L[k][2 * j - 1], L[k][2 * j])
    BY <2>1, <1>2
  <2>4. /\ \A j \in 1..a : j # a => Spine(L[k][j], k)
        /\ \E d \in 0..k : Spine(L[k][a], d)
    BY <2>1 DEF Spines
  <2> HIDE DEF a, b
  <2>5. /\ b \in 1..b
        /\ \A j \in 1..b : ~(2 * j > a) => 2 * j - 1 \in 1..a /\ 2 * j - 1 # a
        /\ \A j \in 1..b : 2 * j > a => j = b /\ 2 * j - 1 = a
    BY <2>2
  <2>6. \A j \in 1..b : ~(2 * j > a) => Spine(L[k + 1][j], k + 1)
    BY <2>0, <2>3, <2>4, <2>5, SpineOfPair
  <2>7. \A j \in 1..b : 2 * j > a => \E d \in 0..(k + 1) : Spine(L[k + 1][j], d)
    <3>1. \A d \in 0..k : d \in 0..(k + 1)
      BY <2>0
    <3> QED BY <3>1, <2>3, <2>4, <2>5
  <2>8. k + 1 \in 0..(k + 1)
    BY <2>0
  <2> QED BY <2>5, <2>6, <2>7, <2>8 DEF Spines, b
<1>5. T = Nat
  <2>1. T \in SUBSET Nat
    OBVIOUS
  <2> HIDE DEF T
  <2> QED BY <1>3, <1>4, <2>1, StepByStep
<1>6. n \in Nat /\ n <= N /\ n \in T
  BY <1>1, <1>5 DEF N
<1> QED BY <1>6 DEF L

(* The root is as many steps above the first leaf as the tree is high.     *)
LEMMA RootSpine ==
    ASSUME NEW leaves, IsSequence(leaves), leaves # <<>>
    PROVE  Spine(getRoot(leaves), Height(leaves))
<1> DEFINE L == Levels(leaves)
           h == Height(leaves)
<1>1. /\ h \in 0..Len(leaves) /\ Len(L[h]) = 1 /\ getRoot(leaves) = L[h][1] /\ Len(leaves) \in Nat
      /\ \A n \in 0..Len(leaves) : n < h => Len(L[n]) # 1
  BY HeightIs, LevelShape
<1>2. \A n \in 0..Len(leaves) : Spines(L[n], n) /\ Len(L[n]) \in Nat \ {0}
  BY LevelSpines, LevelShape
<1>3. \A m \in 0..Len(leaves) : m # Len(leaves) =>
           /\ Len(L[m + 1]) = (Len(L[m]) + 1) \div 2
           /\ \A k \in 1..Len(L[m + 1]) :
                 L[m + 1][k] = IF 2 * k > Len(L[m]) THEN L[m][2 * k - 1]
                               ELSE hashPair(L[m][2 * k - 1], L[m][2 * k])
  BY LevelShape
<1> HIDE DEF L, h
<1>4. CASE h = 0
  <2>1. PICK d \in 0..0 : Spine(L[0][1], d)
    BY <1>1, <1>2, <1>4 DEF Spines
  <2>2. d = 0
    OBVIOUS
  <2> QED BY <2>1, <2>2, <1>1, <1>4 DEF h
<1>5. CASE h # 0
  <2> DEFINE m == h - 1
             a == Len(L[m])
  <2>1. m \in Nat /\ m \in 0..Len(leaves) /\ m # Len(leaves) /\ m + 1 = h /\ m < h
    BY <1>1, <1>5
  <2> HIDE DEF m
  <2>2. a \in Nat \ {0} /\ a # 1
    BY <1>1, <1>2, <2>1
  <2>3. L[h][1] = IF 2 * 1 > a THEN L[m][2 * 1 - 1] ELSE hashPair(L[m][2 * 1 - 1], L[m][2 * 1])
    <3>1. Len(L[m + 1]) = 1 /\ L[m + 1] = L[h] /\ 1 \in 1..1
      BY <1>1, <2>1
    <3>2. \A k \in 1..Len(L[m + 1]) :
             L[m + 1][k] = IF 2 * k > Len(L[m]) THEN L[m][2 * k - 1]
                           ELSE hashPair(L[m][2 * k - 1], L[m][2 * k])
      BY <1>3, <2>1
    <3> HIDE DEF a
    <3> QED BY <3>1, <3>2 DEF a
  <2>4. 2 * 1 - 1 = 1 /\ ~(2 * 1 > a) /\ 1 \in 1..a /\ 1 # a
    <3> HIDE DEF a
    <3> QED BY <2>2
  <2>5. Spine(L[m][1], m)
    BY <1>2, <2>1, <2>4 DEF Spines
  <2> HIDE DEF a
  <2>6. L[h][1] = hashPair(L[m][1], L[m][2 * 1])
    BY <2>3, <2>4
  <2> QED BY <2>1, <2>5, <2>6, <1>1, SpineOfPair DEF h
<1> QED BY <1>4, <1>5

(* A lone last node is no pair of the level of a longer tree.              *)
LEMMA LoneIsNoPair ==
    ASSUME NEW s, NEW t, NEW n \in Nat, NEW m \in Nat, m > 0, Spines(s, n), Spines(t, n),
           Len(s) = 2 * m - 1, Len(t) = 2 * m
    PROVE  s[2 * m - 1] # hashPair(t[2 * m - 1], t[2 * m])
<1>1. PICK d \in 0..n : Spine(s[2 * m - 1], d)
  BY DEF Spines
<1>2. 2 * m - 1 \in 1..Len(t) /\ 2 * m - 1 # Len(t)
  OBVIOUS
<1>3. Spine(t[2 * m - 1], n)
  BY <1>2 DEF Spines
<1>4. Spine(hashPair(t[2 * m - 1], t[2 * m]), n + 1)
  BY <1>3, SpineOfPair
<1>5. d \in Nat /\ n + 1 \in Nat /\ d # n + 1
  OBVIOUS
<1> QED BY <1>1, <1>4, <1>5, SpineIsUnique

(* The level up is the one above a level.                                  *)
Above(up, level) ==
    /\ Len(up) = (Len(level) + 1) \div 2
    /\ \A k \in 1..Len(up) : up[k] = IF 2 * k > Len(level) THEN level[2 * k - 1]
                                     ELSE hashPair(level[2 * k - 1], level[2 * k])

SameNodes(a, b) == Len(a) = Len(b) /\ \A k \in 1..Len(a) : a[k] = b[k]

(* A level determines the one below.                                       *)
LEMMA LevelBelow ==
    ASSUME NEW a, NEW b, NEW up, NEW vp, NEW n \in Nat,
           Len(a) \in Nat \ {0}, Len(b) \in Nat \ {0}, Spines(a, n), Spines(b, n),
           Above(up, a), Above(vp, b), SameNodes(up, vp)
    PROVE  SameNodes(a, b)
<1> DEFINE x == Len(a)
           y == Len(b)
           m == Len(up)
<1>2. /\ x \in Nat \ {0} /\ y \in Nat \ {0} /\ m = (x + 1) \div 2 /\ m = (y + 1) \div 2
      /\ \A k \in 1..m : up[k] = IF 2 * k > x THEN a[2 * k - 1] ELSE hashPair(a[2 * k - 1], a[2 * k])
      /\ \A k \in 1..m : up[k] = IF 2 * k > y THEN b[2 * k - 1] ELSE hashPair(b[2 * k - 1], b[2 * k])
  BY DEF Above, SameNodes
<1>3. /\ m \in Nat /\ m > 0 /\ m \in 1..m
      /\ x = 2 * m \/ x = 2 * m - 1
      /\ y = 2 * m \/ y = 2 * m - 1
  <2> HIDE DEF x, y, m
  <2>1. x \in Nat \ {0} /\ y \in Nat \ {0} /\ m = (x + 1) \div 2 /\ m = (y + 1) \div 2
    BY <1>2
  <2> QED BY ONLY <2>1
<1> HIDE DEF x, y, m
<1>4. x = y
  <2>1. CASE x = 2 * m - 1 /\ y = 2 * m
    <3>0. Len(a) = 2 * m - 1 /\ Len(b) = 2 * m /\ m \in Nat /\ m > 0
      BY <1>3, <2>1 DEF x, y
    <3>1. a[2 * m - 1] # hashPair(b[2 * m - 1], b[2 * m])
      BY <3>0, LoneIsNoPair
    <3>2. 2 * m > x /\ ~(2 * m > y)
      BY <1>3, <2>1
    <3> QED BY <3>1, <3>2, <1>2, <1>3
  <2>2. CASE y = 2 * m - 1 /\ x = 2 * m
    <3>0. Len(b) = 2 * m - 1 /\ Len(a) = 2 * m /\ m \in Nat /\ m > 0
      BY <1>3, <2>2 DEF x, y
    <3>1. b[2 * m - 1] # hashPair(a[2 * m - 1], a[2 * m])
      BY <3>0, LoneIsNoPair
    <3>2. 2 * m > y /\ ~(2 * m > x)
      BY <1>3, <2>2
    <3> QED BY <3>1, <3>2, <1>2, <1>3
  <2> QED BY <2>1, <2>2, <1>3
<1>6. \A k \in 1..m : /\ a[2 * k - 1] = b[2 * k - 1]
                      /\ ~(2 * k > x) => a[2 * k] = b[2 * k]
  <2> SUFFICES ASSUME NEW k \in 1..m
               PROVE  a[2 * k - 1] = b[2 * k - 1] /\ (~(2 * k > x) => a[2 * k] = b[2 * k])
    OBVIOUS
  <2>1. CASE 2 * k > x
    BY <2>1, <1>2, <1>4
  <2>2. CASE ~(2 * k > x)
    <3>1. up[k] = hashPair(a[2 * k - 1], a[2 * k]) /\ up[k] = hashPair(b[2 * k - 1], b[2 * k])
      BY <2>2, <1>2, <1>4
    <3>2. hashPair(a[2 * k - 1], a[2 * k]) = hashPair(b[2 * k - 1], b[2 * k])
      BY <3>1
    <3>3. a[2 * k - 1] = b[2 * k - 1] /\ a[2 * k] = b[2 * k]
      BY ONLY <3>2 DEF hashPair
    <3> QED BY <3>3
  <2> QED BY <2>1, <2>2
<1>7. ASSUME NEW k \in 1..x PROVE a[k] = b[k]
  <2> DEFINE j == (k + 1) \div 2
  <2>1. j \in 1..m /\ (k = 2 * j - 1 \/ (k = 2 * j /\ ~(2 * j > x)))
    BY <1>2, <1>3
  <2> HIDE DEF j
  <2> QED BY <2>1, <1>6
<1> QED BY <1>4, <1>7 DEF SameNodes, x, y
(* Two lists with the same root are the same list.                         *)
LEMMA RootIsBinding ==
    ASSUME NEW s, NEW t, IsSequence(s), IsSequence(t), s # <<>>, t # <<>>, getRoot(s) = getRoot(t)
    PROVE  s = t
<1> DEFINE L == Levels(s)
           M == Levels(t)
           h == Height(s)
           Same(n) == SameNodes(L[n], M[n])
           T == {k \in Nat : k <= h => Same(h - k)}
<1>1. /\ h \in Nat /\ h <= Len(s) /\ Len(s) \in Nat /\ Len(L[h]) = 1 /\ getRoot(s) = L[h][1]
      /\ Spine(getRoot(s), h)
  BY HeightIs, LevelShape, RootSpine
<1>2. /\ Height(t) \in Nat /\ Height(t) <= Len(t) /\ Len(t) \in Nat /\ Len(M[Height(t)]) = 1
      /\ getRoot(t) = M[Height(t)][1] /\ Spine(getRoot(t), Height(t))
  BY HeightIs, LevelShape, RootSpine
<1>3. Height(t) = h
  <2> HIDE DEF h
  <2> QED BY <1>1, <1>2, SpineIsUnique
<1>4. \A n \in 0..Len(s) :
        /\ Len(L[n]) \in Nat \ {0} /\ Spines(L[n], n)
        /\ n # Len(s) => Above(L[n + 1], L[n])
  BY LevelShape, LevelSpines DEF Above
<1>5. \A n \in 0..Len(t) :
        /\ Len(M[n]) \in Nat \ {0} /\ Spines(M[n], n)
        /\ n # Len(t) => Above(M[n + 1], M[n])
  BY LevelShape, LevelSpines DEF Above
<1>6. L[0] = LeafHashes(s) /\ M[0] = LeafHashes(t) /\ Len(L[0]) = Len(s) /\ Len(M[0]) = Len(t)
  BY LevelShape
<1> HIDE DEF L, M, h
<1>7. 0 \in T
  <2>1. h - 0 = h /\ \A k \in 1..1 : k = 1
    BY <1>1
  <2>2. Same(h)
    BY <2>1, <1>1, <1>2, <1>3 DEF SameNodes
  <2> QED BY <2>1, <2>2
<1>8. ASSUME NEW k \in T PROVE k + 1 \in T
  <2>0. k \in Nat /\ k + 1 \in Nat
    BY <1>8
  <2> SUFFICES ASSUME k + 1 <= h PROVE Same(h - (k + 1))
    BY <2>0
  <2> DEFINE n == h - (k + 1)
  <2>1. /\ n \in Nat /\ n + 1 = h - k /\ n \in 0..Len(s) /\ n \in 0..Len(t) /\ n # Len(s) /\ n # Len(t)
        /\ k <= h
    BY <2>0, <1>1, <1>2, <1>3
  <2> HIDE DEF n
  <2>2. Same(n + 1)
    BY <1>8, <2>1
  <2>3. Same(n)
    BY <2>1, <2>2, <1>4, <1>5, LevelBelow
  <2> QED BY <2>3 DEF n
<1>9. T = Nat
  <2>1. T \in SUBSET Nat
    OBVIOUS
  <2> HIDE DEF T
  <2> QED BY <1>7, <1>8, <2>1, StepByStep
<1>10. Same(0)
  <2>1. h - h = 0 /\ h <= h
    BY <1>1
  <2>2. h \in T
    BY ONLY <1>1, <1>9
  <2> QED BY <2>1, <2>2
<1>11. DOMAIN s = 1..Len(s) /\ DOMAIN t = 1..Len(t)
  BY DEF IsSequence
<1>12. Len(s) = Len(t) /\ \A k \in 1..Len(s) : hashLeaf(s[k]) = hashLeaf(t[k])
  <2>1. L[0] = [k \in 1..Len(s) |-> hashLeaf(s[k])] /\ M[0] = [k \in 1..Len(t) |-> hashLeaf(t[k])]
    BY <1>6, <1>11 DEF LeafHashes
  <2>2. Len(s) = Len(t) /\ \A k \in 1..Len(s) : L[0][k] = M[0][k]
    BY <1>6, <1>10 DEF SameNodes
  <2> QED BY <2>1, <2>2
<1>13. \A k \in 1..Len(s) : s[k] = t[k]
  BY <1>12 DEF hashLeaf
<1> QED BY <1>12, <1>13, SameSequence

-----------------------------------------------------------------------------
(* Packages                                                                *)

LEMMA HashesAre ==
    ASSUME NEW r, IsSequence(r)
    PROVE  /\ IsSequence(attestationHashes(r)) /\ Len(attestationHashes(r)) = Len(r)
           /\ DOMAIN attestationHashes(r) = DOMAIN r
           /\ \A k \in DOMAIN r : attestationHashes(r)[k] = hashAttestation(r[k])
<1> DEFINE g == [k \in DOMAIN r |-> hashAttestation(r[k])]
<1>1. DOMAIN r = 1..Len(r) /\ Len(r) \in Nat
  BY DEF IsSequence
<1>2. [k \in 1..Len(r) |-> g[k]] = g /\ \A k \in DOMAIN r : g[k] = hashAttestation(r[k])
  BY <1>1
<1> HIDE DEF g
<1>3. IsSequence(g) /\ Len(g) = Len(r)
  BY <1>1, <1>2, TabledSequence
<1>4. DOMAIN g = DOMAIN r
  BY <1>1, <1>3 DEF IsSequence
<1> QED BY <1>2, <1>3, <1>4 DEF attestationHashes, g

(* A package that verifies against the root of a list is of one of its     *)
(* attestations.                                                           *)
LEMMA PackageIsMember ==
    ASSUME NEW r, IsSequence(r), NEW pkg, Len(pkg.inclusionProof.siblings) \in Nat,
           verifyAttestationProof(pkg), pkg.merkleRoot = getRoot(attestationHashes(r))
    PROVE  \E j \in DOMAIN r : pkg.attestation = r[j]
<1> DEFINE hashes == attestationHashes(r)
           proof == pkg.inclusionProof
<1>1. /\ hashAttestation(pkg.attestation) = proof.leafHash /\ proof.root = getRoot(hashes)
      /\ assertValidSha256Hex(proof.root)
      /\ proof.root = FoldUp(proof.leafHash, proof.siblings)
  BY DEF verifyAttestationProof, verifyProof
<1>2. IsSequence(hashes) /\ DOMAIN hashes = DOMAIN r
      /\ \A k \in DOMAIN r : hashes[k] = hashAttestation(r[k])
  BY HashesAre
<1> HIDE DEF hashes
<1>3. hashes # <<>>
  BY <1>1 DEF assertValidSha256Hex, getRoot
<1>4. getRoot(hashes) \in Nodes(hashes)
  <2>1. /\ Height(hashes) \in 0..Len(hashes) /\ Len(Levels(hashes)[Height(hashes)]) = 1
        /\ getRoot(hashes) = Levels(hashes)[Height(hashes)][1]
    BY <1>2, <1>3, HeightIs
  <2> QED BY <2>1, NodeIntro
<1>5. PICK j \in DOMAIN hashes : proof.leafHash = hashes[j]
  <2>1. FoldUp(proof.leafHash, proof.siblings) \in Nodes(hashes)
    BY <1>1, <1>4
  <2> QED BY <2>1, <1>2, <1>3, WayStartsAtLeaf
<1>6. hashAttestation(pkg.attestation) = hashAttestation(r[j])
  BY <1>1, <1>2, <1>5
<1> QED BY <1>2, <1>5, <1>6 DEF hashAttestation

(* What GET /attestation/:id answers.                                      *)
LEMMA ProofOfAttestationIs ==
    ASSUME NEW r, IsSequence(r), NEW id
    PROVE  LET answer == proofOfAttestation(r, id)
               ids == {a.id : a \in Range(r)}
           IN  /\ answer.ok <=> id \in ids
               /\ answer.ok => /\ verifyAttestationProof(answer.package)
                               /\ answer.package.attestation.id = id
                               /\ answer.package.merkleRoot = getRoot(attestationHashes(r))
                               /\ attestationHashes(r) # <<>>
<1> DEFINE answer == proofOfAttestation(r, id)
           found == {k \in DOMAIN r : r[k].id = id}
           hashes == attestationHashes(r)
           i == Min(found)
<1>1. DOMAIN r = 1..Len(r) /\ Len(r) \in Nat
  BY DEF IsSequence
<1>2. id \in {a.id : a \in Range(r)} <=> found # {}
  BY DEF Range
<1>3. CASE found = {}
  <2>1. answer = [ok |-> FALSE, reason |-> "not-found"]
    BY <1>3 DEF proofOfAttestation
  <2> QED BY <2>1, <1>2, <1>3
<1>4. CASE found # {}
  <2>1. i \in found
    <3>1. PICK k : k \in found /\ found \in SUBSET Nat
      BY <1>1, <1>4
    <3> HIDE DEF found
    <3>2. PICK m \in found : \A y \in found : m <= y
      BY <3>1, LeastNatural
    <3> QED BY <3>2 DEF Min
  <2>2. answer = packageAttestationProofResult(r[i], hashes, hashes, i)
    BY <1>4 DEF proofOfAttestation
  <2>3. /\ IsSequence(hashes) /\ DOMAIN hashes = DOMAIN r
        /\ \A k \in DOMAIN r : hashes[k] = hashAttestation(r[k])
    BY HashesAre
  <2>4. i \in DOMAIN r /\ r[i].id = id
    BY <2>1
  <2> HIDE DEF hashes, i, found, answer
  <2>5. hashes # <<>> /\ i \in DOMAIN hashes /\ hashes[i] = hashAttestation(r[i])
    BY <2>3, <2>4
  <2> DEFINE pkg == Package(r[i], getRoot(hashes), getProof(hashes, i))
  <2>6. answer = [ok |-> TRUE, package |-> pkg]
    BY <2>2, <2>5 DEF packageAttestationProofResult
  <2>7. /\ pkg.attestation = r[i] /\ pkg.attestationHash = hashAttestation(r[i])
        /\ pkg.merkleRoot = getRoot(hashes) /\ pkg.inclusionProof = getProof(hashes, i)
        /\ pkg.packageHash = computePackageHash(r[i], hashAttestation(r[i]), getRoot(hashes),
                                                getProof(hashes, i))
    BY DEF Package
  <2>8. verifyProof(getProof(hashes, i))
    <3>1. assertValidSha256Hex(hashes[i])
      BY <2>5 DEF assertValidSha256Hex, hashAttestation, Malformed, Null
    <3> QED BY <3>1, <2>3, <2>5, ProofsVerify
  <2>9. getProof(hashes, i).leafHash = hashes[i] /\ getProof(hashes, i).root = getRoot(hashes)
    BY DEF getProof
  <2> HIDE DEF pkg
  <2>10. verifyAttestationProof(pkg)
    BY <2>5, <2>7, <2>8, <2>9 DEF verifyAttestationProof
  <2> QED BY <2>4, <2>5, <2>6, <2>7, <2>10, <1>2, <1>4 DEF answer, hashes
<1> QED BY <1>3, <1>4

(* Lists of attestations are bound by their root.                          *)
LEMMA RecordsAreBound ==
    ASSUME NEW r, NEW q, IsSequence(r), IsSequence(q), r # <<>>, attestationHashes(q) # <<>>,
           getRoot(attestationHashes(r)) = getRoot(attestationHashes(q))
    PROVE  r = q
<1> DEFINE a == attestationHashes(r)
           b == attestationHashes(q)
<1>1. /\ IsSequence(a) /\ Len(a) = Len(r) /\ DOMAIN a = DOMAIN r
      /\ \A k \in DOMAIN r : a[k] = hashAttestation(r[k])
  BY HashesAre
<1>2. /\ IsSequence(b) /\ Len(b) = Len(q) /\ DOMAIN b = DOMAIN q
      /\ \A k \in DOMAIN q : b[k] = hashAttestation(q[k])
  BY HashesAre
<1> HIDE DEF a, b
<1>3. a # <<>>
  <2>1. Len(r) # 0
    <3>1. Len(r) = Len(<<>>) => r = <<>>
      <4>1. Len(<<>>) = 0 /\ IsSequence(<<>>) /\ \A k \in 1..0 : FALSE
        BY EmptyIsSequence
      <4> QED BY <4>1, SameSequence
    <3> QED BY <3>1, EmptyIsSequence
  <2> QED BY <2>1, <1>1, EmptyIsSequence
<1>4. a = b
  BY <1>1, <1>2, <1>3, RootIsBinding DEF a, b
<1>5. DOMAIN r = 1..Len(r) /\ DOMAIN q = 1..Len(q)
  BY DEF IsSequence
<1>6. Len(r) = Len(q) /\ \A k \in 1..Len(r) : hashAttestation(r[k]) = hashAttestation(q[k])
  BY <1>1, <1>2, <1>4, <1>5
<1>7. \A k \in 1..Len(r) : r[k] = q[k]
  BY <1>6 DEF hashAttestation
<1> QED BY <1>6, <1>7, SameSequence

LEMMA DeskProves == DeskInv => ProofSound
<1> SUFFICES ASSUME DeskInv PROVE ProofSound
  OBVIOUS
<1> DEFINE g == task.given
<1>1. ASSUME task.op = "prove"
      PROVE  /\ verdict.ok <=> g.id \in {a.id : a \in Range(g.records)}
             /\ verdict.ok => /\ verifyAttestationProof(verdict.package)
                              /\ verdict.package.attestation.id = g.id
             /\ verdict.ok => \A r \in Records \ {<<>>} :
                  getRoot(attestationHashes(r)) = verdict.package.merkleRoot => r = g.records
  <2>1. g.records \in Records /\ verdict = proofOfAttestation(g.records, g.id)
    BY <1>1 DEF DeskInv
  <2>2. \A r \in Records : IsSequence(r)
    BY RecordsAssumption, SequenceIntro
  <2> HIDE DEF g
  <2>3. /\ verdict.ok <=> g.id \in {a.id : a \in Range(g.records)}
        /\ verdict.ok => /\ verifyAttestationProof(verdict.package)
                         /\ verdict.package.attestation.id = g.id
                         /\ verdict.package.merkleRoot = getRoot(attestationHashes(g.records))
                         /\ attestationHashes(g.records) # <<>>
    BY <2>1, <2>2, ProofOfAttestationIs
  <2>4. ASSUME verdict.ok, NEW r \in Records \ {<<>>},
               getRoot(attestationHashes(r)) = verdict.package.merkleRoot
        PROVE  r = g.records
    <3>1. IsSequence(r) /\ r # <<>> /\ IsSequence(g.records)
      BY <2>1, <2>2, <2>4
    <3>2. /\ attestationHashes(g.records) # <<>>
          /\ getRoot(attestationHashes(r)) = getRoot(attestationHashes(g.records))
      BY <2>3, <2>4
    <3> QED BY <3>1, <3>2, RecordsAreBound
  <2> QED BY <2>3, <2>4
<1>2. ASSUME task.op = "package", verdict, g.pkg.merkleRoot = getRoot(attestationHashes(g.records))
      PROVE  g.pkg.attestation \in Range(g.records)
  <2>1. g \in Packages /\ verifyAttestationProof(g.pkg)
    BY <1>2 DEF DeskInv
  <2> HIDE DEF g
  <2>2. IsSequence(g.records)
    BY <2>1, PackagesAssumption, RecordsAssumption, SequenceIntro
  <2>3. Len(g.pkg.inclusionProof.siblings) \in Nat
    BY <2>1, PackagesAssumption
  <2>4. PICK j \in DOMAIN g.records : g.pkg.attestation = g.records[j]
    BY <1>2, <2>1, <2>2, <2>3, PackageIsMember
  <2> QED BY <2>4 DEF Range
<1> QED BY <1>1, <1>2 DEF ProofSound, ProofIsSound, RootBindsLeaves

(* For lists of attestations of any length: every attestation recorded has *)
(* a package that verifies; a package that verifies against the root of a  *)
(* list, whatever its parts were taken from, carries an attestation of     *)
(* that list; and one root stands for one list, though a lone node is      *)
(* promoted and lists may repeat their last leaf.                          *)
THEOREM InclusionCorrect == ReadersSpec => []ProofSound
<1>1. ReadersInit => DeskInv
  BY DeskInitial DEF ReadersInit
<1>2. DeskInv /\ [ReadersNext]_readerVars => DeskInv'
  <2>1. [ReadersNext]_readerVars => [DeskNext]_deskVars
    BY DEF ReadersNext, readerVars, Desk, Board, Observers, Memory, Pages
  <2> QED BY <2>1, DeskKept
<1>3. DeskInv => ProofSound
  BY DeskProves
<1> QED BY <1>1, <1>2, <1>3, PTL DEF ReadersSpec

-----------------------------------------------------------------------------
(* Walks over pages                                                        *)

(* x is greater than y from its n-th character on.                         *)
GreaterAt(x, y, n) ==
    /\ n \in 1..Len(x) /\ n <= Len(y) + 1
    /\ \A m \in 1..(n - 1) : x[m] = y[m]
    /\ n <= Len(y) => x[n] > y[n]

(* What > on strings compares.                                             *)
LEMMA GreaterIs ==
    ASSUME NEW x \in Seq(Int), NEW y \in Seq(Int)
    PROVE  Greater(x, y) <=> \E n \in Nat : GreaterAt(x, y, n)
<1>0. Len(x) \in Nat /\ Len(y) \in Nat /\ DOMAIN x = 1..Len(x) /\ DOMAIN y = 1..Len(y)
  OBVIOUS
<1>1. ASSUME NEW n \in Nat, n <= Len(x), n <= Len(y)
      PROVE  SubSeq(x, 1, n) = SubSeq(y, 1, n) <=> \A m \in 1..n : x[m] = y[m]
  <2>1. n \in 0..Len(x) /\ n \in 0..Len(y) /\ IsSequence(x) /\ IsSequence(y)
    BY <1>0, <1>1, SequenceIntro
  <2>2. /\ IsSequence(SubSeq(x, 1, n)) /\ Len(SubSeq(x, 1, n)) = n
        /\ \A m \in 1..n : SubSeq(x, 1, n)[m] = x[m]
    BY <2>1, PrefixElements
  <2>3. /\ IsSequence(SubSeq(y, 1, n)) /\ Len(SubSeq(y, 1, n)) = n
        /\ \A m \in 1..n : SubSeq(y, 1, n)[m] = y[m]
    BY <2>1, PrefixElements
  <2> DEFINE p == SubSeq(x, 1, n)
             q == SubSeq(y, 1, n)
  <2> HIDE DEF p, q
  <2>4. ASSUME \A m \in 1..n : x[m] = y[m] PROVE p = q
    <3>1. \A m \in 1..Len(p) : p[m] = q[m]
      BY <2>2, <2>3, <2>4 DEF p, q
    <3> QED BY <3>1, <2>2, <2>3, SameSequence DEF p, q
  <2>5. ASSUME p = q, NEW m \in 1..n PROVE x[m] = y[m]
    BY <2>5, <2>2, <2>3 DEF p, q
  <2> QED BY <2>4, <2>5 DEF p, q
<1>2. IsStrictPrefix(y, x) <=> Len(y) < Len(x) /\ \A m \in 1..Len(y) : x[m] = y[m]
  <2>1. IsStrictPrefix(y, x) <=> Len(y) <= Len(x) /\ SubSeq(y, 1, Len(y)) = SubSeq(x, 1, Len(y)) /\ y # x
    BY DEF IsStrictPrefix, IsPrefix
  <2>2. Len(y) <= Len(x) => (SubSeq(x, 1, Len(y)) = SubSeq(y, 1, Len(y)) <=> \A m \in 1..Len(y) : x[m] = y[m])
    BY <1>0, <1>1
  <2>3. Len(y) = Len(x) /\ (\A m \in 1..Len(y) : x[m] = y[m]) => x = y
    BY <1>0, SequenceIntro, SameSequence
  <2> DEFINE same == \A m \in 1..Len(y) : x[m] = y[m]
  <2>4. Len(y) <= Len(x) /\ same /\ y # x => Len(y) < Len(x)
    <3>1. Len(y) = Len(x) /\ same => x = y
      BY <2>3
    <3>2. Len(y) <= Len(x) => Len(y) < Len(x) \/ Len(y) = Len(x)
      <4>1. \A a, b \in Nat : a <= b => a < b \/ a = b
        OBVIOUS
      <4> QED BY <4>1, <1>0
    <3> HIDE DEF same
    <3> QED BY <3>1, <3>2, Zenon
  <2>5. Len(y) < Len(x) => Len(y) <= Len(x) /\ y # x
    BY <1>0
  <2> HIDE DEF same
  <2>6. Len(y) <= Len(x) => (SubSeq(x, 1, Len(y)) = SubSeq(y, 1, Len(y)) <=> same)
    BY <2>2 DEF same
  <2>7. IsStrictPrefix(y, x) <=> Len(y) < Len(x) /\ same
    BY <2>1, <2>4, <2>5, <2>6
  <2> QED BY <2>7 DEF same
<1>3. ASSUME NEW n \in 1..Len(x), n <= Len(y)
      PROVE  SubSeq(x, 1, n - 1) = SubSeq(y, 1, n - 1) <=> \A m \in 1..(n - 1) : x[m] = y[m]
  <2>1. n - 1 \in Nat /\ n - 1 <= Len(x) /\ n - 1 <= Len(y)
    BY <1>0, <1>3
  <2> QED BY <2>1, <1>1
<1>4. ASSUME Greater(x, y) PROVE \E n \in Nat : GreaterAt(x, y, n)
  <2>1. CASE IsStrictPrefix(y, x)
    <3>1. GreaterAt(x, y, Len(y) + 1) /\ Len(y) + 1 \in Nat
      BY <2>1, <1>0, <1>2 DEF GreaterAt
    <3> QED BY <3>1
  <2>2. CASE ~IsStrictPrefix(y, x)
    <3>1. PICK n \in DOMAIN x \cap DOMAIN y : x[n] > y[n] /\ SubSeq(x, 1, n - 1) = SubSeq(y, 1, n - 1)
      BY <2>2, <1>4 DEF Greater
    <3>2. GreaterAt(x, y, n) /\ n \in Nat
      BY <3>1, <1>0, <1>3 DEF GreaterAt
    <3> QED BY <3>2
  <2> QED BY <2>1, <2>2
<1>5. ASSUME NEW n \in Nat, GreaterAt(x, y, n) PROVE Greater(x, y)
  <2>1. CASE n <= Len(y)
    <3>1. n \in DOMAIN x \cap DOMAIN y /\ x[n] > y[n] /\ \A m \in 1..(n - 1) : x[m] = y[m]
      BY <2>1, <1>0, <1>5 DEF GreaterAt
    <3>2. SubSeq(x, 1, n - 1) = SubSeq(y, 1, n - 1)
      BY <2>1, <3>1, <1>3, <1>0
    <3> QED BY <3>1, <3>2 DEF Greater
  <2>2. CASE ~(n <= Len(y))
    <3>1. n = Len(y) + 1 /\ n - 1 = Len(y)
      BY <2>2, <1>0, <1>5 DEF GreaterAt
    <3>2. IsStrictPrefix(y, x)
      BY <3>1, <1>0, <1>2, <1>5 DEF GreaterAt
    <3> QED BY <3>2 DEF Greater
  <2> QED BY <2>1, <2>2
<1> QED BY <1>4, <1>5

(* No string is greater than itself.                                       *)
LEMMA GreaterNotSelf == ASSUME NEW x \in Seq(Int) PROVE ~Greater(x, x)
<1> SUFFICES ASSUME NEW n \in Nat, GreaterAt(x, x, n) PROVE FALSE
  BY GreaterIs
<1>1. Len(x) \in Nat /\ n \in 1..Len(x) /\ x[n] \in Int
  BY DEF GreaterAt
<1> QED BY <1>1 DEF GreaterAt

(* The order of strings is transitive.                                     *)
LEMMA GreaterAgain ==
    ASSUME NEW x \in Seq(Int), NEW y \in Seq(Int), NEW z \in Seq(Int), Greater(x, y), Greater(y, z)
    PROVE  Greater(x, z)
<1>1. PICK a \in Nat : GreaterAt(x, y, a)
  BY GreaterIs
<1>2. PICK b \in Nat : GreaterAt(y, z, b)
  BY GreaterIs
<1>3. Len(x) \in Nat /\ Len(y) \in Nat /\ Len(z) \in Nat
  OBVIOUS
<1>4. /\ \A i \in 1..Len(x) : x[i] \in Int
      /\ \A i \in 1..Len(y) : y[i] \in Int
      /\ \A i \in 1..Len(z) : z[i] \in Int
  OBVIOUS
<1>5. CASE a <= b
  <2>1. \A m \in 1..(a - 1) : x[m] = z[m]
    BY <1>1, <1>2, <1>3, <1>5 DEF GreaterAt
  <2>2. a <= Len(z) + 1 /\ a \in 1..Len(x) /\ a <= Len(y)
    BY <1>1, <1>2, <1>3, <1>5 DEF GreaterAt
  <2>3. a <= Len(z) => x[a] > z[a]
    <3> SUFFICES ASSUME a <= Len(z) PROVE x[a] > z[a]
      OBVIOUS
    <3>1. x[a] > y[a]
      BY <2>2, <1>1 DEF GreaterAt
    <3>2. y[a] = z[a] \/ y[a] > z[a]
      BY <2>2, <1>2, <1>3, <1>5 DEF GreaterAt
    <3>3. x[a] \in Int /\ y[a] \in Int /\ z[a] \in Int
      BY <2>2, <1>3, <1>4
    <3> QED BY <3>1, <3>2, <3>3
  <2>4. GreaterAt(x, z, a)
    BY <2>1, <2>2, <2>3 DEF GreaterAt
  <2> QED BY <2>4, GreaterIs
<1>6. CASE a > b
  <2>1. \A m \in 1..(b - 1) : x[m] = z[m]
    BY <1>1, <1>2, <1>3, <1>6 DEF GreaterAt
  <2>2. b <= Len(z) + 1 /\ b \in 1..Len(x) /\ x[b] = y[b]
    BY <1>1, <1>2, <1>3, <1>6 DEF GreaterAt
  <2>3. b <= Len(z) => x[b] > z[b]
    BY <2>2, <1>2 DEF GreaterAt
  <2>4. GreaterAt(x, z, b)
    BY <2>1, <2>2, <2>3 DEF GreaterAt
  <2> QED BY <2>4, GreaterIs
<1> QED BY <1>5, <1>6

(* Sorting by numbers drops nothing and invents nothing.                   *)
LEMMA SortedKeeps ==
    ASSUME NEW S, NEW s \in Seq(S), NEW key \in [DOMAIN s -> Int]
    PROVE  SortedBy(s, key) \in Seq(S) /\ ToSet(SortedBy(s, key)) = ToSet(s)
<1> DEFINE D == 1..Len(s)
           U(k) == {j \in D : key[j] < key[k] \/ (key[j] = key[k] /\ j <= k)}
           place == [k \in D |-> Cardinality(U(k))]
           t == SortedBy(s, key)
<1>0. Len(s) \in Nat /\ DOMAIN s = D /\ \A i \in D : s[i] \in S
  OBVIOUS
<1>1. IsFiniteSet(D) /\ Cardinality(D) = Len(s)
  <2>1. /\ IsFiniteSet(1..Len(s))
        /\ Cardinality(1..Len(s)) = IF 1 > Len(s) THEN 0 ELSE Len(s) - 1 + 1
    BY <1>0, FS_Interval
  <2> QED BY <2>1, <1>0
<1>2. \A k \in D : key[k] \in Int /\ k \in Int
  BY <1>0
<1>t. t = [n \in D |-> s[CHOOSE k \in D : Cardinality(U(k)) = n]]
  BY <1>0 DEF SortedBy
<1>3. \A k \in D : IsFiniteSet(U(k)) /\ Cardinality(U(k)) \in 1..Len(s)
  <2> SUFFICES ASSUME NEW k \in D PROVE IsFiniteSet(U(k)) /\ Cardinality(U(k)) \in 1..Len(s)
    OBVIOUS
  <2>1. U(k) \in SUBSET D /\ k \in U(k)
    BY <1>2
  <2>2. IsFiniteSet(U(k)) /\ Cardinality(U(k)) <= Len(s) /\ Cardinality(U(k)) \in Nat
    BY <2>1, <1>1, FS_Subset, FS_CardinalityType
  <2>3. Cardinality(U(k)) # 0
    BY <2>1, <2>2, FS_EmptySet
  <2> QED BY <2>2, <2>3, <1>0
<1>4. ASSUME NEW j \in D, NEW k \in D, j # k, Cardinality(U(j)) = Cardinality(U(k)) PROVE FALSE
  <2>1. \/ U(j) \subseteq U(k) /\ k \notin U(j)
        \/ U(k) \subseteq U(j) /\ j \notin U(k)
    <3>1. CASE key[j] < key[k] \/ (key[j] = key[k] /\ j < k)
      BY <3>1, <1>2
    <3>2. CASE key[k] < key[j] \/ (key[j] = key[k] /\ k < j)
      BY <3>2, <1>2
    <3> QED BY <3>1, <3>2, <1>2, <1>4
  <2>2. j \in U(j) /\ k \in U(k)
    BY <1>2
  <2>3. IsFiniteSet(U(j)) /\ IsFiniteSet(U(k))
    BY <1>3
  <2> HIDE DEF U
  <2>4. U(j) = U(k)
    BY <2>1, <2>3, <1>4, FS_Subset
  <2> QED BY <2>1, <2>2, <2>4
<1> HIDE DEF U
<1>5. place \in Injection(D, 1..Len(s))
  <2>1. place \in [D -> 1..Len(s)]
    BY <1>3
  <2>2. \A j, k \in D : place[j] = place[k] => j = k
    BY <1>4
  <2> QED BY <2>1, <2>2 DEF Injection, IsInjective
<1>6. place \in Surjection(D, 1..Len(s))
  BY <1>5, <1>1, FS_Injection
<1>7. \A n \in D : \E k \in D : Cardinality(U(k)) = n
  BY <1>6 DEF Surjection
<1> HIDE DEF D, t
<1>8. ASSUME NEW n \in D PROVE \E k \in D : Cardinality(U(k)) = n /\ t[n] = s[k]
  <2>1. t[n] = s[CHOOSE k \in D : Cardinality(U(k)) = n]
    BY <1>t
  <2> QED BY <2>1, <1>7
<1>9. t \in Seq(S) /\ DOMAIN t = D
  <2>1. t \in [D -> S]
    BY <1>t, <1>8, <1>0
  <2> QED BY <2>1, <1>0 DEF D
<1>10. ASSUME NEW k \in D PROVE \E n \in D : t[n] = s[k]
  <2> DEFINE n == Cardinality(U(k))
  <2>1. n \in D
    BY <1>3 DEF D
  <2>2. PICK i \in D : Cardinality(U(i)) = n /\ t[n] = s[i]
    BY <2>1, <1>8
  <2>3. i = k
    BY <2>2, <1>4
  <2> QED BY <2>1, <2>2, <2>3
<1>11. ToSet(t) = ToSet(s)
  BY <1>0, <1>8, <1>9, <1>10 DEF ToSet
<1> QED BY <1>9, <1>11 DEF t

ItemType == [id : Int, field : Seq(Int)]

(* The item is beyond the cursor.                                          *)
Beyond(x, c) == c = NoCursor \/ Greater(x.field, c)

InOrder(s) == \A j, k \in DOMAIN s : j < k => Greater(s[k].field, s[j].field)

(* A list in order has no item twice and is in order wherever it is        *)
(* filtered.                                                               *)
LEMMA FilteredInOrder ==
    ASSUME NEW s \in Seq(ItemType), InOrder(s), NEW c
    PROVE  LET f == AfterCursor(s, c)
           IN  /\ f \in Seq(ItemType) /\ InOrder(f)
               /\ ToSet(f) = {x \in ToSet(s) : Beyond(x, c)}
<1>1. CASE c = NoCursor
  <2>1. AfterCursor(s, c) = s /\ \A x \in ToSet(s) : Beyond(x, c)
    BY <1>1 DEF AfterCursor, Beyond
  <2> QED BY <2>1
<1>2. CASE c # NoCursor
  <2> DEFINE T == {x \in ToSet(s) : Greater(x.field, c)}
             f == Select(s, T)
  <2>1. AfterCursor(s, c) = f
    BY <1>2 DEF AfterCursor
  <2>2. T = {x \in ToSet(s) : Beyond(x, c)}
    BY <1>2 DEF Beyond
  <2> HIDE DEF T
  <2>3. f \in Seq(ItemType) /\ \E at : PlacedAt(at, f, s, Len(s), T)
    BY SelectPlaces
  <2>4. ToSet(f) = {e \in ToSet(s) : e \in T}
    BY SequenceIntro, SelectedFrom
  <2>5. T \subseteq ToSet(s)
    BY DEF T
  <2> HIDE DEF f
  <2>6. PICK at : PlacedAt(at, f, s, Len(s), T)
    BY <2>3
  <2>7. DOMAIN f = 1..Len(f) /\ Len(f) \in Nat /\ DOMAIN s = 1..Len(s) /\ Len(s) \in Nat
    BY <2>3
  <2>8. InOrder(f)
    <3> SUFFICES ASSUME NEW j \in 1..Len(f), NEW k \in 1..Len(f), j < k
                 PROVE  Greater(f[k].field, f[j].field)
      BY <2>7 DEF InOrder
    <3>1. at[j] \in DOMAIN s /\ at[k] \in DOMAIN s /\ at[j] < at[k] /\ f[j] = s[at[j]] /\ f[k] = s[at[k]]
      BY <2>6, <2>7 DEF PlacedAt
    <3> QED BY <3>1 DEF InOrder
  <2> QED BY <2>1, <2>2, <2>3, <2>4, <2>5, <2>8
<1> QED BY <1>1, <1>2

(* What a page p after the cursor c of a list in order has: items beyond   *)
(* the cursor, each once, and all those that the next cursor leaves behind. *)
PageOf(p, s, c) ==
    /\ p.data \in Seq(ItemType) /\ p.hasMore \in BOOLEAN
    /\ \A j, k \in DOMAIN p.data : p.data[j] = p.data[k] => j = k
    /\ \A x \in ToSet(p.data) : x \in ToSet(s) /\ Beyond(x, c)
    /\ \A x \in ToSet(s) : Beyond(x, c) =>
          x \in ToSet(p.data) \/ (p.hasMore /\ Greater(x.field, p.cursor))
    /\ p.hasMore => /\ p.cursor \in Seq(Int)
                    /\ c \in Seq(Int) => Greater(p.cursor, c)
                    /\ \A x \in ToSet(p.data) : ~Greater(x.field, p.cursor)
    /\ ~p.hasMore => p.cursor = NoCursor

LEMMA PageIs ==
    ASSUME NEW s \in Seq(ItemType), InOrder(s), NEW c, c = NoCursor \/ c \in Seq(Int), NEW lim \in Nat \ {0}
    PROVE  PageOf(paginate(s, c, lim), s, c)
<1> DEFINE f == AfterCursor(s, c)
           p == paginate(s, c, lim)
<1>1. f \in Seq(ItemType) /\ InOrder(f) /\ ToSet(f) = {x \in ToSet(s) : Beyond(x, c)}
  BY FilteredInOrder
<1>2. p = [data |-> IF Len(f) > lim THEN SubSeq(f, 1, lim) ELSE f, hasMore |-> Len(f) > lim,
           cursor |-> IF Len(f) > lim THEN (IF Len(f) > lim THEN SubSeq(f, 1, lim) ELSE f)[lim].field
                      ELSE NoCursor]
  BY DEF paginate
<1> SUFFICES PageOf(p, s, c)
  OBVIOUS
<1> HIDE DEF f, p
<1>3. Len(f) \in Nat /\ DOMAIN f = 1..Len(f) /\ \A k \in 1..Len(f) : f[k] \in ItemType
  BY <1>1
<1>4. ASSUME NEW j \in 1..Len(f), NEW k \in 1..Len(f), j < k
      PROVE  /\ Greater(f[k].field, f[j].field) /\ ~Greater(f[j].field, f[k].field)
             /\ f[j].field \in Seq(Int) /\ f[k].field \in Seq(Int) /\ f[j] # f[k]
  <2>1. Greater(f[k].field, f[j].field)
    BY <1>1, <1>3, <1>4 DEF InOrder
  <2>2. f[j].field \in Seq(Int) /\ f[k].field \in Seq(Int)
    BY <1>3 DEF ItemType
  <2>3. ~Greater(f[j].field, f[j].field)
    BY <2>2, GreaterNotSelf
  <2>4. ~Greater(f[j].field, f[k].field)
    BY <2>1, <2>2, <2>3, GreaterAgain
  <2> QED BY <2>1, <2>2, <2>3, <2>4
<1>5. CASE ~(Len(f) > lim)
  <2>1. p.data = f /\ p.hasMore = FALSE /\ p.cursor = NoCursor
    <3>1. (Len(f) > lim) = FALSE
      BY <1>5
    <3> QED BY <1>2, <3>1
  <2>2. \A j, k \in DOMAIN f : f[j] = f[k] => j = k
    <3> SUFFICES ASSUME NEW j \in 1..Len(f), NEW k \in 1..Len(f), j # k PROVE f[j] # f[k]
      BY <1>3
    <3>1. CASE j < k
      BY <3>1, <1>4
    <3>2. CASE k < j
      BY <3>2, <1>4
    <3> QED BY <3>1, <3>2
  <2>3. /\ \A x \in ToSet(f) : x \in ToSet(s) /\ Beyond(x, c)
        /\ \A x \in ToSet(s) : Beyond(x, c) => x \in ToSet(f)
    BY <1>1
  <2> QED BY <1>1, <2>1, <2>2, <2>3 DEF PageOf
<1>6. CASE Len(f) > lim
  <2> DEFINE d == SubSeq(f, 1, lim)
             next == f[lim].field
  <2>0. lim \in 1..Len(f) /\ lim \in Nat
    BY <1>3, <1>6
  <2>1. d \in Seq(ItemType) /\ Len(d) = lim /\ \A k \in 1..lim : d[k] = f[k]
    BY <1>1, <1>3, <2>0
  <2>2. DOMAIN d = 1..lim
    BY <2>1
  <2> HIDE DEF d
  <2>3. p.data = d /\ p.hasMore = TRUE /\ p.cursor = next
    <3>1. d[lim] = f[lim]
      BY <2>0, <2>1
    <3> QED BY <1>2, <1>6, <3>1 DEF d
  <2>4. \A j, k \in DOMAIN d : d[j] = d[k] => j = k
    <3> SUFFICES ASSUME NEW j \in 1..lim, NEW k \in 1..lim, j # k PROVE d[j] # d[k]
      BY <2>2
    <3>0. j \in 1..Len(f) /\ k \in 1..Len(f) /\ d[j] = f[j] /\ d[k] = f[k]
      BY <2>0, <2>1, <1>3
    <3>1. CASE j < k
      BY <3>0, <3>1, <1>4
    <3>2. CASE k < j
      BY <3>0, <3>2, <1>4
    <3> QED BY <3>1, <3>2
  <2>5. \A x \in ToSet(d) : \E k \in 1..lim : x = f[k]
    BY <2>1, <2>2 DEF ToSet
  <2>6. \A k \in 1..Len(f) : f[k] \in ToSet(f)
    BY <1>3 DEF ToSet
  <2>7. \A x \in ToSet(d) : x \in ToSet(s) /\ Beyond(x, c)
    BY <2>0, <2>5, <2>6, <1>1, <1>3
  <2>8. ASSUME NEW x \in ToSet(s), Beyond(x, c) PROVE x \in ToSet(d) \/ Greater(x.field, next)
    <3>1. x \in ToSet(f)
      BY <2>8, <1>1
    <3>2. PICK k \in 1..Len(f) : x = f[k]
      BY <3>1, <1>3 DEF ToSet
    <3>3. CASE k <= lim
      <4>1. k \in DOMAIN d /\ d[k] = x
        BY <3>2, <3>3, <2>0, <2>1, <2>2, <1>3
      <4> QED BY <4>1 DEF ToSet
    <3>4. CASE lim < k
      BY <3>2, <3>4, <2>0, <1>4
    <3>5. k <= lim \/ lim < k
      BY <2>0, <1>3
    <3> QED BY <3>3, <3>4, <3>5
  <2>9. next \in Seq(Int)
    BY <2>0, <1>3 DEF ItemType
  <2>10. c \in Seq(Int) => Greater(next, c)
    <3>1. Beyond(f[lim], c)
      BY <2>0, <2>6, <1>1
    <3> QED BY <3>1, CursorAssumption DEF Beyond
  <2>11. ASSUME NEW x \in ToSet(d) PROVE ~Greater(x.field, next)
    <3>1. PICK k \in 1..lim : x = f[k]
      BY <2>5
    <3>2. CASE k = lim
      BY <3>1, <3>2, <2>9, GreaterNotSelf
    <3>3. CASE k < lim
      <4>1. k \in 1..Len(f)
        BY <2>0, <1>3
      <4> QED BY <3>1, <3>3, <4>1, <2>0, <1>4
    <3>4. k = lim \/ k < lim
      BY <2>0
    <3> QED BY <3>2, <3>3, <3>4
  <2> HIDE DEF next
  <2> QED BY <2>1, <2>3, <2>4, <2>7, <2>8, <2>9, <2>10, <2>11 DEF PageOf
<1> QED BY <1>5, <1>6
(* What a page has of any list, in order or not.                           *)
LEMMA PageTaken ==
    ASSUME NEW s \in Seq(ItemType), NEW c, NEW lim \in Nat \ {0}
    PROVE  LET p == paginate(s, c, lim)
           IN  /\ p.data \in Seq(ItemType) /\ p.hasMore \in BOOLEAN
               /\ \A x \in ToSet(p.data) : x \in ToSet(s)
               /\ p.hasMore => p.cursor \in Seq(Int)
               /\ ~p.hasMore => p.cursor = NoCursor
<1> DEFINE f == AfterCursor(s, c)
           more == Len(f) > lim
           d == IF more THEN SubSeq(f, 1, lim) ELSE f
           p == paginate(s, c, lim)
<1>1. f \in Seq(ItemType) /\ ToSet(f) \subseteq ToSet(s)
  <2> DEFINE T == {x \in ToSet(s) : Greater(x.field, c)}
  <2> HIDE DEF T
  <2>1. Select(s, T) \in Seq(ItemType) /\ ToSet(Select(s, T)) \subseteq ToSet(s)
    BY SelectPlaces, SelectedFrom, SequenceIntro
  <2> QED BY <2>1 DEF AfterCursor, T
<1>2. p.data = d /\ p.hasMore = more /\ p.cursor = IF more THEN d[lim].field ELSE NoCursor
  BY DEF paginate
<1> HIDE DEF f, p
<1>3. Len(f) \in Nat /\ DOMAIN f = 1..Len(f) /\ lim \in Nat /\ lim > 0
  BY <1>1
<1>4. d \in Seq(ItemType) /\ \A k \in DOMAIN d : k \in DOMAIN f /\ d[k] = f[k]
  <2>1. CASE more
    <3>1. /\ SubSeq(f, 1, lim) \in Seq(ItemType) /\ DOMAIN SubSeq(f, 1, lim) = 1..lim
          /\ \A k \in 1..lim : k \in 1..Len(f) /\ SubSeq(f, 1, lim)[k] = f[k]
      BY <1>1, <1>3, <2>1
    <3> QED BY <3>1, <2>1, <1>3
  <2>2. CASE ~more
    BY <2>2, <1>1
  <2> QED BY <2>1, <2>2
<1>5. \A x \in ToSet(d) : x \in ToSet(s)
  BY <1>1, <1>4 DEF ToSet
<1>6. more => d[lim].field \in Seq(Int)
  <2> SUFFICES ASSUME more PROVE d[lim].field \in Seq(Int)
    OBVIOUS
  <2>1. Len(d) = lim
    BY <1>1, <1>3
  <2>2. d[lim] \in ItemType
    BY <2>1, <1>3, <1>4
  <2> QED BY <2>2 DEF ItemType
<1> HIDE DEF d, more
<1>7. more \in BOOLEAN
  BY DEF more
<1> QED BY <1>2, <1>4, <1>5, <1>6, <1>7 DEF p

PageTypes ==
    /\ limit \in Limits /\ made \in Nat /\ clock \in Int
    /\ items \in Seq(ItemType)
    /\ \A k \in DOMAIN items : /\ items[k].id \in 1..made
                               /\ list = "envelopes" => items[k].field \in EnvelopeIds
                               /\ list = "intents" => Len(items[k].field) = 1
    /\ \A j, k \in DOMAIN items : items[j].id = items[k].id => j = k
    /\ seen \in Seq(Nat) /\ \A k \in DOMAIN seen : seen[k] <= made

WalkTypes ==
    /\ walk \in {"before", "walking", "ended"}
    /\ walk = "walking" => cursor \in Seq(Int)
    /\ walk # "walking" => cursor = NoCursor
    /\ walk = "before" => seen = <<>> /\ present = {}

(* Nothing was yielded twice; what stayed was yielded or is beyond the     *)
(* cursor; what was yielded is not beyond it.                              *)
WalkOK ==
    /\ \A j, k \in DOMAIN seen : seen[j] = seen[k] => j = k
    /\ \A id \in present :
          \/ id \in ToSet(seen)
          \/ walk = "walking" /\ \E x \in ToSet(items) : x.id = id /\ Greater(x.field, cursor)
    /\ walk = "walking" => \A x \in ToSet(items) : x.id \in ToSet(seen) => ~Greater(x.field, cursor)

PageInv == PageTypes /\ WalkTypes /\ (ascending => Ascending /\ WalkOK)

(* The list is the items, in some order.                                   *)
LEMMA ListedIs ==
    ASSUME PageTypes
    PROVE  Listed \in Seq(ItemType) /\ ToSet(Listed) = ToSet(items)
<1>0. items \in Seq(ItemType)
  BY DEF PageTypes
<1>1. CASE list = "envelopes"
  <2> DEFINE key == [k \in DOMAIN items |-> CHOOSE n \in DOMAIN Collation : Collation[n] = items[k].field]
  <2>1. \A k \in DOMAIN items : \E n \in DOMAIN Collation : Collation[n] = items[k].field
    BY <1>1, PagesAssumption DEF PageTypes
  <2>2. \A n \in DOMAIN Collation : n \in Int
    BY PagesAssumption
  <2>3. key \in [DOMAIN items -> Int]
    BY <2>1, <2>2
  <2>4. Listed = SortedBy(items, key)
    BY <1>1 DEF Listed, Collated
  <2> HIDE DEF key
  <2> QED BY <1>0, <2>3, <2>4, SortedKeeps
<1>2. CASE list = "intents"
  <2> DEFINE key == [k \in DOMAIN items |-> items[k].field[1]]
  <2>1. ASSUME NEW k \in DOMAIN items PROVE items[k].field[1] \in Int
    <3>1. Len(items[k].field) = 1
      BY <1>2 DEF PageTypes
    <3>2. items[k] \in ItemType
      BY <1>0
    <3>3. items[k].field \in Seq(Int)
      BY <3>2 DEF ItemType
    <3> QED BY <3>1, <3>3
  <2>2. key \in [DOMAIN items -> Int]
    BY <2>1
  <2>3. Listed = SortedBy(items, key)
    BY <1>2 DEF Listed, ByTime
  <2> HIDE DEF key
  <2> QED BY <1>0, <2>2, <2>3, SortedKeeps
<1>3. CASE list # "envelopes" /\ list # "intents"
  BY <1>0, <1>3 DEF Listed
<1> QED BY <1>1, <1>2, <1>3

LEMMA StringType == ASSUME NEW n \in Nat PROVE String(n) \in Seq(Int)
  BY DEF String

LEMMA PageInitial == PageInit => PageInv
<1> SUFFICES ASSUME PageInit PROVE PageInv
  OBVIOUS
<1>1. made \in Nat /\ limit \in Limits /\ clock \in Int
  BY PagesAssumption DEF PageInit
<1>2. items = [n \in 1..made |-> Item(n, String(n))]
  BY DEF PageInit
<1>3. \A n \in 1..made : Item(n, String(n)) \in ItemType /\ Item(n, String(n)).id = n
  <2> SUFFICES ASSUME NEW n \in 1..made
               PROVE  Item(n, String(n)) \in ItemType /\ Item(n, String(n)).id = n
    OBVIOUS
  <2>1. String(n) \in Seq(Int)
    BY <1>1, StringType
  <2> HIDE DEF String
  <2> QED BY <2>1, <1>1 DEF Item, ItemType
<1>4. items \in Seq(ItemType) /\ DOMAIN items = 1..made /\ \A n \in 1..made : items[n].id = n
  <2>1. items \in [1..made -> ItemType]
    BY <1>2, <1>3
  <2> QED BY <2>1, <1>1, <1>2, <1>3
<1>5. list = "envelopes" \/ list = "intents" => made = 0
  BY DEF PageInit
<1>6. PageTypes
  <2>1. seen \in Seq(Nat) /\ DOMAIN seen = {}
    BY DEF PageInit
  <2>2. \A k \in DOMAIN items : items[k].id \in 1..made
    BY <1>4
  <2>3. \A j, k \in DOMAIN items : items[j].id = items[k].id => j = k
    BY <1>4
  <2>4. list = "envelopes" \/ list = "intents" => DOMAIN items = {}
    BY <1>4, <1>5
  <2> QED BY <1>1, <1>4, <2>1, <2>2, <2>3, <2>4 DEF PageTypes
<1>7. WalkTypes
  BY DEF PageInit, WalkTypes
<1>8. WalkOK
  BY DEF PageInit, WalkOK
<1> QED BY <1>6, <1>7, <1>8 DEF PageInit, PageInv

(* A request yields a page.                                                *)
LEMMA FetchKept ==
    ASSUME PageInv, FetchPage
    PROVE  PageTypes' /\ WalkTypes' /\ (ascending => WalkOK')
<1> DEFINE p == paginate(Listed, cursor, limit)
           ids == [k \in DOMAIN p.data |-> p.data[k].id]
<1>1. /\ walk # "ended" /\ seen' = seen \o ids
      /\ present' = IF walk = "before" THEN ListIds(items) ELSE present
      /\ cursor' = p.cursor
      /\ walk' = IF p.hasMore THEN "walking" ELSE "ended"
      /\ list' = list /\ limit' = limit /\ items' = items /\ made' = made /\ clock' = clock
  BY DEF FetchPage
<1>2. Listed \in Seq(ItemType) /\ ToSet(Listed) = ToSet(items)
  BY ListedIs DEF PageInv
<1>3. cursor = NoCursor \/ cursor \in Seq(Int)
  BY DEF PageInv, WalkTypes
<1>4. limit \in Nat \ {0}
  BY PagesAssumption DEF PageInv, PageTypes
<1>5. /\ p.data \in Seq(ItemType) /\ p.hasMore \in BOOLEAN
      /\ \A x \in ToSet(p.data) : x \in ToSet(items)
      /\ p.hasMore => p.cursor \in Seq(Int)
      /\ ~p.hasMore => p.cursor = NoCursor
  BY <1>2, <1>3, <1>4, PageTaken
<1>6. ascending => PageOf(p, Listed, cursor)
  BY <1>2, <1>3, <1>4, PageIs DEF PageInv, Ascending, InOrder
<1> HIDE DEF p
<1>7. /\ ids \in Seq(Nat) /\ DOMAIN ids = DOMAIN p.data
      /\ \A k \in DOMAIN ids : ids[k] = p.data[k].id /\ ids[k] <= made
  <2>1. ASSUME NEW k \in DOMAIN p.data PROVE p.data[k].id \in Nat /\ p.data[k].id <= made
    <3>1. p.data[k] \in ToSet(items)
      BY <1>5 DEF ToSet
    <3>2. PICK j \in DOMAIN items : p.data[k] = items[j]
      BY <3>1 DEF ToSet
    <3> QED BY <3>2 DEF PageInv, PageTypes
  <2>2. DOMAIN p.data = 1..Len(p.data) /\ Len(p.data) \in Nat
    BY <1>5
  <2>3. ids \in [1..Len(p.data) -> Nat]
    BY <2>1, <2>2
  <2> QED BY <2>1, <2>2, <2>3
<1> HIDE DEF ids
<1>8. /\ seen \in Seq(Nat) /\ made \in Nat /\ \A k \in DOMAIN seen : seen[k] <= made
  BY DEF PageInv, PageTypes
<1>9. /\ seen' \in Seq(Nat) /\ Len(seen) \in Nat /\ Len(ids) \in Nat
      /\ DOMAIN seen = 1..Len(seen) /\ DOMAIN ids = 1..Len(ids)
      /\ \A k \in DOMAIN seen' : k \in DOMAIN seen \/ \E j \in DOMAIN ids : k = Len(seen) + j
      /\ \A k \in DOMAIN seen : k \in DOMAIN seen' /\ seen'[k] = seen[k]
      /\ \A j \in DOMAIN ids : Len(seen) + j \in DOMAIN seen' /\ seen'[Len(seen) + j] = ids[j]
  <2>1. IsSequence(seen) /\ IsSequence(ids)
    BY <1>7, <1>8, SequenceIntro
  <2> DEFINE both == seen \o ids
  <2>2. /\ Len(both) = Len(seen) + Len(ids) /\ Len(seen) \in Nat /\ Len(ids) \in Nat
        /\ \A k \in 1..Len(seen) : both[k] = seen[k]
        /\ \A k \in 1..Len(ids) : both[Len(seen) + k] = ids[k]
    BY <2>1, ConcatElements
  <2>3. both \in Seq(Nat) /\ DOMAIN seen = 1..Len(seen) /\ DOMAIN ids = 1..Len(ids)
    BY <1>7, <1>8
  <2> HIDE DEF both
  <2>4. DOMAIN both = 1..(Len(seen) + Len(ids))
    BY <2>2, <2>3
  <2>5. \A k \in DOMAIN both : k \in DOMAIN seen \/ \E j \in DOMAIN ids : k = Len(seen) + j
    <3> SUFFICES ASSUME NEW k \in DOMAIN both, ~(k \in DOMAIN seen) PROVE \E j \in DOMAIN ids : k = Len(seen) + j
      OBVIOUS
    <3>1. k - Len(seen) \in DOMAIN ids /\ k = Len(seen) + (k - Len(seen))
      BY <2>2, <2>3, <2>4
    <3> QED BY <3>1
  <2>6. /\ \A k \in DOMAIN seen : k \in DOMAIN both
        /\ \A j \in DOMAIN ids : Len(seen) + j \in DOMAIN both
    BY <2>2, <2>3, <2>4
  <2>7. seen' = both
    BY <1>1 DEF both
  <2> QED BY <2>2, <2>3, <2>5, <2>6, <2>7
<1>10. ToSet(seen') = ToSet(seen) \cup ToSet(ids)
  BY <1>9 DEF ToSet
<1>11. ToSet(ids) = {x.id : x \in ToSet(p.data)}
  BY <1>7 DEF ToSet
<1>12. PageTypes'
  <2>1. \A k \in DOMAIN seen' : seen'[k] <= made'
    BY <1>1, <1>7, <1>8, <1>9
  <2> QED BY <2>1, <1>1, <1>9 DEF PageInv, PageTypes
<1>13. WalkTypes'
  BY <1>1, <1>5 DEF WalkTypes
<1>14. ASSUME NEW x \in ToSet(items), NEW y \in ToSet(items), x.id = y.id PROVE x = y
  BY <1>14 DEF PageInv, PageTypes, ToSet
<1>15. ASSUME ascending PROVE WalkOK'
  <2>1. PageOf(p, Listed, cursor) /\ WalkOK
    BY <1>6, <1>15 DEF PageInv
  <2>2. /\ \A x \in ToSet(p.data) : x \in ToSet(items) /\ Beyond(x, cursor)
        /\ \A j, k \in DOMAIN p.data : p.data[j] = p.data[k] => j = k
    BY <2>1, <1>2 DEF PageOf
  <2>3. walk = "before" \/ walk = "walking"
    BY <1>1 DEF PageInv, WalkTypes
  <2>4. ASSUME NEW x \in ToSet(p.data) PROVE x.id \notin ToSet(seen)
    <3>1. CASE walk = "before"
      <4>1. DOMAIN seen = {}
        BY <3>1 DEF PageInv, WalkTypes
      <4> QED BY <4>1 DEF ToSet
    <3>2. CASE walk = "walking"
      <4>1. cursor \in Seq(Int) /\ cursor # NoCursor
        BY <3>2, CursorAssumption DEF PageInv, WalkTypes
      <4>2. x \in ToSet(items) /\ Greater(x.field, cursor)
        BY <4>1, <2>2 DEF Beyond
      <4> QED BY <4>2, <3>2, <2>1 DEF WalkOK
    <3> QED BY <3>1, <3>2, <2>3
  <2>5. ASSUME NEW j \in DOMAIN seen', NEW k \in DOMAIN seen', seen'[j] = seen'[k] PROVE j = k
    <3>1. \A i \in DOMAIN ids : ids[i] \notin ToSet(seen)
      BY <2>4, <1>7 DEF ToSet
    <3>2. \A i \in DOMAIN seen : seen[i] \in ToSet(seen)
      BY DEF ToSet
    <3>3. \A i, m \in DOMAIN ids : ids[i] = ids[m] => i = m
      <4> SUFFICES ASSUME NEW i \in DOMAIN ids, NEW m \in DOMAIN ids, ids[i] = ids[m] PROVE i = m
        OBVIOUS
      <4>1. p.data[i] \in ToSet(items) /\ p.data[m] \in ToSet(items) /\ p.data[i].id = p.data[m].id
        BY <1>5, <1>7 DEF ToSet
      <4> QED BY <4>1, <1>7, <1>14, <2>2
    <3>4. CASE j \in DOMAIN seen /\ k \in DOMAIN seen
      BY <3>4, <2>1, <2>5, <1>9 DEF WalkOK
    <3>5. CASE j \in DOMAIN seen /\ k \notin DOMAIN seen
      <4>1. PICK i \in DOMAIN ids : k = Len(seen) + i
        BY <3>5, <1>9
      <4>2. seen[j] = ids[i]
        BY <4>1, <3>5, <2>5, <1>9
      <4> QED BY <4>2, <3>1, <3>2, <3>5
    <3>6. CASE j \notin DOMAIN seen /\ k \in DOMAIN seen
      <4>1. PICK i \in DOMAIN ids : j = Len(seen) + i
        BY <3>6, <1>9
      <4>2. seen[k] = ids[i]
        BY <4>1, <3>6, <2>5, <1>9
      <4> QED BY <4>2, <3>1, <3>2, <3>6
    <3>7. CASE j \notin DOMAIN seen /\ k \notin DOMAIN seen
      <4>1. PICK i \in DOMAIN ids : j = Len(seen) + i
        BY <3>7, <1>9
      <4>2. PICK m \in DOMAIN ids : k = Len(seen) + m
        BY <3>7, <1>9
      <4>3. ids[i] = ids[m]
        BY <4>1, <4>2, <2>5, <1>9
      <4> QED BY <4>1, <4>2, <4>3, <3>3
    <3> QED BY <3>4, <3>5, <3>6, <3>7
  <2>6. ASSUME NEW x \in ToSet(items), Beyond(x, cursor)
        PROVE  x.id \in ToSet(seen') \/ (walk' = "walking" /\ Greater(x.field, cursor'))
    <3>1. x \in ToSet(p.data) \/ (p.hasMore /\ Greater(x.field, p.cursor))
      BY <2>1, <2>6, <1>2 DEF PageOf
    <3> QED BY <3>1, <1>1, <1>10, <1>11
  <2>7. ASSUME NEW id \in present'
        PROVE  \/ id \in ToSet(seen')
               \/ walk' = "walking" /\ \E x \in ToSet(items') : x.id = id /\ Greater(x.field, cursor')
    <3>1. CASE walk = "before"
      <4>1. cursor = NoCursor
        BY <3>1 DEF PageInv, WalkTypes
      <4>2. PICK k \in DOMAIN items : id = items[k].id
        BY <3>1, <2>7, <1>1 DEF ListIds
      <4>3. items[k] \in ToSet(items) /\ Beyond(items[k], cursor)
        BY <4>1 DEF ToSet, Beyond
      <4> QED BY <4>2, <4>3, <2>6, <1>1
    <3>2. CASE walk = "walking" /\ id \in ToSet(seen)
      BY <3>2, <1>10
    <3>3. CASE walk = "walking" /\ id \notin ToSet(seen)
      <4>1. id \in present
        BY <3>3, <2>7, <1>1
      <4>2. PICK x \in ToSet(items) : x.id = id /\ Greater(x.field, cursor)
        BY <4>1, <3>3, <2>1 DEF WalkOK
      <4> QED BY <4>2, <2>6, <1>1 DEF Beyond
    <3> QED BY <3>1, <3>2, <3>3, <2>3
  <2>8. ASSUME walk' = "walking", NEW x \in ToSet(items'), x.id \in ToSet(seen')
        PROVE  ~Greater(x.field, cursor')
    <3>1. /\ p.hasMore /\ cursor' = p.cursor /\ p.cursor \in Seq(Int) /\ x \in ToSet(items)
          /\ cursor \in Seq(Int) => Greater(p.cursor, cursor)
          /\ \A y \in ToSet(p.data) : ~Greater(y.field, p.cursor)
      BY <2>1, <2>8, <1>1, <1>5 DEF PageOf
    <3>2. CASE x.id \in ToSet(seen)
      <4>1. walk = "walking" /\ cursor \in Seq(Int)
        <5>1. walk # "before"
          BY <3>2 DEF PageInv, WalkTypes, ToSet
        <5> QED BY <5>1, <2>3 DEF PageInv, WalkTypes
      <4>2. ~Greater(x.field, cursor)
        BY <4>1, <3>1, <3>2, <2>1 DEF WalkOK
      <4>3. x.field \in Seq(Int)
        <5>1. x \in ItemType
          BY <3>1 DEF PageInv, PageTypes, ToSet
        <5> QED BY <5>1 DEF ItemType
      <4> QED BY <4>1, <4>2, <4>3, <3>1, GreaterAgain
    <3>3. CASE x.id \notin ToSet(seen)
      <4>1. PICK y \in ToSet(p.data) : x.id = y.id
        BY <3>3, <2>8, <1>10, <1>11
      <4>2. x = y
        BY <4>1, <3>1, <1>5, <1>14
      <4> QED BY <4>1, <4>2, <3>1
    <3> QED BY <3>2, <3>3
  <2> QED BY <2>5, <2>7, <2>8 DEF WalkOK
<1> QED BY <1>12, <1>13, <1>15

(* An item is made, and is new.                                            *)
LEMMA CreateKept ==
    ASSUME PageInv, Create
    PROVE  PageTypes' /\ WalkTypes' /\ (ascending => WalkOK')
<1>1. PICK f \in NewFields : items' = Append(items, Item(made + 1, f))
  BY DEF Create
<1>2. /\ made' = made + 1 /\ made \in Nat /\ list' = list
      /\ UNCHANGED <<limit, clock, cursor, seen, present, walk>>
  BY DEF Create, PageInv, PageTypes
<1>3. f \in Seq(Int) /\ (list = "envelopes" => f \in EnvelopeIds) /\ (list = "intents" => Len(f) = 1)
  <2>1. CASE list = "events"
    BY <1>1, <1>2, <2>1, StringType DEF NewFields, EventPosition
  <2>2. CASE list = "envelopes"
    BY <1>1, <2>2, PagesAssumption DEF NewFields, FreeIds
  <2>3. CASE list # "events" /\ list # "envelopes"
    <3>1. f = <<clock>> /\ clock \in Int
      BY <1>1, <2>3 DEF NewFields, Timestamp, PageInv, PageTypes
    <3> QED BY <3>1, <2>3
  <2> QED BY <2>1, <2>2, <2>3
<1> DEFINE new == Item(made + 1, f)
           n == Len(items)
<1>4. new \in ItemType /\ new.id = made + 1 /\ new.field = f
  BY <1>2, <1>3 DEF Item, ItemType
<1>5. items \in Seq(ItemType)
  BY DEF PageInv, PageTypes
<1> HIDE DEF new
<1>6. /\ items' \in Seq(ItemType) /\ n \in Nat /\ DOMAIN items' = 1..(n + 1) /\ DOMAIN items = 1..n
      /\ \A k \in 1..n : items'[k] = items[k]
      /\ items'[n + 1] = new
  BY <1>1, <1>4, <1>5 DEF new
<1> HIDE DEF n
<1>7. \A k \in 1..(n + 1) : k \in 1..n \/ k = n + 1
  BY <1>6
<1>8. PageTypes'
  <2>1. ASSUME NEW k \in DOMAIN items'
        PROVE  /\ items'[k].id \in 1..made'
               /\ list' = "envelopes" => items'[k].field \in EnvelopeIds
               /\ list' = "intents" => Len(items'[k].field) = 1
    <3>1. CASE k \in 1..n
      BY <3>1, <1>2, <1>6 DEF PageInv, PageTypes
    <3>2. CASE k = n + 1
      BY <3>2, <1>2, <1>3, <1>4, <1>6
    <3> QED BY <3>1, <3>2, <1>6, <1>7
  <2>2. ASSUME NEW j \in DOMAIN items', NEW k \in DOMAIN items', items'[j].id = items'[k].id PROVE j = k
    <3>1. \A i \in 1..n : items'[i].id # made + 1
      BY <1>2, <1>6 DEF PageInv, PageTypes
    <3>2. CASE j \in 1..n /\ k \in 1..n
      BY <3>2, <2>2, <1>6 DEF PageInv, PageTypes
    <3> QED BY <3>1, <3>2, <2>2, <1>4, <1>6, <1>7
  <2>3. seen' \in Seq(Nat) /\ \A k \in DOMAIN seen' : seen'[k] <= made'
    <3>1. seen \in Seq(Nat) /\ \A k \in DOMAIN seen : seen[k] <= made /\ seen[k] \in Nat
      BY DEF PageInv, PageTypes
    <3> QED BY <3>1, <1>2
  <2>4. limit' \in Limits /\ made' \in Nat /\ clock' \in Int
    BY <1>2 DEF PageInv, PageTypes
  <2> QED BY <2>1, <2>2, <2>3, <2>4, <1>6 DEF PageTypes
<1>9. WalkTypes'
  BY <1>2 DEF PageInv, WalkTypes
<1>10. ASSUME ascending PROVE WalkOK'
  <2>1. ToSet(items') = ToSet(items) \cup {new}
    BY <1>6, <1>7 DEF ToSet
  <2>2. new.id \notin ToSet(seen)
    BY <1>2, <1>4 DEF PageInv, PageTypes, ToSet
  <2> QED BY <2>1, <2>2, <1>2, <1>10 DEF PageInv, WalkOK
<1> QED BY <1>8, <1>9, <1>10

(* An intent leaves, and is no longer among those that stayed.             *)
LEMMA LeaveKept ==
    ASSUME PageInv, Leave
    PROVE  PageTypes' /\ WalkTypes' /\ (ascending => WalkOK')
<1>1. PICK i \in DOMAIN items : items' = RemoveAt(items, i) /\ present' = present \ {items[i].id}
  BY DEF Leave
<1>2. list' = list /\ UNCHANGED <<limit, made, clock, cursor, seen, walk>>
  BY DEF Leave
<1> DEFINE n == Len(items)
           from(k) == IF k < i THEN k ELSE k + 1
<1>3. items \in Seq(ItemType) /\ n \in Nat /\ DOMAIN items = 1..n /\ i \in 1..n
  BY DEF PageInv, PageTypes
<1>4. /\ items' \in Seq(ItemType) /\ DOMAIN items' = 1..(n - 1)
      /\ \A k \in 1..(n - 1) : items'[k] = items[from(k)]
  <2> DEFINE a == SubSeq(items, 1, i - 1)
             b == SubSeq(items, i + 1, n)
  <2>1. a \in Seq(ItemType) /\ Len(a) = i - 1 /\ \A k \in 1..(i - 1) : a[k] = items[k]
    BY <1>3
  <2>2. b \in Seq(ItemType) /\ Len(b) = n - i /\ \A k \in 1..(n - i) : b[k] = items[i + k]
    BY <1>3
  <2>3. items' = a \o b
    BY <1>1 DEF RemoveAt
  <2> HIDE DEF a, b, n
  <2>4. /\ a \o b \in Seq(ItemType) /\ Len(a \o b) = n - 1
        /\ \A k \in 1..(i - 1) : (a \o b)[k] = a[k]
        /\ \A k \in 1..(n - i) : (a \o b)[(i - 1) + k] = b[k]
    <3>1. a \o b \in Seq(ItemType)
      BY <2>1, <2>2
    <3>2. IsSequence(a) /\ IsSequence(b)
      BY <2>1, <2>2, SequenceIntro
    <3>3. /\ Len(a \o b) = Len(a) + Len(b)
          /\ \A k \in 1..Len(a) : (a \o b)[k] = a[k]
          /\ \A k \in 1..Len(b) : (a \o b)[Len(a) + k] = b[k]
      BY <3>2, ConcatElements
    <3>4. Len(a) = i - 1 /\ Len(b) = n - i /\ (i - 1) + (n - i) = n - 1
      BY <2>1, <2>2, <1>3
    <3> QED BY <3>1, <3>3, <3>4
  <2>5. DOMAIN (a \o b) = 1..(n - 1)
    BY <2>4
  <2>6. ASSUME NEW k \in 1..(n - 1) PROVE (a \o b)[k] = items[from(k)]
    <3>1. CASE k < i
      BY <3>1, <2>1, <2>4, <1>3
    <3>2. CASE ~(k < i)
      <4> DEFINE m == k - (i - 1)
      <4>1. m \in 1..(n - i) /\ (i - 1) + m = k /\ i + m = k + 1
        BY <3>2, <1>3
      <4> HIDE DEF m
      <4>2. (a \o b)[(i - 1) + m] = b[m] /\ b[m] = items[i + m]
        BY <4>1, <2>2, <2>4
      <4> QED BY <4>1, <4>2, <3>2
    <3> QED BY <3>1, <3>2
  <2> QED BY <2>3, <2>4, <2>5, <2>6
<1>5. \A k \in 1..(n - 1) : from(k) \in 1..n /\ from(k) # i
  BY <1>3
<1>6. \A j, k \in 1..(n - 1) : from(j) = from(k) => j = k
  BY <1>3
<1>7. \A m \in 1..n : m # i => \E k \in 1..(n - 1) : from(k) = m
  <2> SUFFICES ASSUME NEW m \in 1..n, m # i PROVE \E k \in 1..(n - 1) : from(k) = m
    OBVIOUS
  <2>1. CASE m < i
    <3>1. m \in 1..(n - 1) /\ from(m) = m
      BY <2>1, <1>3
    <3> QED BY <3>1
  <2>2. CASE m > i
    <3>1. m - 1 \in 1..(n - 1) /\ from(m - 1) = m
      BY <2>2, <1>3
    <3> QED BY <3>1
  <2> QED BY <2>1, <2>2, <1>3
<1> HIDE DEF from, n
<1>8. PageTypes'
  <2>1. ASSUME NEW k \in DOMAIN items'
        PROVE  /\ items'[k].id \in 1..made'
               /\ list' = "envelopes" => items'[k].field \in EnvelopeIds
               /\ list' = "intents" => Len(items'[k].field) = 1
    BY <1>2, <1>3, <1>4, <1>5 DEF PageInv, PageTypes
  <2>2. ASSUME NEW j \in DOMAIN items', NEW k \in DOMAIN items', items'[j].id = items'[k].id PROVE j = k
    <3>1. from(j) = from(k)
      BY <2>2, <1>3, <1>4, <1>5 DEF PageInv, PageTypes
    <3> QED BY <3>1, <1>4, <1>6
  <2>3. limit' \in Limits /\ made' \in Nat /\ clock' \in Int /\ seen' \in Seq(Nat)
        /\ \A k \in DOMAIN seen' : seen'[k] <= made'
    BY <1>2 DEF PageInv, PageTypes
  <2> QED BY <2>1, <2>2, <2>3, <1>4 DEF PageTypes
<1>9. WalkTypes'
  BY <1>1, <1>2 DEF PageInv, WalkTypes
<1>10. ASSUME ascending PROVE WalkOK'
  <2>1. ToSet(items') \subseteq ToSet(items)
    BY <1>3, <1>4, <1>5 DEF ToSet
  <2>2. ASSUME NEW x \in ToSet(items), x.id # items[i].id PROVE x \in ToSet(items')
    <3>1. PICK m \in 1..n : x = items[m]
      BY <1>3 DEF ToSet
    <3>2. PICK k \in 1..(n - 1) : from(k) = m
      BY <3>1, <2>2, <1>7
    <3> QED BY <3>1, <3>2, <1>4 DEF ToSet
  <2>3. /\ \A j, k \in DOMAIN seen' : seen'[j] = seen'[k] => j = k
        /\ walk' = "walking" => \A x \in ToSet(items') : x.id \in ToSet(seen') => ~Greater(x.field, cursor')
    BY <2>1, <1>2, <1>10 DEF PageInv, WalkOK
  <2>4. ASSUME NEW id \in present'
        PROVE  \/ id \in ToSet(seen')
               \/ walk' = "walking" /\ \E x \in ToSet(items') : x.id = id /\ Greater(x.field, cursor')
    <3>1. id \in present /\ id # items[i].id
      BY <1>1, <2>4
    <3>2. CASE id \in ToSet(seen)
      BY <3>2, <1>2
    <3>3. CASE id \notin ToSet(seen)
      <4>1. walk = "walking"
        BY <3>1, <3>3, <1>10 DEF PageInv, WalkOK
      <4>2. PICK x \in ToSet(items) : x.id = id /\ Greater(x.field, cursor)
        BY <3>1, <3>3, <1>10 DEF PageInv, WalkOK
      <4> QED BY <4>1, <4>2, <3>1, <2>2, <1>2
    <3> QED BY <3>2, <3>3
  <2> QED BY <2>3, <2>4 DEF WalkOK
<1> QED BY <1>8, <1>9, <1>10
LEMMA PageKept == PageInv /\ [PageNext]_pageVars => PageInv'
<1> SUFFICES ASSUME PageInv, [PageNext]_pageVars PROVE PageInv'
  OBVIOUS
<1>1. ASSUME PageNext, PageTypes' /\ WalkTypes' /\ (ascending => WalkOK') PROVE PageInv'
  BY <1>1 DEF PageNext, PageInv
<1>2. CASE UNCHANGED pageVars
  <2>1. Listed' = Listed
    BY <1>2 DEF pageVars, Listed
  <2> QED BY <2>1, <1>2 DEF pageVars, PageInv, PageTypes, WalkTypes, WalkOK, Ascending
<1>3. CASE PageNext /\ Create
  BY <1>1, <1>3, CreateKept
<1>4. CASE PageNext /\ Leave
  BY <1>1, <1>4, LeaveKept
<1>5. CASE PageNext /\ FetchPage
  BY <1>1, <1>5, FetchKept
<1>6. CASE PageNext /\ Tick
  <2>1. /\ list' = list /\ limit' = limit /\ items' = items /\ made' = made /\ cursor' = cursor
        /\ seen' = seen /\ present' = present /\ walk' = walk /\ clock' = clock + 1
    BY <1>6 DEF Tick
  <2>2. PageTypes' /\ WalkTypes' /\ (ascending => WalkOK')
    BY <2>1 DEF PageInv, PageTypes, WalkTypes, WalkOK
  <2> QED BY <2>2, <1>1, <1>6
<1>7. CASE PageNext /\ WalkAgain
  <2>1. /\ list' = list /\ limit' = limit /\ items' = items /\ made' = made /\ clock' = clock
        /\ cursor' = cursor /\ walk = "ended" /\ walk' = "before" /\ seen' = <<>> /\ present' = {}
    BY <1>7 DEF WalkAgain
  <2>2. PageTypes'
    <3>1. seen' \in Seq(Nat) /\ DOMAIN seen' = {}
      BY <2>1
    <3> QED BY <2>1, <3>1 DEF PageInv, PageTypes
  <2>3. WalkTypes' /\ WalkOK'
    BY <2>1 DEF PageInv, WalkTypes, WalkOK
  <2> QED BY <2>2, <2>3, <1>1, <1>7
<1> QED BY <1>2, <1>3, <1>4, <1>5, <1>6, <1>7 DEF PageNext

LEMMA WalkIsComplete == PageInv => PageWalkComplete
<1> SUFFICES ASSUME PageInv, walk = "ended", ascending
             PROVE  /\ \A id \in present : Times(id) = 1
                    /\ \A id \in Range(seen) : Times(id) = 1
  BY DEF PageWalkComplete
<1>1. ASSUME NEW id \in ToSet(seen) PROVE Times(id) = 1
  <2>1. PICK k \in DOMAIN seen : seen[k] = id
    BY DEF ToSet
  <2>2. {j \in DOMAIN seen : seen[j] = id} = {k}
    BY <2>1 DEF PageInv, WalkOK
  <2> QED BY <2>2, FS_Singleton DEF Times
<1>2. \A id \in present : id \in ToSet(seen)
  BY DEF PageInv, WalkOK
<1>3. Range(seen) = ToSet(seen)
  BY DEF Range, ToSet
<1> QED BY <1>1, <1>2, <1>3

(* A walk over the pages of a list that is sorted by its cursor's field    *)
(* yields every item that stayed exactly once, for lists of any length,    *)
(* any page size, and whatever is made or leaves between two requests.     *)
THEOREM WalkCorrect == PageSpec => []PageWalkComplete
<1> QED BY PageInitial, PageKept, WalkIsComplete, PTL DEF PageSpec
===============================================================================
