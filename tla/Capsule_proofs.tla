--------------------------- MODULE Capsule_proofs ---------------------------
(***************************************************************************)
(* Lemmas about the operators that Capsule and DecisionLines are built     *)
(* from: the order in which the tools enumerate versions and lines, the    *)
(* entries of a version, and the producer's record as a function of what   *)
(* it reads.  Record_proofs and Shadow_proofs rest on them.                *)
(***************************************************************************)
EXTENDS Capsule, TLAPS, NaturalsInduction, WellFoundedInduction, FiniteSetTheorems

\* Induction is by the least element of a set of counterexamples.
LEMMA LeastElement ==
  ASSUME NEW T \in SUBSET Nat, T # {}
  PROVE  \E x \in T : \A y \in T : x <= y
<1>. DEFINE R == {p \in Nat \X Nat : p[1] < p[2]}
<1>1. IsWellFoundedOn(R, Nat)
  <2>1. OpToRel(<, Nat) = R
    BY DEF OpToRel
  <2>. HIDE DEF R
  <2>. QED BY <2>1, NatLessThanWellFounded
<1>2. PICK x \in T : \A y \in T : ~(<<y, x>> \in R)
  <2>. HIDE DEF R
  <2>. QED BY <1>1, WFMin
<1>3. ASSUME NEW y \in T PROVE x <= y
  <2>1. x \in Nat /\ y \in Nat
    OBVIOUS
  <2>2. <<y, x>> \in Nat \X Nat /\ <<y, x>>[1] = y /\ <<y, x>>[2] = x
    BY <2>1
  <2>3. ~(y < x)
    BY <1>2, <2>2
  <2>. QED BY <2>1, <2>3
<1>. QED BY <1>3

LEMMA SetInduction ==
  ASSUME NEW S \in SUBSET Nat, 0 \in S, \A n \in S : n + 1 \in S
  PROVE  S = Nat
<1>. SUFFICES ASSUME S # Nat PROVE FALSE
  OBVIOUS
<1>1. PICK x \in Nat \ S : \A y \in Nat \ S : x <= y
  BY LeastElement
<1>2. x # 0 /\ x - 1 \in Nat
  OBVIOUS
<1>3. x - 1 \in S
  BY <1>1, <1>2
<1>. QED BY <1>1, <1>2, <1>3

\* InOrder enumerates each member of a finite set once, by increasing rank.
LEMMA InOrderEnumerates ==
  ASSUME NEW S, IsFiniteSet(S), NEW rank,
         \A x \in S : rank[x] \in Int,
         \A x, y \in S : rank[x] = rank[y] => x = y
  PROVE  /\ Cardinality(S) \in Nat
         /\ InOrder(S, rank) \in [1 .. Cardinality(S) -> S]
         /\ \A x \in S : \E k \in 1 .. Cardinality(S) : InOrder(S, rank)[k] = x
         /\ \A i, k \in 1 .. Cardinality(S) : i < k => rank[InOrder(S, rank)[i]] < rank[InOrder(S, rank)[k]]
<1>. DEFINE n == Cardinality(S)
            Below(x) == {y \in S : rank[y] <= rank[x]}
            pos(x) == Cardinality(Below(x))
            P == [x \in S |-> pos(x)]
<1>1. n \in Nat
  BY FS_CardinalityType
<1>2. ASSUME NEW x \in S PROVE IsFiniteSet(Below(x)) /\ pos(x) \in 1 .. n
  <2>1. Below(x) \in SUBSET S /\ x \in Below(x)
    OBVIOUS
  <2>2. IsFiniteSet(Below(x)) /\ pos(x) <= n
    BY <2>1, FS_Subset
  <2>3. pos(x) \in Nat /\ pos(x) # 0
    BY <2>1, <2>2, FS_CardinalityType, FS_EmptySet
  <2>. QED BY <1>1, <2>2, <2>3
<1>3. ASSUME NEW x \in S, NEW y \in S, rank[x] < rank[y] PROVE pos(x) < pos(y)
  <2>1. Below(x) \in SUBSET Below(y) /\ y \in Below(y) /\ y \notin Below(x)
    BY <1>3
  <2>2. pos(x) <= pos(y) /\ pos(x) # pos(y)
    BY <2>1, <1>2, FS_Subset
  <2>. QED BY <2>2, <1>2
<1>4. ASSUME NEW x \in S, NEW y \in S, pos(x) = pos(y) PROVE x = y
  <2>1. rank[x] \in Int /\ rank[y] \in Int /\ pos(x) \in 1 .. n /\ pos(y) \in 1 .. n
    BY <1>2
  <2>2. rank[x] < rank[y] => pos(x) < pos(y)
    BY <1>3
  <2>3. rank[y] < rank[x] => pos(y) < pos(x)
    BY <1>3
  <2>. HIDE DEF pos, n
  <2>4. ~(rank[x] < rank[y]) /\ ~(rank[y] < rank[x])
    BY <1>1, <1>4, <2>1, <2>2, <2>3
  <2>. QED BY <2>1, <2>4
<1>5. P \in Injection(S, 1 .. n)
  <2>1. P \in [S -> 1 .. n]
    BY <1>2
  <2>2. \A x, y \in S : P[x] = P[y] => x = y
    BY <1>4
  <2>. QED BY <2>1, <2>2 DEF Injection, IsInjective
<1>6. P \in Surjection(S, 1 .. n)
  BY <1>1, <1>5, FS_Injection, FS_Interval
<1>7. ASSUME NEW k \in 1 .. n PROVE \E x \in S : pos(x) = k
  BY <1>6 DEF Surjection
<1>8. ASSUME NEW k \in 1 .. n PROVE InOrder(S, rank)[k] \in S /\ pos(InOrder(S, rank)[k]) = k
  BY <1>7 DEF InOrder
<1>9. InOrder(S, rank) \in [1 .. n -> S]
  BY <1>8 DEF InOrder
<1>10. ASSUME NEW x \in S PROVE \E k \in 1 .. n : InOrder(S, rank)[k] = x
  BY <1>2, <1>4, <1>8
<1>11. ASSUME NEW i \in 1 .. n, NEW k \in 1 .. n, i < k
       PROVE  rank[InOrder(S, rank)[i]] < rank[InOrder(S, rank)[k]]
  <2>. DEFINE x == InOrder(S, rank)[i]
              y == InOrder(S, rank)[k]
  <2>1. x \in S /\ y \in S /\ pos(x) = i /\ pos(y) = k
    BY <1>8
  <2>. HIDE DEF x, y
  <2>2. rank[y] < rank[x] => pos(y) < pos(x)
    BY <1>3, <2>1
  <2>. HIDE DEF pos, n
  <2>3. ~(rank[y] < rank[x]) /\ x # y
    BY <1>1, <1>11, <2>1, <2>2
  <2>4. rank[x] < rank[y]
    BY <2>1, <2>3
  <2>. QED BY <2>4 DEF x, y
<1>. QED BY <1>1, <1>9, <1>10, <1>11


-----------------------------------------------------------------------------
(* What the producer's record depends on.                                  *)

\* Directories that the producer reads alike.
ReadAlike(j, k) ==
  /\ j.versions = k.versions /\ j.log = k.log /\ j.decisions = k.decisions
  /\ j.main = k.main /\ j.reward = k.reward

LEMMA ProducedDependsOn ==
  ASSUME NEW j, NEW k, ReadAlike(j, k)
  PROVE  /\ Produced(j) = Produced(k)
         /\ ProducerRefuses(j) => ProducerRefuses(k) \/ j.stray
<1>. USE DEF ReadAlike
<1>1. Snapshots(j) = Snapshots(k) /\ Matches(j) = Matches(k)
  BY DEF Snapshots, Matches
<1>2. MainClass(j) = MainClass(k)
  BY <1>1 DEF MainClass
<1>3. ASSUME NEW v
      PROVE  /\ ParentsOf(j, v) = ParentsOf(k, v) /\ Recorded(j, v) = Recorded(k, v)
             /\ Unsnapshotted(j, v) = Unsnapshotted(k, v)
             /\ IsLowest(j, v) <=> IsLowest(k, v)
  BY <1>1 DEF ParentsOf, Recorded, Unsnapshotted, IsLowest
<1>4. ASSUME NEW v PROVE StatusIn(j, v) = StatusIn(k, v)
  BY <1>2 DEF StatusIn
<1>5. ASSUME NEW v PROVE VersionIn(j, v) = VersionIn(k, v)
  BY <1>3, <1>4 DEF VersionIn
<1>6. ASSUME NEW v PROVE VersionRefused(j, v) <=> VersionRefused(k, v)
  BY <1>3 DEF VersionRefused
<1>7. [v \in Snapshots(j) |-> VersionIn(j, v)] = [v \in Snapshots(k) |-> VersionIn(k, v)]
  BY <1>1, <1>5
<1>8. Produced(j) = Produced(k)
  BY <1>2, <1>7 DEF Produced
<1>9. ProducerRefuses(j) => ProducerRefuses(k) \/ j.stray
  BY <1>1, <1>6 DEF ProducerRefuses
<1>. QED BY <1>8, <1>9

-----------------------------------------------------------------------------
(* What a record is that the verifier reports nothing about.               *)

LEMMA NoErrorParts ==
  ASSUME NEW r, NEW j, Errors(r, j) = {}
  PROVE  /\ WellFormed(r)
         /\ LineageErrors(r) = {} /\ SubmissionErrors(r) = {} /\ DecisionErrors(r) = {}
         /\ LogErrors(r, j) = {}
         /\ r.decisionLog # None => j.decisions = r.decisionLog
         /\ MatchErrors(r, j) = {}
         /\ \A e \in AllEntries(r) : MeasurementErrors(e, j) = {}
         /\ \A v \in RecordedVersions(r) :
              ScoreErrors(r, v, j) = {} /\ ActionErrors(r, v, j) = {} /\ ArtifactErrors(r, v, j) = {}
         /\ FinalErrors(r, j) = {} /\ ClassErrors(r, j) = {} /\ RewardErrors(r, j) = {}
<1>1. WellFormed(r) /\ SemanticErrors(r) = {} /\ FileErrors(r, j) = {}
  BY DEF Errors
<1>2. LineageErrors(r) = {} /\ SubmissionErrors(r) = {} /\ DecisionErrors(r) = {}
  BY <1>1 DEF SemanticErrors
<1>3. /\ LogErrors(r, j) = {}
      /\ If(r.decisionLog # None /\ j.decisions # r.decisionLog, "file:decision_log:digest_mismatch") = {}
      /\ MatchErrors(r, j) = {}
      /\ UNION {MeasurementErrors(e, j) : e \in AllEntries(r)} = {}
      /\ UNION {ScoreErrors(r, v, j) \cup ActionErrors(r, v, j) \cup ArtifactErrors(r, v, j) : v \in RecordedVersions(r)} = {}
      /\ FinalErrors(r, j) = {} /\ ClassErrors(r, j) = {} /\ RewardErrors(r, j) = {}
  BY <1>1 DEF FileErrors
<1>4. \A e \in AllEntries(r) : MeasurementErrors(e, j) = {}
  BY <1>3
<1>5. \A v \in RecordedVersions(r) : ScoreErrors(r, v, j) \cup ActionErrors(r, v, j) \cup ArtifactErrors(r, v, j) = {}
  BY <1>3
<1>6. \A v \in RecordedVersions(r) :
        ScoreErrors(r, v, j) = {} /\ ActionErrors(r, v, j) = {} /\ ArtifactErrors(r, v, j) = {}
  BY <1>5
<1>. QED BY <1>1, <1>2, <1>3, <1>4, <1>6 DEF If

\* Every file the record is about is in the directory as it says.
LEMMA NoFileErrors ==
  ASSUME NEW r, NEW j, Errors(r, j) = {}
  PROVE  /\ j.log = r.log
         /\ r.decisionLog # None => j.decisions = r.decisionLog
         /\ j.reward = r.reward
         /\ j.main = r.final.tree /\ MethodView(j.main) = r.final.method
         /\ j.main # None /\ Digestible(j.main) /\ StageableErrors(j.main) = {}
         /\ \A v \in RecordedVersions(r) :
              /\ j.versions[v] # None /\ Digestible(j.versions[v])
              /\ j.versions[v] = r.versions[v].tree
              /\ MethodView(j.versions[v]) = r.versions[v].method
<1>1. j.log = r.log
  BY NoErrorParts DEF LogErrors
<1>2. j.reward = r.reward
  BY NoErrorParts DEF RewardErrors, If
<1>3. /\ j.main = r.final.tree /\ MethodView(j.main) = r.final.method
      /\ j.main # None /\ Digestible(j.main) /\ StageableErrors(j.main) = {}
  <2>1. FinalErrors(r, j) = {}
    BY NoErrorParts
  <2>2. j.main # None
    BY <2>1 DEF FinalErrors
  <2>3. UNION {
          If(~Digestible(j.main), "file:final_submission:symlink"),
          If(FullView(j.main) # r.final.tree, "file:final_submission:digest_mismatch"),
          If(MethodView(j.main) # r.final.method, "file:final_submission:method_tree_mismatch"),
          StageableErrors(j.main)} = {}
    BY <2>1, <2>2 DEF FinalErrors
  <2>. QED BY <2>2, <2>3 DEF If, FullView
<1>4. ASSUME NEW v \in RecordedVersions(r)
      PROVE  /\ j.versions[v] # None /\ Digestible(j.versions[v])
             /\ j.versions[v] = r.versions[v].tree
             /\ MethodView(j.versions[v]) = r.versions[v].method
  <2>1. ArtifactErrors(r, v, j) = {}
    BY NoErrorParts
  <2>2. j.versions[v] # None /\ Digestible(j.versions[v])
    BY <2>1 DEF ArtifactErrors
  <2>3. If(FullView(j.versions[v]) # r.versions[v].tree, "file:artifact:digest_mismatch")
        \cup If(MethodView(j.versions[v]) # r.versions[v].method, "file:artifact:method_tree_mismatch") = {}
    BY SMTT(30), <2>1, <2>2 DEF ArtifactErrors
  <2>. QED BY <2>2, <2>3 DEF If, FullView
<1>. QED BY <1>1, <1>2, <1>3, <1>4, NoErrorParts

\* The results an entry rests on are there, with the bytes they had, and its
\* estimate is theirs.
LEMMA NoMeasurementErrors ==
  ASSUME NEW r, NEW j, Errors(r, j) = {}, NEW e \in AllEntries(r)
  PROVE  /\ \A role \in RoleSet :
              LET at == j.results[e.body.evidence[role].at]
              IN  at # None /\ at.result = e.body.evidence[role].result
         /\ e.body.estimate = j.results[e.body.evidence["candidate"].at].result.score
                              - j.results[e.body.evidence["parent"].at].result.score
<1>. DEFINE on == [role \in RoleSet |-> j.results[e.body.evidence[role].at]]
            unresolved == UNION {EvidenceErrors(e, role, on[role]) : role \in RoleSet}
<1>1. MeasurementErrors(e, j) = {}
  BY NoErrorParts
<1>2. unresolved = {}
  BY <1>1 DEF MeasurementErrors
<1>3. Reproduced(e, on["parent"], on["candidate"]) = {}
  BY <1>1, <1>2 DEF MeasurementErrors
<1>4. ASSUME NEW role \in RoleSet PROVE on[role] # None /\ on[role].result = e.body.evidence[role].result
  <2>1. EvidenceErrors(e, role, on[role]) = {}
    BY SMTT(30), <1>2
  <2>. HIDE DEF on
  <2>. QED BY <2>1 DEF EvidenceErrors, If
<1>5. e.body.estimate = on["candidate"].result.score - on["parent"].result.score
  BY <1>3 DEF Reproduced, If
<1>. QED BY <1>4, <1>5 DEF RoleSet

-----------------------------------------------------------------------------
(* Increasing sequences of integers.                                       *)

LEMMA Increasing ==
  ASSUME NEW n \in Nat, NEW f,
         \A k \in 1 .. n : f[k] \in Int,
         \A k \in 1 .. n : k > 1 => f[k - 1] < f[k]
  PROVE  \A i, k \in 1 .. n : i < k => f[i] < f[k]
<1>. DEFINE bad == {k \in 1 .. n : \E i \in 1 .. n : i < k /\ ~(f[i] < f[k])}
<1>. SUFFICES ASSUME bad # {} PROVE FALSE
  OBVIOUS
<1>0. bad \in SUBSET Nat
  OBVIOUS
<1>1. PICK k \in bad : \A m \in bad : k <= m
  <2>. HIDE DEF bad
  <2>. QED BY <1>0, LeastElement
<1>2. PICK i \in 1 .. n : i < k /\ ~(f[i] < f[k])
  BY <1>1
<1>3. k \in 1 .. n /\ k > 1 /\ k - 1 \in 1 .. n /\ f[k - 1] < f[k]
  BY <1>1, <1>2
<1>4. i # k - 1
  BY <1>2, <1>3
<1>5. i < k - 1 /\ k - 1 \notin bad
  BY <1>1, <1>2, <1>3, <1>4
<1>6. f[i] < f[k - 1]
  BY <1>2, <1>3, <1>5
<1>7. f[i] \in Int /\ f[k - 1] \in Int /\ f[k] \in Int
  BY <1>2, <1>3
<1>. QED BY <1>2, <1>3, <1>6, <1>7

IncreasesTo(n, f) == \A i, k \in 1 .. n : i < k => f[i] < f[k]
HeldBy(m, f, n, g) == \A k \in 1 .. m : f[k] \in Int /\ \E i \in 1 .. n : g[i] = f[k]

\* Two increasing sequences with the same members are the same.
LEMMA IncreasingIsUnique ==
  ASSUME NEW m \in Nat, NEW n \in Nat, NEW f, NEW g,
         HeldBy(m, f, n, g), HeldBy(n, g, m, f), IncreasesTo(m, f), IncreasesTo(n, g)
  PROVE  m = n /\ \A k \in 1 .. m : f[k] = g[k]
<1>. USE DEF HeldBy, IncreasesTo
<1>. DEFINE bad == {k \in 1 .. m : k \in 1 .. n /\ f[k] # g[k]}
<1>1. bad = {}
  <2>. SUFFICES ASSUME bad # {} PROVE FALSE
    OBVIOUS
  <2>0. bad \in SUBSET Nat
    OBVIOUS
  <2>1. PICK k \in bad : \A i \in bad : k <= i
    <3>. HIDE DEF bad
    <3>. QED BY <2>0, LeastElement
  <2>2. k \in 1 .. m /\ k \in 1 .. n /\ f[k] # g[k] /\ \A i \in 1 .. (k - 1) : f[i] = g[i]
    BY <2>1
  <2>3. PICK i \in 1 .. n : g[i] = f[k]
    BY <2>2
  <2>4. PICK p \in 1 .. m : f[p] = g[k]
    BY <2>2
  <2>5. f[k] \in Int /\ g[k] \in Int /\ i # k /\ p # k
    BY <2>2, <2>3, <2>4
  <2>6. ~(i < k)
    BY <2>2, <2>3, <2>5
  <2>7. ~(p < k)
    BY <2>2, <2>4, <2>5
  <2>8. g[k] < f[k] /\ f[k] < g[k]
    BY <2>2, <2>3, <2>4, <2>5, <2>6, <2>7
  <2>. QED BY <2>5, <2>8
<1>2. ~(m < n)
  <2>. SUFFICES ASSUME m < n PROVE FALSE
    OBVIOUS
  <2>0. PICK p \in 1 .. n : p = m + 1
    OBVIOUS
  <2>1. PICK i \in 1 .. m : f[i] = g[p]
    BY <2>0
  <2>2. g[i] = g[p] /\ i < p /\ i \in 1 .. n
    BY SMTT(30), <1>1, <2>0, <2>1
  <2>3. g[p] \in Int
    BY DEF HeldBy
  <2>4. g[i] < g[p]
    BY <2>2 DEF IncreasesTo
  <2>. QED BY <2>2, <2>3, <2>4
<1>3. ~(n < m)
  <2>. SUFFICES ASSUME n < m PROVE FALSE
    OBVIOUS
  <2>0. PICK p \in 1 .. m : p = n + 1
    OBVIOUS
  <2>1. PICK i \in 1 .. n : g[i] = f[p]
    BY <2>0
  <2>2. f[i] = f[p] /\ i < p /\ i \in 1 .. m
    BY <1>1, <2>0, <2>1
  <2>3. f[p] \in Int
    BY DEF HeldBy
  <2>4. f[i] < f[p]
    BY <2>2 DEF IncreasesTo
  <2>. QED BY <2>2, <2>3, <2>4
<1>4. m = n
  BY <1>2, <1>3
<1>. QED BY <1>1, <1>4

=============================================================================
