---------------------------- MODULE Record_proofs ----------------------------
(***************************************************************************)
(* Theorems about Record, with their proofs.                               *)
(***************************************************************************)
EXTENDS RecordInv, Capsule_proofs

-----------------------------------------------------------------------------
(* What the verifier's checks of the decisions of a record come to.        *)

EntriesIn(r, v) == r.versions[v].decisions

LEMMA EntriesAre ==
  ASSUME NEW r \in RecordType
  PROVE  /\ RecordedVersions(r) \in SUBSET Version
         /\ \A v \in RecordedVersions(r) :
              /\ r.versions[v] \in VersionType
              /\ EntriesIn(r, v) \in Seq(EntryType)
              /\ \A k \in DOMAIN EntriesIn(r, v) : EntriesIn(r, v)[k] \in AllEntries(r)
         /\ \A e \in AllEntries(r) :
              /\ e \in EntryType
              /\ \E v \in RecordedVersions(r) : \E k \in DOMAIN EntriesIn(r, v) : e = EntriesIn(r, v)[k]
<1>1. PICK S \in SUBSET Version : r.versions \in [S -> VersionType]
  BY DEF RecordType
<1>2. RecordedVersions(r) = S
  BY <1>1 DEF RecordedVersions
<1>3. \A v \in S : r.versions[v] \in VersionType /\ EntriesIn(r, v) \in Seq(EntryType)
  BY <1>1 DEF VersionType, EntriesIn
<1>4. \A v \in S : \A k \in DOMAIN EntriesIn(r, v) : EntriesIn(r, v)[k] \in AllEntries(r)
  BY <1>2 DEF AllEntries, ToSet, EntriesIn
<1>5. ASSUME NEW e \in AllEntries(r)
      PROVE  \E v \in RecordedVersions(r) : \E k \in DOMAIN EntriesIn(r, v) : e = EntriesIn(r, v)[k]
  BY DEF AllEntries, ToSet, EntriesIn
<1>6. ASSUME NEW e \in AllEntries(r) PROVE e \in EntryType
  <2>1. PICK v \in S : \E k \in DOMAIN EntriesIn(r, v) : e = EntriesIn(r, v)[k]
    BY <1>2, <1>5
  <2>. QED BY <1>3, <2>1
<1>. QED BY <1>2, <1>3, <1>4, <1>5, <1>6

\* _check_decision_consistency, entry by entry.
LEMMA NoEntryErrors ==
  ASSUME NEW v, NEW entries, NEW k, EntryErrors(v, entries, k) = {}
  PROVE  LET e == entries[k] IN
         /\ k > 1 => ~(entries[k - 1].line >= e.line)
         /\ e.body.version = v
         /\ e.kind = "screening" <=> Screening(e.body)
         /\ e.kind = "confirmation" =>
              /\ e.body.replicates = v
              /\ e.resolves \in OpenIn(entries, k)
              /\ e.body.disposition # "provisional"
         /\ e.kind = "screening" => e.resolves = 0
<1>. DEFINE e == entries[k]
<1>1. /\ If(k > 1 /\ entries[k - 1].line >= e.line, "semantic:decision:log_line_order") = {}
      /\ If(e.body.version # v, "semantic:decision:version_mismatch") = {}
      /\ If((e.kind = "screening") # Screening(e.body), "semantic:decision:kind_mismatch") = {}
      /\ If(e.kind = "confirmation" /\ e.body.replicates # v, "semantic:decision:replicates_mismatch") = {}
      /\ If(e.kind = "confirmation" /\ e.resolves \notin OpenIn(entries, k), "semantic:decision:resolves_unknown") = {}
      /\ If(e.kind = "confirmation" /\ e.body.disposition = "provisional",
            "semantic:decision:confirmation_provisional") = {}
      /\ If(e.kind = "screening" /\ e.resolves # 0, "semantic:decision:resolves_unexpected") = {}
  BY DEF EntryErrors
<1>. QED BY <1>1 DEF If, Screening

LEMMA NonemptyHasFirst ==
  ASSUME NEW S, NEW s \in Seq(S)
  PROVE  s = <<>> <=> DOMAIN s = {}
OBVIOUS

\* A version that no line is about has nothing to be inconsistent.
LEMMA NoConsistencyErrors ==
  ASSUME NEW r \in RecordType, NEW j, Errors(r, j) = {}, NEW v \in RecordedVersions(r)
  PROVE  /\ \A k \in DOMAIN EntriesIn(r, v) : EntryErrors(v, EntriesIn(r, v), k) = {}
         /\ EntriesIn(r, v) # <<>> =>
              /\ v \in DecidedVersions(r)
              /\ r.versions[v].status \in {"submitted", DecidedStatus(EntriesIn(r, v))}
              /\ r.versions[v].status = "submitted" => DecidedStatus(EntriesIn(r, v)) # "provisional"
<1>. DEFINE E == EntriesIn(r, v)
<1>1. E \in Seq(EntryType)
  BY EntriesAre
<1>2. ASSUME E # <<>>
      PROVE  /\ v \in DecidedVersions(r)
             /\ ConsistencyErrors(v, E, r.versions[v].status) = {}
  <2>1. v \in DecidedVersions(r)
    BY <1>2 DEF DecidedVersions, EntriesIn
  <2>2. AllEntries(r) # {}
    BY <1>1, <1>2, EntriesAre, NonemptyHasFirst
  <2>3. UNION {ConsistencyErrors(w, r.versions[w].decisions, r.versions[w].status) : w \in DecidedVersions(r)} = {}
    BY <2>2, NoErrorParts DEF DecisionErrors
  <2>. QED BY <2>1, <2>3 DEF EntriesIn
<1>3. ASSUME E # <<>>
      PROVE  /\ \A k \in DOMAIN E : EntryErrors(v, E, k) = {}
             /\ r.versions[v].status \in {"submitted", DecidedStatus(E)}
             /\ r.versions[v].status = "submitted" => DecidedStatus(E) # "provisional"
  BY <1>2, <1>3 DEF ConsistencyErrors, If
<1>4. E = <<>> => DOMAIN E = {}
  OBVIOUS
<1>. QED BY <1>2, <1>3, <1>4

\* The lines of a version's entries increase.
LEMMA EntriesIncrease ==
  ASSUME NEW r \in RecordType, NEW j, Errors(r, j) = {}, NEW v \in RecordedVersions(r)
  PROVE  \A i, k \in DOMAIN EntriesIn(r, v) : i < k => EntriesIn(r, v)[i].line < EntriesIn(r, v)[k].line
<1>. DEFINE E == EntriesIn(r, v)
            f == [k \in 1 .. Len(E) |-> E[k].line]
<1>1. E \in Seq(EntryType)
  BY EntriesAre
<1>2. Len(E) \in Nat /\ DOMAIN E = 1 .. Len(E) /\ \A k \in 1 .. Len(E) : f[k] = E[k].line /\ f[k] \in Int
  <2>1. Len(E) \in Nat /\ DOMAIN E = 1 .. Len(E) /\ \A k \in 1 .. Len(E) : E[k] \in EntryType
    BY <1>1
  <2>2. \A k \in 1 .. Len(E) : E[k].line \in Nat
    BY <2>1 DEF EntryType
  <2>. HIDE DEF E
  <2>. QED BY <2>1, <2>2
<1>3. ASSUME NEW k \in 1 .. Len(E), k > 1 PROVE f[k - 1] < f[k]
  <2>1. EntryErrors(v, E, k) = {}
    BY <1>2, NoConsistencyErrors
  <2>. HIDE DEF E, f
  <2>2. ~(E[k - 1].line >= E[k].line)
    <3>1. k > 1 => ~(E[k - 1].line >= E[k].line)
      BY ONLY <2>1, NoEntryErrors
    <3>. QED BY <1>3, <3>1
  <2>3. k - 1 \in 1 .. Len(E)
    BY <1>2, <1>3
  <2>. QED BY <1>2, <1>3, <2>2, <2>3
<1>4. \A i, k \in 1 .. Len(E) : i < k => f[i] < f[k]
  <2>. HIDE DEF f, E
  <2>. QED BY <1>2, <1>3, Increasing
<1>. QED BY <1>2, <1>4

\* No line is claimed twice, and every entry is in its version's place.
LEMMA LinesAreClaimedOnce ==
  ASSUME NEW r \in RecordType, NEW j, Errors(r, j) = {},
         NEW v \in RecordedVersions(r), NEW w \in RecordedVersions(r),
         NEW i \in DOMAIN EntriesIn(r, v), NEW k \in DOMAIN EntriesIn(r, w),
         EntriesIn(r, v)[i].line = EntriesIn(r, w)[k].line
  PROVE  v = w /\ i = k
<1>1. /\ EntriesIn(r, v) \in Seq(EntryType) /\ EntriesIn(r, w) \in Seq(EntryType)
      /\ EntriesIn(r, v)[i] \in AllEntries(r)
  BY EntriesAre
<1>2. EntriesIn(r, v) # <<>> /\ EntriesIn(r, w) # <<>>
  OBVIOUS
<1>3. v \in DecidedVersions(r) /\ w \in DecidedVersions(r)
  BY <1>2 DEF DecidedVersions, EntriesIn
<1>4. If(\E a, b \in DecidedVersions(r) : a # b /\ \E e \in ToSet(r.versions[a].decisions),
           f \in ToSet(r.versions[b].decisions) : e.line = f.line, "semantic:decision:duplicate_log_line") = {}
  BY <1>1, NoErrorParts DEF DecisionErrors
<1>5. EntriesIn(r, v)[i] \in ToSet(EntriesIn(r, v)) /\ EntriesIn(r, w)[k] \in ToSet(EntriesIn(r, w))
  BY DEF ToSet
<1>6. v = w
  BY <1>3, <1>4, <1>5 DEF If, EntriesIn
<1>7. i \in Int /\ k \in Int /\ EntriesIn(r, v)[i].line \in Int
  <2>1. i \in Int /\ k \in Int
    BY <1>1
  <2>2. EntriesIn(r, v)[i] \in EntryType
    BY <1>1, EntriesAre
  <2>. QED BY <2>1, <2>2 DEF EntryType
<1>8. /\ i < k => EntriesIn(r, v)[i].line < EntriesIn(r, v)[k].line
      /\ k < i => EntriesIn(r, v)[k].line < EntriesIn(r, v)[i].line
  BY <1>6, EntriesIncrease
<1>9. i = k
  BY <1>6, <1>7, <1>8
<1>. QED BY <1>6, <1>9

-----------------------------------------------------------------------------
(* What the producer makes of a directory.                                 *)

LEMMA RanksOrder ==
  ASSUME NEW S, IsFiniteSet(S), NEW rank,
         \A x \in S : rank[x] \in Int,
         \A x, y \in S : rank[x] = rank[y] => x = y
  PROVE  /\ \A x \in S : Cardinality({y \in S : rank[y] <= rank[x]}) \in Nat
         /\ \A x, z \in S : Cardinality({y \in S : rank[y] <= rank[x]}) = Cardinality({y \in S : rank[y] <= rank[z]})
                              => x = z
<1>. DEFINE Below(x) == {y \in S : rank[y] <= rank[x]}
<1>1. ASSUME NEW x \in S PROVE IsFiniteSet(Below(x)) /\ Cardinality(Below(x)) \in Nat
  <2>1. Below(x) \in SUBSET S
    OBVIOUS
  <2>. QED BY <2>1, FS_Subset, FS_CardinalityType
<1>2. ASSUME NEW x \in S, NEW z \in S, rank[x] < rank[z] PROVE Cardinality(Below(x)) # Cardinality(Below(z))
  <2>1. Below(x) \in SUBSET Below(z) /\ z \in Below(z) /\ z \notin Below(x)
    BY <1>2
  <2>. QED BY <2>1, <1>1, FS_Subset
<1>3. ASSUME NEW x \in S, NEW z \in S, Cardinality(Below(x)) = Cardinality(Below(z)) PROVE x = z
  <2>1. ~(rank[x] < rank[z]) /\ ~(rank[z] < rank[x])
    BY <1>2, <1>3
  <2>2. rank[x] \in Int /\ rank[z] \in Int
    OBVIOUS
  <2>. QED BY <2>1, <2>2
<1>. QED BY <1>1, <1>3

\* The first block that declares a version.
LEMMA FirstLines ==
  ASSUME NEW log \in Seq(Block), NEW v \in DeclaredIn(log)
  PROVE  LineOf(log, v) \in DOMAIN log /\ LineOf(log, v) \in Nat /\ BlockOf(log, v).version = v
<1>. DEFINE at == {i \in DOMAIN log : log[i].version = v}
<1>1. at \in SUBSET Nat /\ at # {}
  BY DEF DeclaredIn
<1>2. PICK i \in at : \A k \in at : i <= k
  <2>. HIDE DEF at
  <2>. QED BY <1>1, LeastElement
<1>3. i \in DOMAIN log /\ log[i].version = v /\ \A k \in 1 .. (i - 1) : log[k].version # v
  <2>1. ASSUME NEW k \in 1 .. (i - 1) PROVE k \in DOMAIN log /\ ~(i <= k)
    BY <1>2
  <2>. QED BY <1>2, <2>1
<1>4. LineOf(log, v) \in DOMAIN log /\ log[LineOf(log, v)].version = v
  BY <1>3 DEF LineOf
<1>. QED BY <1>4 DEF BlockOf

LEMMA DeclaredIsFinite ==
  ASSUME NEW log \in Seq(Block)
  PROVE  DeclaredIn(log) \in SUBSET Version /\ IsFiniteSet(DeclaredIn(log))
<1>1. DeclaredIn(log) \in SUBSET Version
  <2>1. \A i \in DOMAIN log : log[i] \in Block
    OBVIOUS
  <2>. QED BY <2>1 DEF DeclaredIn, Block
<1>. QED BY <1>1, FS_Subset, DecisionLinesAssumption

LEMMA OrdinalsDiffer ==
  ASSUME NEW log \in Seq(Block)
  PROVE  /\ \A v \in DeclaredIn(log) : Ordinal(log, v) \in Nat
         /\ \A v, w \in DeclaredIn(log) : Ordinal(log, v) = Ordinal(log, w) => v = w
<1>. DEFINE S == DeclaredIn(log)
            rank == [v \in S |-> LineOf(log, v)]
<1>1. IsFiniteSet(S)
  BY DeclaredIsFinite
<1>2. \A v \in S : rank[v] \in Int
  BY FirstLines
<1>3. \A v, w \in S : rank[v] = rank[w] => v = w
  BY FirstLines DEF BlockOf
<1>4. \A v \in S : Ordinal(log, v) = Cardinality({w \in S : rank[w] <= rank[v]})
  <2>1. ASSUME NEW v \in S PROVE {w \in S : LineOf(log, w) <= LineOf(log, v)} = {w \in S : rank[w] <= rank[v]}
    OBVIOUS
  <2>. QED BY <2>1 DEF Ordinal
<1>. HIDE DEF S, rank
<1>5. /\ \A v \in S : Cardinality({w \in S : rank[w] <= rank[v]}) \in Nat
      /\ \A v, w \in S : Cardinality({y \in S : rank[y] <= rank[v]}) = Cardinality({y \in S : rank[y] <= rank[w]}) => v = w
  BY <1>1, <1>2, <1>3, RanksOrder
<1>6. /\ \A v \in S : Ordinal(log, v) \in Nat
      /\ \A v, w \in S : Ordinal(log, v) = Ordinal(log, w) => v = w
  BY <1>4, <1>5
<1>. QED BY <1>6 DEF S

\* A class of declared versions in the order of their ordinals.
LEMMA ByOrdinalEnumerates ==
  ASSUME NEW log \in Seq(Block), NEW class \in SUBSET DeclaredIn(log)
  PROVE  /\ Cardinality(class) \in Nat
         /\ ByOrdinal(log, class) \in [1 .. Cardinality(class) -> class]
         /\ \A v \in class : \E k \in 1 .. Cardinality(class) : ByOrdinal(log, class)[k] = v
         /\ ByOrdinal(log, class) \in Seq(class)
         /\ Len(ByOrdinal(log, class)) = Cardinality(class)
<1>. DEFINE rank == [v \in class |-> Ordinal(log, v)]
<1>1. IsFiniteSet(class)
  BY DeclaredIsFinite, FS_Subset
<1>2. \A v \in class : rank[v] \in Int
  BY OrdinalsDiffer
<1>3. \A v, w \in class : rank[v] = rank[w] => v = w
  BY OrdinalsDiffer
<1>. HIDE DEF rank
<1>4. /\ Cardinality(class) \in Nat
      /\ InOrder(class, rank) \in [1 .. Cardinality(class) -> class]
      /\ \A v \in class : \E k \in 1 .. Cardinality(class) : InOrder(class, rank)[k] = v
  BY <1>1, <1>2, <1>3, InOrderEnumerates
<1>5. ByOrdinal(log, class) = InOrder(class, rank)
  BY DEF ByOrdinal, rank
<1>. HIDE DEF ByOrdinal
<1>. QED BY <1>4, <1>5

\* The entries of a version are those of its lines, in their order.
LEMMA EntriesEnumerate ==
  ASSUME NEW log \in Seq(Line), NEW v
  PROVE  LET n == Cardinality(LinesOf(log, v)) IN
         /\ n \in Nat
         /\ EntriesOf(log, v) \in [1 .. n -> {Entry(log, i) : i \in LinesOf(log, v)}]
         /\ \A i \in LinesOf(log, v) : \E k \in 1 .. n : EntriesOf(log, v)[k] = Entry(log, i)
         /\ \A i, k \in 1 .. n : i < k => EntriesOf(log, v)[i].line < EntriesOf(log, v)[k].line
<1>. DEFINE L == LinesOf(log, v)
            rank == [i \in L |-> i]
            n == Cardinality(L)
            lines == InOrder(L, rank)
<1>1. L \in SUBSET (1 .. Len(log)) /\ Len(log) \in Nat /\ L \in SUBSET DOMAIN log
  BY DEF LinesOf
<1>2. IsFiniteSet(L)
  <2>. HIDE DEF L
  <2>. QED BY <1>1, FS_Interval, FS_Subset
<1>3. (\A i \in L : rank[i] \in Int /\ rank[i] = i) /\ (\A i, k \in L : rank[i] = rank[k] => i = k)
  BY <1>1
<1>4. /\ n \in Nat
      /\ lines \in [1 .. n -> L]
      /\ \A i \in L : \E k \in 1 .. n : lines[k] = i
      /\ \A i, k \in 1 .. n : i < k => rank[lines[i]] < rank[lines[k]]
  <2>. HIDE DEF L, rank
  <2>. QED BY <1>2, <1>3, InOrderEnumerates
<1>5. EntriesOf(log, v) = [k \in DOMAIN lines |-> Entry(log, lines[k])]
  BY DEF EntriesOf
<1>. HIDE DEF lines, rank, n, L
<1>6. \A k \in 1 .. n : lines[k] \in L /\ EntriesOf(log, v)[k] = Entry(log, lines[k]) /\ Entry(log, lines[k]).line = lines[k]
  BY <1>4, <1>5 DEF Entry
<1>7. EntriesOf(log, v) \in [1 .. n -> {Entry(log, i) : i \in L}]
  BY <1>4, <1>5, <1>6
<1>8. \A i \in L : \E k \in 1 .. n : EntriesOf(log, v)[k] = Entry(log, i)
  BY <1>4, <1>6
<1>9. \A i, k \in 1 .. n : i < k => EntriesOf(log, v)[i].line < EntriesOf(log, v)[k].line
  BY SMTT(45), <1>3, <1>4, <1>6
<1>. QED BY <1>4, <1>7, <1>8, <1>9 DEF L, n

LEMMA EntryTyped ==
  ASSUME NEW log \in Seq(Line), NEW i \in DOMAIN log
  PROVE  Entry(log, i) \in EntryType
<1>1. i \in Nat /\ log[i] \in Line /\ DOMAIN log \in SUBSET Nat
  OBVIOUS
<1>2. Body(log[i]) \in {Body(l) : l \in Line}
  BY <1>1
<1>3. Resolved(log, i) \in SUBSET Nat
  BY <1>1 DEF Resolved, Earlier
<1>4. (IF Screening(log[i]) THEN 0
       ELSE IF Resolved(log, i) = {} THEN 0 ELSE CHOOSE j \in Resolved(log, i) : TRUE) \in Nat
  BY <1>3
<1>. QED BY <1>1, <1>2, <1>4 DEF Entry, EntryType

LEMMA EntriesTyped ==
  ASSUME NEW log \in Seq(Line), NEW v
  PROVE  /\ EntriesOf(log, v) \in Seq(EntryType)
         /\ Len(EntriesOf(log, v)) = Cardinality(LinesOf(log, v))
<1>. DEFINE n == Cardinality(LinesOf(log, v))
<1>1. n \in Nat /\ EntriesOf(log, v) \in [1 .. n -> {Entry(log, i) : i \in LinesOf(log, v)}]
  BY EntriesEnumerate
<1>2. {Entry(log, i) : i \in LinesOf(log, v)} \in SUBSET EntryType
  BY EntryTyped DEF LinesOf
<1>. HIDE DEF n
<1>3. EntriesOf(log, v) \in [1 .. n -> EntryType]
  BY <1>1, <1>2
<1>4. EntriesOf(log, v) \in Seq(EntryType) /\ Len(EntriesOf(log, v)) = n
  BY <1>1, <1>3
<1>. QED BY <1>4 DEF n

\* What is said of a version by its last decision.
LEMMA DecidedStatusTyped ==
  ASSUME NEW entries \in Seq(EntryType), entries # <<>>
  PROVE  DecidedStatus(entries) \in {"kept", "reverted", "provisional"}
<1>1. Last(entries) \in EntryType
  BY DEF Last
<1>2. PICK l \in Line : Last(entries).body = Body(l)
  BY <1>1 DEF EntryType
<1>3. Body(l).disposition = l.disposition
  BY DEF Body, Line
<1>4. l.disposition \in {"keep", "revert", "provisional"}
  BY DEF Line
<1>. QED BY <1>2, <1>3, <1>4 DEF DecidedStatus, StatusOf

LEMMA SnapshotsAreDeclared ==
  ASSUME NEW j \in JobDirectory, ~ProducerRefuses(j)
  PROVE  /\ Snapshots(j) \in SUBSET Version /\ Snapshots(j) \in SUBSET DeclaredIn(j.log)
         /\ j.log \in Seq(Block) /\ j.decisions \in Optional(Seq(Line)) /\ j.main \in Tree
         /\ Matches(j) \in SUBSET DeclaredIn(j.log) /\ Matches(j) # {} /\ Matches(j) \in SUBSET Version
         /\ \A v \in Snapshots(j) : j.versions[v] \in Tree
         /\ j.decisions # None => j.decisions \in Seq(Line) /\ ProducerReads(j.decisions)
<1>1. Snapshots(j) \in SUBSET DeclaredIn(j.log) /\ j.main # None /\ Matches(j) # {}
  BY DEF ProducerRefuses
<1>2. j.log \in Seq(Block) /\ j.decisions \in Optional(Seq(Line)) /\ j.main \in Tree /\ j.versions \in [Version -> Optional(Tree)]
  BY <1>1 DEF JobDirectory, Optional
<1>3. j.decisions # None => j.decisions \in Seq(Line) /\ ProducerReads(j.decisions)
  BY <1>2 DEF Optional, ProducerRefuses
<1>. QED BY <1>1, <1>2, <1>3 DEF Snapshots, Matches, Optional

LEMMA TreeViews ==
  ASSUME NEW tree \in Tree
  PROVE  FullView(tree) \in Tree /\ MethodView(tree) \in MethodTree
BY DEF FullView, MethodView, Tree, MethodTree

LEMMA VersionTyped ==
  ASSUME NEW j \in JobDirectory, ~ProducerRefuses(j), NEW v \in Snapshots(j)
  PROVE  VersionIn(j, v) \in VersionType
<1>1. /\ v \in Version /\ v \in DeclaredIn(j.log) /\ j.log \in Seq(Block) /\ j.decisions \in Optional(Seq(Line))
      /\ j.versions[v] \in Tree /\ Snapshots(j) \in SUBSET Version
  BY SnapshotsAreDeclared
<1>2. Ordinal(j.log, v) \in Nat /\ LineOf(j.log, v) \in DOMAIN j.log /\ LineOf(j.log, v) \in Nat
  BY <1>1, OrdinalsDiffer, FirstLines
<1>3. BlockOf(j.log, v) \in Block
  BY <1>1, <1>2 DEF BlockOf
<1>4. ParentsOf(j, v) \in SUBSET Version
  BY <1>3 DEF ParentsOf, Block
<1>5. Recorded(j, v) \in SUBSET Version /\ Unsnapshotted(j, v) \in SUBSET Version
  BY <1>4 DEF Recorded, Unsnapshotted
<1>6. (IF j.decisions = None THEN <<>> ELSE EntriesOf(j.decisions, v)) \in Seq(EntryType)
  BY <1>1, EntriesTyped DEF Optional
<1>7. StatusIn(j, v) \in Statuses \cup {"none", "provisional"}
  <2>1. BlockOf(j.log, v).status \in Statuses \cup {"none"}
    BY <1>3 DEF Block
  <2>2. j.decisions # None /\ EntriesOf(j.decisions, v) # <<>>
        => DecidedStatus(EntriesOf(j.decisions, v)) \in {"kept", "reverted", "provisional"}
    BY <1>6, DecidedStatusTyped
  <2>. QED BY <2>1, <2>2 DEF StatusIn, Statuses
<1>8. BlockOf(j.log, v).score \in Optional(Int)
  BY <1>3 DEF Block, Optional
<1>. QED BY <1>1, <1>2, <1>5, <1>6, <1>7, <1>8, TreeViews DEF VersionIn, VersionType

LEMMA ProducedTyped ==
  ASSUME NEW j \in JobDirectory, ~ProducerRefuses(j)
  PROVE  Produced(j) \in RecordType
<1>1. [v \in Snapshots(j) |-> VersionIn(j, v)] \in UNION {[S -> VersionType] : S \in SUBSET Version}
  BY SnapshotsAreDeclared, VersionTyped
<1>2. MainClass(j) \in Seq(Version) /\ Head(MainClass(j)) \in Version
  <2>1. /\ Cardinality(Matches(j)) \in Nat /\ MainClass(j) \in Seq(Matches(j)) /\ Len(MainClass(j)) = Cardinality(Matches(j))
        /\ MainClass(j) \in [1 .. Cardinality(Matches(j)) -> Matches(j)]
        /\ \E k \in 1 .. Cardinality(Matches(j)) : TRUE
    BY SnapshotsAreDeclared, ByOrdinalEnumerates DEF MainClass
  <2>2. Len(MainClass(j)) > 0
    BY <2>1
  <2>3. Matches(j) \in SUBSET Version
    BY SnapshotsAreDeclared
  <2>. HIDE DEF MainClass, Matches
  <2>. QED BY <2>1, <2>2, <2>3
<1>3. FullView(j.main) \in Tree /\ MethodView(j.main) \in MethodTree
  BY SnapshotsAreDeclared, TreeViews
<1>4. j.log \in Seq(Block) /\ j.decisions \in Optional(Seq(Line)) /\ j.reward \in Rewards \cup {"absent", "text"}
  BY DEF JobDirectory
<1>5. (IF j.decisions = None THEN None ELSE j.decisions[1].unit) \in Optional({"unit", "other"})
  <2>1. ASSUME j.decisions # None PROVE j.decisions[1].unit \in {"unit", "other"}
    <3>1. j.decisions \in Seq(Line) /\ j.decisions # <<>>
      BY <2>1, SnapshotsAreDeclared DEF ProducerReads
    <3>2. j.decisions[1] \in Line
      BY <3>1
    <3>. QED BY <3>2 DEF Line
  <2>. QED BY <2>1 DEF Optional
<1>. QED BY <1>1, <1>2, <1>3, <1>4, <1>5 DEF Produced, RecordType

-----------------------------------------------------------------------------
(* What the rollout leaves is of the types.                                *)

LEMMA NoneIsApart ==
  /\ \A t \in Tree : t # None
  /\ \A p \in MethodTree : p # None
  /\ \A n \in Int : n # None
  /\ None \notin {"profile", "unit", "other"} /\ None \notin Version
  /\ None \notin Measured /\ None \notin Suite /\ None \notin Receipt /\ None \notin Plan
  /\ None \notin Seq(Line) /\ None \notin Line
BY RecordAssumption, DecisionLinesAssumption DEF MethodTree

LEMMA MeasurementTyped ==
  ASSUME NEW policy \in MethodTree, NEW suite \in Suite, NEW score \in Int
  PROVE  Measurement(policy, suite, score) \in Measured
BY DEF Measurement, Measured, Result, Receipt, Optional

LEMMA SuitesTyped ==
  /\ VisibleSuite \in Suite
  /\ \A n \in Nat : SuiteNo(n) \in Suite
BY DEF VisibleSuite, SuiteNo, Suite, Optional

LEMMA MeasuredIsSomething == \A m \in Measured : m.result \in Result /\ m.receipt \in Optional(Receipt)
BY DEF Measured

LEMMA VerdictTyped ==
  ASSUME NEW estimate \in Int
  PROVE  GateVerdict(estimate) \in {"clears", "below", "inconclusive"}
BY DEF GateVerdict

LEMMA NewLineTyped ==
  ASSUME NEW j \in JobDirectory, NEW v \in Snapshots(j), NEW parent \in Snapshots(j),
         NEW places \in [RoleSet -> Places], \A r \in RoleSet : j.results[places[r]] # None,
         NEW gated \in BOOLEAN
  PROVE  /\ NewLine(j, v, parent, places, gated) \in Line
         /\ NewLine(j, v, parent, places, gated).version = v /\ NewLine(j, v, parent, places, gated).parent = parent
         /\ gated => NewLine(j, v, parent, places, gated).tree \in MethodTree
         /\ NewLine(j, v, parent, places, gated).profile = IF gated THEN "profile" ELSE None
<1>. DEFINE evidence == EvidenceAt(j.results, places, gated)
            tree(w) == IF gated THEN MethodView(j.versions[w]) ELSE None
            number == IF j.decisions = None THEN 1 ELSE Len(j.decisions) + 1
<1>1. /\ j.results \in [Places -> Optional(Measured)] /\ j.versions \in [Version -> Optional(Tree)]
      /\ j.decisions \in Optional(Seq(Line))
  BY DEF JobDirectory
<1>2. ASSUME NEW r \in RoleSet PROVE j.results[places[r]] \in Measured
  BY <1>1 DEF Optional
<1>3. ASSUME NEW r \in RoleSet
      PROVE  j.results[places[r]].result \in Result /\ j.results[places[r]].receipt \in Optional(Receipt)
  BY <1>2, MeasuredIsSomething
<1>4. evidence \in [RoleSet -> Evidence]
  BY <1>3 DEF EvidenceAt, Evidence, Optional
<1>5. EstimateOf(evidence) \in Int
  <2>1. evidence["candidate"] \in Evidence /\ evidence["parent"] \in Evidence
    BY <1>4 DEF RoleSet
  <2>. HIDE DEF evidence
  <2>2. evidence["candidate"].result \in Result /\ evidence["parent"].result \in Result
    BY <2>1 DEF Evidence
  <2>3. evidence["candidate"].result.score \in Int /\ evidence["parent"].result.score \in Int
    BY <2>2 DEF Result
  <2>. QED BY <2>3 DEF EstimateOf
<1>6. ASSUME NEW w \in Snapshots(j) PROVE w \in Version /\ MethodView(j.versions[w]) \in MethodTree
  BY <1>1, TreeViews DEF Snapshots, Optional
<1>7. \A w \in Snapshots(j) : tree(w) \in Optional(MethodTree)
  BY <1>6 DEF Optional
<1>8. number \in Nat
  BY <1>1 DEF Optional
<1>9. NewLine(j, v, parent, places, gated) =
        [num |-> number, unit |-> "unit", version |-> v, parent |-> parent, replicates |-> None,
         estimate |-> EstimateOf(evidence), verdict |-> GateVerdict(EstimateOf(evidence)),
         disposition |-> "revert", sample |-> 2, profile |-> IF gated THEN "profile" ELSE None,
         plan |-> None, suite |-> None, look |-> None,
         parentTree |-> tree(parent), tree |-> tree(v), evidence |-> evidence]
  BY DEF NewLine
<1>10. GateVerdict(EstimateOf(evidence)) \in {"clears", "below", "inconclusive"}
  BY <1>5, VerdictTyped
<1>11. v \in Version /\ parent \in Version
  BY <1>6
<1>. HIDE DEF evidence, number, NewLine
<1>12. tree(parent) \in Optional(MethodTree) /\ tree(v) \in Optional(MethodTree) /\ (gated => tree(v) \in MethodTree)
  BY <1>6, <1>7
<1>. HIDE DEF tree
<1>. QED BY <1>4, <1>5, <1>8, <1>9, <1>10, <1>11, <1>12 DEF Line, Optional

LEMMA WithVersionTyped ==
  ASSUME NEW j \in JobDirectory, NEW v \in Version, NEW policy \in Policy \ Oversized,
         NEW score \in Int, NEW block \in Block,
         NEW k, k = WithVersion(j, v, policy, score, block)
  PROVE  /\ k \in JobDirectory
         /\ k.decisions = j.decisions /\ k.log \in Seq(Block) \ {<<>>} /\ k.log = Append(j.log, block)
         /\ Snapshots(k) = Snapshots(j) \cup {v}
         /\ k.results[<<v, "visible">>] # None
         /\ \A p \in Places : j.results[p] # None => k.results[p] # None
<1>. DEFINE m == Measurement(policy, VisibleSuite, score)
<1>1. m \in Measured /\ m # None
  <2>1. policy \in MethodTree
    BY DEF MethodTree
  <2>. QED BY <2>1, SuitesTyped, MeasurementTyped, NoneIsApart
<1>2. Clean(policy) \in Tree /\ Clean(policy) # None
  <2>1. Clean(policy) \in Tree
    BY DEF Clean, Tree
  <2>. QED BY <2>1, NoneIsApart
<1>3. <<v, "visible">> \in Places
  BY DEF Places
<1>4. k = [j EXCEPT !.versions = [@ EXCEPT ![v] = Clean(policy)], !.log = Append(@, block),
                    !.results = [@ EXCEPT ![<<v, "visible">>] = m]]
  BY DEF WithVersion, m
<1>5. /\ j.versions \in [Version -> Optional(Tree)] /\ j.results \in [Places -> Optional(Measured)]
      /\ j.log \in Seq(Block)
  BY DEF JobDirectory
<1>. HIDE DEF m
<1>6. /\ k.versions = [j.versions EXCEPT ![v] = Clean(policy)]
      /\ k.results = [j.results EXCEPT ![<<v, "visible">>] = m]
      /\ k.log = Append(j.log, block) /\ k.decisions = j.decisions
      /\ k.stray = j.stray /\ k.main = j.main /\ k.reward = j.reward
  BY <1>4 DEF JobDirectory
<1>7. k.versions \in [Version -> Optional(Tree)] /\ k.results \in [Places -> Optional(Measured)]
  BY ZenonT(60), <1>1, <1>2, <1>5, <1>6 DEF Optional
<1>8. k.log \in Seq(Block) \ {<<>>}
  <2>1. ASSUME NEW s \in Seq(Block) PROVE Append(s, block) \in Seq(Block) /\ Append(s, block) # <<>>
    <3>1. Append(s, block) \in Seq(Block) /\ Len(Append(s, block)) = Len(s) + 1 /\ Len(s) \in Nat
      OBVIOUS
    <3>. QED BY <3>1
  <2>. QED BY <1>5, <1>6, <2>1
<1>9. k \in JobDirectory
  <2>1. k = [versions |-> k.versions, stray |-> k.stray, log |-> k.log, decisions |-> k.decisions,
             results |-> k.results, main |-> k.main, reward |-> k.reward]
    BY <1>4 DEF JobDirectory
  <2>2. k.stray \in BOOLEAN /\ k.decisions \in Optional(Seq(Line)) /\ k.main \in Optional(Tree) /\ k.reward \in Rewards \cup {"absent", "text"}
    BY <1>6 DEF JobDirectory
  <2>. QED BY <2>1, <2>2, <1>7, <1>8 DEF JobDirectory
<1>10. Snapshots(k) = Snapshots(j) \cup {v}
  BY <1>2, <1>5, <1>6 DEF Snapshots
<1>11. k.results[<<v, "visible">>] # None /\ \A p \in Places : j.results[p] # None => k.results[p] # None
  BY <1>1, <1>3, <1>5, <1>6
<1>. QED BY <1>6, <1>8, <1>9, <1>10, <1>11

LEMMA SaysTyped ==
  ASSUME NEW block \in Block, NEW disposition \in {"keep", "revert", "provisional"}
  PROVE  Says(block, disposition) \in Block
<1>1. CASE disposition = "keep"
  BY <1>1 DEF Says, Block, Statuses
<1>2. CASE disposition = "revert"
  BY <1>2 DEF Says, Block, Statuses
<1>3. CASE disposition = "provisional"
  BY <1>3 DEF Says, Block, Statuses
<1>. QED BY <1>1, <1>2, <1>3

LEMMA NewBlockTyped ==
  ASSUME NEW v \in Version, NEW parent \in Version \cup {None}, NEW score \in Int
  PROVE  NewBlock(v, parent, score) \in Block
BY DEF NewBlock, Block

LEMMA NextIsAVersion ==
  ASSUME mode \in Modes, MayTry(job)
  PROVE  NextVersion(job) \in Version
<1>1. NextVersion(job) + 1 \in DOMAIN Budget[mode]
  BY DEF MayTry
<1>2. PICK n \in DOMAIN Budget[mode] : n = NextVersion(job) + 1 /\ n - 1 \in Version
  BY <1>1, RecordAssumption
<1>3. NextVersion(job) \in Int
  <2>1. Snapshots(job) \in SUBSET Version
    BY DEF Snapshots
  <2>2. IsFiniteSet(Snapshots(job))
    BY <2>1, FS_Subset, DecisionLinesAssumption
  <2>. QED BY <2>2, FS_CardinalityType DEF NextVersion
<1>. QED BY <1>2, <1>3

LEMMA LastSaysTyped ==
  ASSUME NEW log \in Seq(Block) \ {<<>>}, NEW disposition \in {"keep", "revert", "provisional"}
  PROVE  LastSays(log, disposition) \in Seq(Block)
<1>1. Len(log) \in DOMAIN log /\ log[Len(log)] \in Block
  OBVIOUS
<1>2. Says(log[Len(log)], disposition) \in Block
  BY <1>1, SaysTyped
<1>. QED BY <1>1, <1>2 DEF LastSays

LEMMA PlansTyped == Plans \subseteq Plan
<1>1. [size |-> 2, planned |-> 2, exploratory |-> FALSE] \in Plan
  BY DEF Plan
<1>2. [size |-> 1, planned |-> 2, exploratory |-> TRUE] \in Plan
  BY DEF Plan
<1>. QED BY <1>1, <1>2 DEF Plans

\* The line of a screening, as it is written.
LEMMA ScreeningLineTyped ==
  ASSUME NEW j \in JobDirectory, NEW v \in Snapshots(j), NEW parent \in Snapshots(j),
         j.results[<<v, "visible">>] # None, j.results[<<parent, "visible">>] # None,
         NEW line \in ScreeningLines(j, v, parent)
  PROVE  /\ line \in Line /\ line.version = v /\ line.parent = parent
         /\ line.disposition = "provisional" /\ Gated(line) => line.suite # None
<1>. DEFINE gated == mode = "gated"
            new == NewLine(j, v, parent, VisiblePlaces(v, parent), gated)
            screened == [new EXCEPT !.disposition = GateScreens(new.verdict, gated)]
<1>1. v \in Version /\ parent \in Version
  BY DEF Snapshots
<1>2. /\ VisiblePlaces(v, parent) \in [RoleSet -> Places]
      /\ \A r \in RoleSet : j.results[VisiblePlaces(v, parent)[r]] # None
  BY <1>1 DEF VisiblePlaces, RoleSet, Places
<1>3. /\ new \in Line /\ new.version = v /\ new.parent = parent
      /\ gated => new.tree \in MethodTree
      /\ new.profile = IF gated THEN "profile" ELSE None
  <2>1. gated \in BOOLEAN
    OBVIOUS
  <2>. HIDE DEF VisiblePlaces, gated
  <2>. QED BY <1>2, <2>1, NewLineTyped
<1>4. line \in IF screened.disposition = "provisional" /\ gated
               THEN {Planned(screened, plan, Looks(j)) : plan \in Plans}
               ELSE {screened}
  BY DEF ScreeningLines
<1>. HIDE DEF new
<1>5. GateScreens(new.verdict, gated) \in {"keep", "revert", "provisional"}
  BY DEF GateScreens
<1>6. screened \in Line /\ screened.version = v /\ screened.parent = parent /\ screened.tree = new.tree
      /\ screened.profile = new.profile
  BY <1>3, <1>5 DEF Line
<1>7. CASE screened.disposition = "provisional" /\ gated
  <2>1. PICK plan \in Plans : line = Planned(screened, plan, Looks(j))
    BY <1>4, <1>7
  <2>2. plan \in Plan
    BY <2>1, PlansTyped
  <2>3. Looks(j) \in Nat
    <3>1. ASSUME j.decisions # None
          PROVE  Cardinality({i \in DOMAIN j.decisions : ~Screening(j.decisions[i])}) \in Nat
      <4>1. j.decisions \in Seq(Line)
        BY <3>1 DEF JobDirectory, Optional
      <4>2. {i \in DOMAIN j.decisions : ~Screening(j.decisions[i])} \in SUBSET (1 .. Len(j.decisions)) /\ Len(j.decisions) \in Nat
        BY <4>1
      <4>3. IsFiniteSet(1 .. Len(j.decisions))
        <5>1. \A n \in Nat : IsFiniteSet(1 .. n)
          BY FS_Interval
        <5>. QED BY <4>2, <5>1
      <4>4. IsFiniteSet({i \in DOMAIN j.decisions : ~Screening(j.decisions[i])})
        BY <4>2, <4>3, FS_Subset
      <4>. QED BY <4>4, FS_CardinalityType
    <3>. QED BY <3>1 DEF Looks
  <2>4. screened.tree \in MethodTree
    BY <1>3, <1>6, <1>7
  <2>. HIDE DEF screened
  <2>5. [of |-> screened.tree, look |-> Looks(j), size |-> plan.size] \in Suite
    BY <2>2, <2>3, <2>4 DEF Suite, Plan, Optional
  <2>6. [of |-> screened.tree, look |-> Looks(j), size |-> plan.size] # None
    BY <2>5, NoneIsApart
  <2>7. CASE plan.exploratory
    <3>1. line = [screened EXCEPT !.plan = plan, !.disposition = "revert"]
      BY <2>1, <2>7 DEF Planned
    <3>. QED BY <3>1, <1>6, <2>2 DEF Line, Optional
  <2>8. CASE ~plan.exploratory
    <3>1. line = [screened EXCEPT !.plan = plan, !.look = Looks(j),
                     !.suite = [of |-> screened.tree, look |-> Looks(j), size |-> plan.size]]
      BY <2>1, <2>8 DEF Planned
    <3>. QED BY <3>1, <1>6, <2>2, <2>3, <2>5, <2>6 DEF Line, Optional
  <2>. QED BY <2>7, <2>8
<1>8. CASE ~(screened.disposition = "provisional" /\ gated)
  <2>1. line = screened
    BY <1>4, <1>8
  <2>2. Gated(line) => gated
    BY <1>3, <1>6, <2>1 DEF Gated
  <2>. QED BY <1>6, <1>8, <2>1, <2>2
<1>. QED BY <1>7, <1>8

\* Only a provisional decision leaves a block open.
LEMMA UndecidedIsProvisional ==
  ASSUME NEW j \in JobDirectory, ~Undecided(j), NEW log, NEW block \in Block, NEW disposition \in {"keep", "revert", "provisional"},
         log = LastSays(Append(j.log, block), disposition),
         disposition # "provisional"
  PROVE  \A i \in DOMAIN log : log[i].status # "none"
<1>1. j.log \in Seq(Block)
  BY DEF JobDirectory
<1>2. /\ DOMAIN log = 1 .. (Len(j.log) + 1) /\ Len(j.log) \in Nat
      /\ \A i \in 1 .. Len(j.log) : log[i] = j.log[i]
      /\ log[Len(j.log) + 1] = Says(block, disposition)
  <2>. DEFINE L == Append(j.log, block)
  <2>1. /\ L \in Seq(Block) /\ Len(L) = Len(j.log) + 1 /\ Len(j.log) \in Nat /\ DOMAIN L = 1 .. (Len(j.log) + 1)
        /\ \A i \in 1 .. Len(j.log) : L[i] = j.log[i]
        /\ L[Len(j.log) + 1] = block
    BY <1>1
  <2>2. log = [L EXCEPT ![Len(j.log) + 1] = Says(L[Len(j.log) + 1], disposition)]
    BY <2>1 DEF LastSays
  <2>. HIDE DEF L
  <2>. QED BY <2>1, <2>2
<1>3. Says(block, disposition).status # "none"
  BY DEF Says, Block
<1>4. \A i \in 1 .. Len(j.log) : j.log[i].status # "none"
  BY <1>1 DEF Undecided
<1>. QED BY <1>2, <1>3, <1>4

LEMMA AppendedUndecided ==
  ASSUME NEW j, NEW k, NEW block, j.log \in Seq(Block), block \in Block, k.log = Append(j.log, block),
         block.status # "none", Undecided(k)
  PROVE  Undecided(j)
<1>1. PICK i \in DOMAIN k.log : k.log[i].status = "none"
  BY DEF Undecided
<1>2. /\ DOMAIN k.log = 1 .. (Len(j.log) + 1) /\ Len(j.log) \in Nat /\ DOMAIN j.log = 1 .. Len(j.log)
      /\ \A n \in 1 .. Len(j.log) : k.log[n] = j.log[n]
      /\ k.log[Len(j.log) + 1] = block
  OBVIOUS
<1>3. i \in DOMAIN j.log /\ k.log[i] = j.log[i]
  BY <1>1, <1>2
<1>. QED BY <1>1, <1>3 DEF Undecided

-----------------------------------------------------------------------------
(* The steps of the rollout.                                               *)

LEMMA InheritStep ==
  ASSUME IInv, Inherit
  PROVE  job' \in JobDirectory /\ RolloutLeaves'
<1>1. /\ phase = "rollout" /\ Snapshots(job) = {} /\ job \in JobDirectory /\ RolloutLeaves
      /\ mode' = mode /\ phase' = phase
  BY DEF IInv, TypeOK, Inherit
<1>2. PICK policy \in Policy \ Oversized, score \in Scores :
        job' = WithVersion(job, 0, policy, score, [NewBlock(0, None, score) EXCEPT !.status = "baseline"])
  BY DEF Inherit
<1>. DEFINE block == [NewBlock(0, None, score) EXCEPT !.status = "baseline"]
<1>3. 0 \in Version /\ score \in Int
  BY RecordAssumption
<1>4. block \in Block /\ block.status = "baseline"
  <2>1. NewBlock(0, None, score) \in Block
    BY <1>3, NewBlockTyped
  <2>. QED BY <2>1 DEF Block, Statuses
<1>5. /\ job' \in JobDirectory /\ job'.decisions = job.decisions /\ job'.log = Append(job.log, block)
      /\ Snapshots(job') = {0} /\ job'.results[<<0, "visible">>] # None
  <2>1. job' = WithVersion(job, 0, policy, score, block)
    BY <1>2
  <2>. HIDE DEF block
  <2>. QED BY <1>1, <2>1, <1>3, <1>4, WithVersionTyped
<1>. HIDE DEF block
<1>6. ASSUME job.decisions # None PROVE job.decisions = <<>>
  <2>1. job.decisions \in Seq(Line)
    BY <1>1, <1>6 DEF JobDirectory, Optional
  <2>2. \A i \in DOMAIN job.decisions : {job.decisions[i].version, job.decisions[i].parent} \subseteq {}
    BY <1>1, <1>6 DEF RolloutLeaves
  <2>3. DOMAIN job.decisions = {}
    BY <2>2
  <2>. QED BY <2>1, <2>3, NonemptyHasFirst
<1>7. ASSUME Undecided(job') PROVE mode = "none"
  <2>1. Undecided(job)
    BY <1>1, <1>4, <1>5, <1>7, AppendedUndecided DEF JobDirectory
  <2>. QED BY <1>1, <1>6, <2>1 DEF RolloutLeaves
<1>8. RolloutLeaves'
  <2>1. \A v \in Snapshots(job') : job'.results[<<v, "visible">>] # None
    BY <1>5
  <2>2. job'.decisions # None => \A i \in DOMAIN job'.decisions : FALSE
    BY <1>5, <1>6
  <2>3. Undecided(job') => mode' = "none"
    BY <1>1, <1>7
  <2>. QED BY <2>1, <2>2, <2>3 DEF RolloutLeaves
<1>. QED BY <1>5, <1>8

LEMMA TryStep ==
  ASSUME IInv, Try
  PROVE  job' \in JobDirectory /\ RolloutLeaves'
<1>1. /\ phase = "rollout" /\ job \in JobDirectory /\ RolloutLeaves /\ MayTry(job)
      /\ mode \in Modes /\ mode' = mode /\ phase' = phase
  BY DEF IInv, TypeOK, Try
<1>. DEFINE v == NextVersion(job)
<1>2. PICK parent \in Standing(job), policy \in Policy \ Oversized, disposition \in {"keep", "revert"} :
        job' = WithVersion(job, v, policy, 0, Says(NewBlock(v, parent, 0), disposition))
  BY DEF Try, AgentMay
<1>3. v \in Version /\ parent \in Version
  BY <1>1, NextIsAVersion DEF Standing, Snapshots
<1>. HIDE DEF v
<1>. DEFINE block == Says(NewBlock(v, parent, 0), disposition)
<1>4. block \in Block /\ block.status # "none"
  <2>1. NewBlock(v, parent, 0) \in Block
    BY <1>3, NewBlockTyped
  <2>2. block.status # "none"
    BY <2>1 DEF Says, Block
  <2>. QED BY <2>1, <2>2, SaysTyped
<1>. HIDE DEF block
<1>5. /\ job' \in JobDirectory /\ job'.decisions = job.decisions /\ job'.log = Append(job.log, block)
      /\ Snapshots(job') = Snapshots(job) \cup {v} /\ job'.results[<<v, "visible">>] # None
      /\ \A p \in Places : job.results[p] # None => job'.results[p] # None
  <2>1. job' = WithVersion(job, v, policy, 0, block)
    BY <1>2 DEF block
  <2>. QED BY <1>1, <1>3, <1>4, <2>1, WithVersionTyped
<1>6. \A w \in Snapshots(job) : <<w, "visible">> \in Places
  BY DEF Snapshots, Places
<1>7. RolloutLeaves'
  <2>1. \A w \in Snapshots(job') : job'.results[<<w, "visible">>] # None
    BY <1>1, <1>5, <1>6 DEF RolloutLeaves
  <2>2. job'.decisions # None =>
          \A i \in DOMAIN job'.decisions : {job'.decisions[i].version, job'.decisions[i].parent} \subseteq Snapshots(job')
    BY <1>1, <1>5 DEF RolloutLeaves
  <2>3. ~Undecided(job')
    <3>1. job.log \in Seq(Block) /\ ~Undecided(job)
      BY <1>1 DEF JobDirectory, MayTry
    <3>. QED BY <1>4, <1>5, <3>1, AppendedUndecided
  <2>. QED BY <1>1, <2>1, <2>2, <2>3 DEF RolloutLeaves
<1>. QED BY <1>5, <1>7

LEMMA AppendLine ==
  ASSUME NEW decisions \in Optional(Seq(Line)), NEW line \in Line,
         NEW D, D = WithLine(decisions, line)
  PROVE  /\ D \in Seq(Line) /\ D \in Optional(Seq(Line)) /\ D # None /\ D # <<>> /\ Last(D) = line
         /\ \A i \in DOMAIN D : D[i] = line \/ (decisions # None /\ i \in DOMAIN decisions /\ D[i] = decisions[i])
<1>1. CASE decisions = None
  <2>1. D = <<line>> /\ D \in Seq(Line) /\ Len(D) = 1 /\ D[1] = line /\ DOMAIN D = {1}
    BY <1>1 DEF WithLine
  <2>2. Last(D) = line /\ D # <<>>
    BY <2>1 DEF Last
  <2>3. D # None
    BY <2>1, NoneIsApart
  <2>. QED BY <2>1, <2>2, <2>3 DEF Optional
<1>2. CASE decisions # None
  <2>1. decisions \in Seq(Line)
    BY <1>2 DEF Optional
  <2>2. /\ D \in Seq(Line) /\ Len(D) = Len(decisions) + 1 /\ Len(decisions) \in Nat /\ D[Len(decisions) + 1] = line
        /\ DOMAIN D = 1 .. (Len(decisions) + 1) /\ DOMAIN decisions = 1 .. Len(decisions)
        /\ \A i \in 1 .. Len(decisions) : D[i] = decisions[i]
    <3>1. D = Append(decisions, line)
      BY <1>2 DEF WithLine
    <3>. QED BY <2>1, <3>1
  <2>3. Last(D) = line /\ D # <<>>
    BY <2>2 DEF Last
  <2>4. D # None
    BY <2>2, NoneIsApart
  <2>5. \A i \in DOMAIN D : D[i] = line \/ (decisions # None /\ i \in DOMAIN decisions /\ D[i] = decisions[i])
    BY <1>2, <2>2
  <2>. QED BY <2>2, <2>3, <2>4, <2>5 DEF Optional
<1>. QED BY <1>1, <1>2

LEMMA ScreenStep ==
  ASSUME IInv, Screen
  PROVE  job' \in JobDirectory /\ RolloutLeaves'
<1>1. /\ phase = "rollout" /\ job \in JobDirectory /\ RolloutLeaves /\ MayTry(job)
      /\ mode \in Modes /\ mode # "none" /\ mode' = mode /\ phase' = phase
  BY DEF IInv, TypeOK, Screen
<1>. DEFINE v == NextVersion(job)
            measuredWith(parent, policy, score) == WithVersion(job, v, policy, score, NewBlock(v, parent, score))
<1>2. PICK parent \in Standing(job), policy \in Policy \ Oversized, score \in Scores :
        \E line \in ScreeningLines(measuredWith(parent, policy, score), v, parent) :
          job' = [measuredWith(parent, policy, score) EXCEPT
                    !.decisions = WithLine(@, line), !.log = LastSays(@, line.disposition)]
  BY DEF Screen
<1>. DEFINE measured == measuredWith(parent, policy, score)
            block == NewBlock(v, parent, score)
<1>3. PICK line \in ScreeningLines(measured, v, parent) :
        job' = [measured EXCEPT !.decisions = WithLine(@, line), !.log = LastSays(@, line.disposition)]
  BY <1>2
<1>4. v \in Version /\ parent \in Version /\ parent \in Snapshots(job) /\ score \in Int
  BY <1>1, NextIsAVersion, RecordAssumption DEF Standing, Snapshots
<1>5. block \in Block
  BY <1>4, NewBlockTyped
<1>6. /\ measured \in JobDirectory /\ measured.decisions = job.decisions
      /\ measured.log \in Seq(Block) \ {<<>>} /\ measured.log = Append(job.log, block)
      /\ Snapshots(measured) = Snapshots(job) \cup {v}
      /\ measured.results[<<v, "visible">>] # None
      /\ \A p \in Places : job.results[p] # None => measured.results[p] # None
  <2>. HIDE DEF v
  <2>1. job \in JobDirectory
    BY <1>1
  <2>. QED BY ONLY SMTT(45), <1>2, <1>4, <1>5, <2>1, WithVersionTyped
<1>. HIDE DEF measured, block, v
<1>7. \A w \in Snapshots(measured) : measured.results[<<w, "visible">>] # None
  <2>1. \A w \in Snapshots(job) : <<w, "visible">> \in Places /\ job.results[<<w, "visible">>] # None
    BY <1>1 DEF RolloutLeaves, Snapshots, Places
  <2>. QED BY <1>6, <2>1
<1>8. /\ line \in Line /\ line.version = v /\ line.parent = parent
      /\ line.disposition = "provisional" /\ Gated(line) => line.suite # None
      /\ line.disposition \in {"keep", "revert", "provisional"}
  <2>1. /\ line \in Line /\ line.version = v /\ line.parent = parent
        /\ line.disposition = "provisional" /\ Gated(line) => line.suite # None
    <3>1. v \in Snapshots(measured) /\ parent \in Snapshots(measured)
      BY <1>4, <1>6
    <3>2. measured.results[<<v, "visible">>] # None /\ measured.results[<<parent, "visible">>] # None
      BY <3>1, <1>7
    <3>. QED BY <1>3, <1>6, <3>1, <3>2, ScreeningLineTyped
  <2>. QED BY <2>1 DEF Line
<1>. DEFINE D == WithLine(job.decisions, line)
            log == LastSays(measured.log, line.disposition)
<1>9. /\ job'.decisions = D /\ job'.log = log /\ job'.versions = measured.versions /\ job'.results = measured.results
      /\ job'.stray = measured.stray /\ job'.main = measured.main /\ job'.reward = measured.reward
      /\ job' = [versions |-> measured.versions, stray |-> measured.stray, log |-> log, decisions |-> D,
                 results |-> measured.results, main |-> measured.main, reward |-> measured.reward]
  <2>2. job' = [measured EXCEPT !.decisions = D, !.log = log]
    BY <1>3, <1>6
  <2>. HIDE DEF D, log
  <2>. QED BY <2>2, <1>6 DEF JobDirectory
<1>10. /\ D \in Seq(Line) /\ D \in Optional(Seq(Line)) /\ D # None /\ D # <<>> /\ Last(D) = line
       /\ \A i \in DOMAIN D : D[i] = line \/ (job.decisions # None /\ i \in DOMAIN job.decisions /\ D[i] = job.decisions[i])
  <2>1. job.decisions \in Optional(Seq(Line))
    BY <1>1 DEF JobDirectory
  <2>2. D = WithLine(job.decisions, line)
    OBVIOUS
  <2>3. line \in Line
    BY <1>8
  <2>. HIDE DEF D
  <2>. QED BY <2>1, <2>2, <2>3, AppendLine
<1>11. log \in Seq(Block)
  BY <1>6, <1>8, LastSaysTyped
<1>12. job' \in JobDirectory
  <2>. HIDE DEF D, log
  <2>. QED BY <1>6, <1>9, <1>10, <1>11 DEF JobDirectory
<1>13. ASSUME Undecided(job') PROVE line.disposition = "provisional"
  <2>1. ~Undecided(job)
    BY <1>1 DEF MayTry
  <2>2. log = LastSays(Append(job.log, block), line.disposition)
    BY <1>6
  <2>. HIDE DEF log
  <2>3. line.disposition # "provisional" => \A i \in DOMAIN log : log[i].status # "none"
    BY <1>1, <1>5, <1>8, <2>1, <2>2, UndecidedIsProvisional
  <2>. QED BY <1>9, <1>13, <2>3 DEF Undecided
<1>. HIDE DEF D, log
<1>14. RolloutLeaves'
  <2>1. Snapshots(job') = Snapshots(job) \cup {v}
    BY <1>6, <1>9 DEF Snapshots
  <2>2. \A w \in Snapshots(job') : job'.results[<<w, "visible">>] # None
    BY <1>6, <1>7, <1>9, <2>1
  <2>3. \A i \in DOMAIN job'.decisions : {job'.decisions[i].version, job'.decisions[i].parent} \subseteq Snapshots(job')
    <3>1. ASSUME NEW i \in DOMAIN D PROVE {D[i].version, D[i].parent} \subseteq Snapshots(job) \cup {v}
      <4>1. CASE D[i] = line
        BY <1>4, <1>8, <4>1
      <4>2. CASE job.decisions # None /\ i \in DOMAIN job.decisions /\ D[i] = job.decisions[i]
        BY <1>1, <4>2 DEF RolloutLeaves
      <4>. QED BY <1>10, <4>1, <4>2
    <3>. QED BY <1>9, <2>1, <3>1
  <2>4. Undecided(job') => job'.decisions \notin {None, <<>>} /\ (Gated(Last(job'.decisions)) => Last(job'.decisions).suite # None)
    BY <1>8, <1>9, <1>10, <1>13
  <2>. QED BY <2>2, <2>3, <2>4 DEF RolloutLeaves
<1>. QED BY <1>12, <1>14

LEMMA LineFacts ==
  ASSUME NEW log \in Seq(Line), log # <<>>
  PROVE  Last(log) \in Line /\ \E i \in DOMAIN log : Last(log) = log[i]
<1>1. Len(log) \in DOMAIN log /\ Last(log) = log[Len(log)]
  BY DEF Last
<1>. QED BY <1>1

\* The results of a confirmation.
ConfirmationResults(j, open, suite, score) ==
  [j EXCEPT !.results[<<open.version, "parent">>] = Measurement(MethodView(j.versions[open.parent]), suite, 0),
            !.results[<<open.version, "candidate">>] = Measurement(MethodView(j.versions[open.version]), suite, score)]

\* ... and nothing else is another.
ConfirmedOn(j, open, suite, score, k) ==
  /\ k.results[<<open.version, "parent">>] = Measurement(MethodView(j.versions[open.parent]), suite, 0)
  /\ k.results[<<open.version, "candidate">>] = Measurement(MethodView(j.versions[open.version]), suite, score)
  /\ \A p \in Places : p \notin {<<open.version, "parent">>, <<open.version, "candidate">>} => k.results[p] = j.results[p]

LEMMA ConfirmationResultsTyped ==
  ASSUME NEW j \in JobDirectory, NEW open \in Line, {open.version, open.parent} \subseteq Snapshots(j),
         NEW suite \in Suite, NEW score \in Int,
         NEW k, k = ConfirmationResults(j, open, suite, score)
  PROVE  /\ k \in JobDirectory
         /\ k.versions = j.versions /\ k.decisions = j.decisions /\ k.log = j.log
         /\ k.stray = j.stray /\ k.reward = j.reward
         /\ ConfirmedOn(j, open, suite, score, k)
         /\ k.results[<<open.version, "parent">>] # None /\ k.results[<<open.version, "candidate">>] # None
         /\ \A p \in Places : j.results[p] # None => k.results[p] # None
<1>1. /\ j.versions \in [Version -> Optional(Tree)] /\ j.results \in [Places -> Optional(Measured)]
  BY DEF JobDirectory
<1>2. ASSUME NEW v \in Snapshots(j) PROVE v \in Version /\ MethodView(j.versions[v]) \in MethodTree
  BY <1>1, TreeViews DEF Snapshots, Optional
<1>. DEFINE parent == Measurement(MethodView(j.versions[open.parent]), suite, 0)
            candidate == Measurement(MethodView(j.versions[open.version]), suite, score)
            at == <<open.version, "parent">>
            on == <<open.version, "candidate">>
<1>3. parent \in Measured /\ candidate \in Measured
  BY <1>2, MeasurementTyped
<1>4. parent # None /\ candidate # None
  BY <1>3, NoneIsApart
<1>5. at \in Places /\ on \in Places
  BY <1>2 DEF Places
<1>. HIDE DEF parent, candidate, at, on
<1>6. k = [j EXCEPT !.results[at] = parent, !.results[on] = candidate]
  BY DEF ConfirmationResults, parent, candidate, at, on
<1>7. /\ k.results = [[j.results EXCEPT ![at] = parent] EXCEPT ![on] = candidate]
      /\ k.versions = j.versions /\ k.decisions = j.decisions /\ k.log = j.log
      /\ k.stray = j.stray /\ k.main = j.main /\ k.reward = j.reward
      /\ k = [versions |-> k.versions, stray |-> k.stray, log |-> k.log, decisions |-> k.decisions,
              results |-> k.results, main |-> k.main, reward |-> k.reward]
  BY <1>6 DEF JobDirectory
<1>8. /\ k.results \in [Places -> Optional(Measured)]
      /\ k.results[at] = parent /\ k.results[on] = candidate
      /\ \A p \in Places : p \notin {at, on} => k.results[p] = j.results[p]
      /\ \A p \in Places : j.results[p] # None => k.results[p] # None
  <2>1. at # on
    BY DEF at, on
  <2>. QED BY <1>1, <1>3, <1>4, <1>5, <1>7, <2>1 DEF Optional
<1>9. k \in JobDirectory
  BY <1>7, <1>8 DEF JobDirectory
<1>. QED BY <1>4, <1>7, <1>8, <1>9 DEF ConfirmedOn, at, on, parent, candidate

LEMMA ConfirmationLineTyped ==
  ASSUME NEW j \in JobDirectory, NEW open \in Line, {open.version, open.parent} \subseteq Snapshots(j),
         j.results[<<open.version, "parent">>] # None, j.results[<<open.version, "candidate">>] # None,
         NEW line, line = ConfirmationLine(j, open)
  PROVE  /\ line \in Line /\ line.version = open.version /\ line.parent = open.parent
         /\ line.suite = open.suite /\ (Gated(line) => Gated(open))
         /\ line.disposition \in {"keep", "revert"}
<1>. DEFINE places == [r \in RoleSet |-> <<open.version, r>>]
            new == NewLine(j, open.version, open.parent, places, Gated(open))
<1>1. open.version \in Snapshots(j) /\ open.parent \in Snapshots(j) /\ open.version \in Version /\ Gated(open) \in BOOLEAN
  BY DEF Snapshots, Gated
<1>2. places \in [RoleSet -> Places] /\ \A r \in RoleSet : j.results[places[r]] # None
  BY <1>1 DEF RoleSet, Places
<1>3. /\ new \in Line /\ new.version = open.version /\ new.parent = open.parent
      /\ new.profile = IF Gated(open) THEN "profile" ELSE None
  <2>. HIDE DEF places
  <2>. QED BY <1>1, <1>2, NewLineTyped
<1>4. line = [new EXCEPT !.replicates = open.version, !.disposition = GateConfirms(new.verdict),
                         !.plan = open.plan, !.suite = open.suite, !.look = open.look]
  BY DEF ConfirmationLine
<1>. HIDE DEF new
<1>5. GateConfirms(new.verdict) \in {"keep", "revert"}
  BY DEF GateConfirms
<1>6. open.plan \in Optional(Plan) /\ open.suite \in Optional(Suite) /\ open.look \in Optional(Nat)
  BY DEF Line
<1>7. line \in Line /\ line.version = open.version /\ line.parent = open.parent /\ line.suite = open.suite
      /\ line.disposition \in {"keep", "revert"} /\ line.profile = new.profile
  <2>. DEFINE half == [new EXCEPT !.replicates = open.version, !.disposition = GateConfirms(new.verdict)]
  <2>1. half \in Line /\ half.version = open.version /\ half.parent = open.parent
        /\ half.disposition \in {"keep", "revert"} /\ half.profile = new.profile
    <3>1. open.version \in Optional(Version)
      BY <1>1 DEF Optional
    <3>. HIDE DEF places
    <3>2. [new EXCEPT !.replicates = open.version] \in Line
      BY <1>3, <3>1 DEF Line
    <3>3. half = [[new EXCEPT !.replicates = open.version] EXCEPT !.disposition = GateConfirms(new.verdict)]
      OBVIOUS
    <3>4. half \in Line
      BY <3>2, <3>3, <1>5 DEF Line
    <3>5. half.version = new.version /\ half.parent = new.parent /\ half.profile = new.profile
          /\ half.disposition = GateConfirms(new.verdict)
      BY <1>3 DEF Line
    <3>. QED BY <1>3, <1>5, <3>4, <3>5
  <2>2. line = [half EXCEPT !.plan = open.plan, !.suite = open.suite, !.look = open.look]
    BY <1>4
  <2>. HIDE DEF half
  <2>. QED BY ZenonT(60), <2>1, <2>2, <1>6 DEF Line
<1>8. Gated(line) => Gated(open)
  BY <1>3, <1>7 DEF Gated
<1>. QED BY <1>7, <1>8

LEMMA ConfirmStep ==
  ASSUME IInv, Confirm
  PROVE  job' \in JobDirectory /\ RolloutLeaves'
<1>1. /\ phase = "rollout" /\ job \in JobDirectory /\ RolloutLeaves /\ Undecided(job)
      /\ mode # "none" /\ mode' = mode /\ phase' = phase
  BY SMTT(30) DEF IInv, TypeOK, Confirm
<1>. DEFINE open == Last(job.decisions)
            suite == IF Gated(open) THEN open.suite ELSE SuiteNo(1)
            measuredWith(score) == ConfirmationResults(job, open, suite, score)
<1>2. PICK score \in Scores :
        job' = [measuredWith(score) EXCEPT !.decisions = WithLine(@, ConfirmationLine(measuredWith(score), open)),
                                           !.log = LastSays(@, ConfirmationLine(measuredWith(score), open).disposition)]
  BY ZenonT(60) DEF Confirm, ConfirmationResults
<1>3. /\ job.decisions \in Seq(Line) /\ job.decisions # <<>> /\ job.decisions # None
      /\ Gated(open) => open.suite # None
  BY <1>1 DEF RolloutLeaves, JobDirectory, Optional
<1>4. open \in Line /\ {open.version, open.parent} \subseteq Snapshots(job)
  BY <1>1, <1>3, LineFacts DEF RolloutLeaves
<1>5. suite \in Suite
  <2>1. open.suite \in Optional(Suite)
    BY <1>4 DEF Line
  <2>. QED BY <2>1, <1>3, SuitesTyped DEF Optional
<1>6. score \in Int
  BY RecordAssumption
<1>. DEFINE measured == measuredWith(score)
            line == ConfirmationLine(measured, open)
<1>. HIDE DEF open, suite
<1>7. /\ measured \in JobDirectory
      /\ measured.versions = job.versions /\ measured.decisions = job.decisions /\ measured.log = job.log
      /\ measured.results[<<open.version, "parent">>] # None /\ measured.results[<<open.version, "candidate">>] # None
      /\ \A p \in Places : job.results[p] # None => measured.results[p] # None
  BY <1>1, <1>4, <1>5, <1>6, ConfirmationResultsTyped
<1>8. job' = [measured EXCEPT !.decisions = WithLine(@, line), !.log = LastSays(@, line.disposition)]
  BY <1>2
<1>. HIDE DEF measured
<1>9. /\ line \in Line /\ line.version = open.version /\ line.parent = open.parent
      /\ line.suite = open.suite /\ (Gated(line) => Gated(open))
      /\ line.disposition \in {"keep", "revert"}
  <2>1. {open.version, open.parent} \subseteq Snapshots(measured)
    BY <1>4, <1>7 DEF Snapshots
  <2>. QED BY <2>1, <1>4, <1>7, ConfirmationLineTyped
<1>. HIDE DEF line
<1>. DEFINE D == WithLine(job.decisions, line)
            log == LastSays(job.log, line.disposition)
<1>10. /\ D \in Optional(Seq(Line)) /\ D # None /\ D # <<>> /\ Last(D) = line
       /\ \A i \in DOMAIN D : D[i] = line \/ (job.decisions # None /\ i \in DOMAIN job.decisions /\ D[i] = job.decisions[i])
  <2>1. job.decisions \in Optional(Seq(Line))
    BY <1>1 DEF JobDirectory
  <2>2. D = WithLine(job.decisions, line)
    OBVIOUS
  <2>. HIDE DEF D
  <2>. QED BY <2>1, <2>2, <1>9, AppendLine
<1>11. log \in Seq(Block)
  <2>1. job.log \in Seq(Block) \ {<<>>}
    BY <1>1 DEF JobDirectory, Undecided
  <2>. QED BY <2>1, <1>9, LastSaysTyped
<1>12. /\ job'.decisions = D /\ job'.log = log /\ job'.versions = job.versions /\ job'.results = measured.results
       /\ job' = [versions |-> measured.versions, stray |-> measured.stray, log |-> log, decisions |-> D,
                  results |-> measured.results, main |-> measured.main, reward |-> measured.reward]
  <2>1. job' = [measured EXCEPT !.decisions = D, !.log = log]
    BY <1>7, <1>8
  <2>. HIDE DEF D, log
  <2>. QED BY <2>1, <1>7 DEF JobDirectory
<1>. HIDE DEF D, log
<1>13. job' \in JobDirectory
  BY <1>7, <1>10, <1>11, <1>12 DEF JobDirectory
<1>14. RolloutLeaves'
  <2>1. Snapshots(job') = Snapshots(job)
    BY <1>12 DEF Snapshots
  <2>2. \A w \in Snapshots(job') : job'.results[<<w, "visible">>] # None
    <3>1. \A w \in Snapshots(job) : <<w, "visible">> \in Places /\ job.results[<<w, "visible">>] # None
      BY <1>1 DEF RolloutLeaves, Snapshots, Places
    <3>. QED BY <2>1, <3>1, <1>7, <1>12
  <2>3. \A i \in DOMAIN job'.decisions : {job'.decisions[i].version, job'.decisions[i].parent} \subseteq Snapshots(job')
    <3>1. ASSUME NEW i \in DOMAIN D PROVE {D[i].version, D[i].parent} \subseteq Snapshots(job)
      <4>1. CASE D[i] = line
        BY <1>4, <1>9, <4>1
      <4>2. CASE job.decisions # None /\ i \in DOMAIN job.decisions /\ D[i] = job.decisions[i]
        BY <1>1, <4>2 DEF RolloutLeaves
      <4>. QED BY <1>10, <4>1, <4>2
    <3>. QED BY <1>12, <2>1, <3>1
  <2>4. job'.decisions \notin {None, <<>>} /\ (Gated(Last(job'.decisions)) => Last(job'.decisions).suite # None)
    BY <1>3, <1>9, <1>10, <1>12
  <2>. QED BY <2>2, <2>3, <2>4 DEF RolloutLeaves
<1>. QED BY <1>13, <1>14

LEMMA HandInStep ==
  ASSUME IInv, HandIn
  PROVE  job' \in JobDirectory /\ phase' = "handed"
<1>1. job \in JobDirectory /\ phase' = "handed"
  BY DEF IInv, TypeOK, HandIn
<1>2. PICK v \in Standing(job) :
        job' = [job EXCEPT !.main = [Clean(MethodView(job.versions[v])) EXCEPT !.caches = TRUE]]
  BY DEF HandIn
<1>. DEFINE main == [Clean(MethodView(job.versions[v])) EXCEPT !.caches = TRUE]
<1>3. v \in Snapshots(job) /\ job.versions[v] \in Tree
  BY <1>1 DEF Standing, Snapshots, JobDirectory, Optional
<1>4. main \in Tree
  BY <1>3 DEF MethodView, Clean, Tree
<1>. HIDE DEF main
<1>5. job' = [job EXCEPT !.main = main]
  BY <1>2 DEF main
<1>6. job' \in JobDirectory
  BY <1>1, <1>4, <1>5 DEF JobDirectory, Optional
<1>. QED BY <1>1, <1>6

-----------------------------------------------------------------------------
(* An altered directory, and a reworded record, are of the types.          *)

LEMMA AlteredTreesTyped ==
  ASSUME NEW tree \in Optional(Tree)
  PROVE  AlteredTrees(tree) \subseteq Optional(Tree)
<1>1. \A policy \in Policy : Clean(policy) \in Tree
  BY DEF Clean, Tree
<1>2. ASSUME NEW t \in {tree} \ {None}, NEW f \in {"caches", "notes", "link"} PROVE [t EXCEPT ![f] = TRUE] \in Tree
  <2>1. t \in Tree
    BY DEF Optional
  <2>2. CASE f = "caches"
    BY <2>1, <2>2 DEF Tree
  <2>3. CASE f = "notes"
    BY <2>1, <2>3 DEF Tree
  <2>4. CASE f = "link"
    BY <2>1, <2>4 DEF Tree
  <2>. QED BY <2>2, <2>3, <2>4
<1>3. ASSUME NEW other \in AlteredTrees(tree) PROVE other \in Optional(Tree)
  <2>1. CASE other = None
    BY <2>1 DEF Optional
  <2>2. CASE other \in {Clean(policy) : policy \in Policy}
    BY <1>1, <2>2 DEF Optional
  <2>3. CASE other \in {[t EXCEPT ![f] = TRUE] : t \in {tree} \ {None}, f \in {"caches", "notes", "link"}}
    <3>1. PICK t \in {tree} \ {None}, f \in {"caches", "notes", "link"} : other = [t EXCEPT ![f] = TRUE]
      BY <2>3
    <3>. QED BY <1>2, <3>1 DEF Optional
  <2>. QED BY <2>1, <2>2, <2>3 DEF AlteredTrees
<1>. QED BY <1>3

LEMMA AlteredBlocksTyped ==
  ASSUME NEW block \in Block, NEW f \in {"parent", "status", "closing", "score"}, NEW x \in BlockValues(f)
  PROVE  [block EXCEPT ![f] = x] \in Block
<1>1. CASE f = "parent"
  BY <1>1 DEF Block, BlockValues
<1>2. CASE f = "status"
  BY <1>2 DEF Block, BlockValues
<1>3. CASE f = "closing"
  BY <1>3 DEF Block, BlockValues
<1>4. CASE f = "score"
  BY <1>4, RecordAssumption DEF Block, BlockValues
<1>. QED BY <1>1, <1>2, <1>3, <1>4

LEMMA AlteredLogsTyped ==
  ASSUME NEW log \in Seq(Block), NEW other \in AlteredLogs(log)
  PROVE  other \in Seq(Block)
<1>1. CASE other \in OneOf(log, DOMAIN log, LAMBDA i : OneOf(log[i], {"parent", "status", "closing", "score"}, BlockValues))
  <2>1. PICK i \in DOMAIN log : \E block \in OneOf(log[i], {"parent", "status", "closing", "score"}, BlockValues) :
          other = [log EXCEPT ![i] = block]
    BY <1>1 DEF OneOf
  <2>2. PICK block \in OneOf(log[i], {"parent", "status", "closing", "score"}, BlockValues) :
          other = [log EXCEPT ![i] = block]
    BY <2>1
  <2>3. PICK f \in {"parent", "status", "closing", "score"} : \E x \in BlockValues(f) : block = [log[i] EXCEPT ![f] = x]
    BY <2>2 DEF OneOf
  <2>4. log[i] \in Block
    OBVIOUS
  <2>5. block \in Block
    <3>1. PICK x \in BlockValues(f) : block = [log[i] EXCEPT ![f] = x]
      BY <2>3
    <3>. QED BY <2>4, <3>1, AlteredBlocksTyped
  <2>. QED BY <2>2, <2>5
<1>2. CASE log # <<>> /\ other = Front(log)
  <2>1. Len(log) - 1 \in Nat /\ Len(log) - 1 <= Len(log)
    BY <1>2
  <2>. QED BY <1>2, <2>1 DEF Front
<1>3. CASE log # <<>> /\ other \in {Append(log, b) : b \in OneOf(Last(log), {"status"}, BlockValues)}
  <2>1. PICK b \in OneOf(Last(log), {"status"}, BlockValues) : other = Append(log, b)
    BY <1>3
  <2>2. PICK x \in BlockValues("status") : b = [Last(log) EXCEPT !["status"] = x]
    BY <2>1 DEF OneOf
  <2>3. Last(log) \in Block
    BY <1>3 DEF Last
  <2>4. b \in Block
    BY <2>2, <2>3, AlteredBlocksTyped
  <2>. QED BY <2>1, <2>4
<1>. QED BY <1>1, <1>2, <1>3 DEF AlteredLogs

LEMMA LineValuesTyped ==
  ASSUME NEW l \in Line, NEW f \in DOMAIN l \ {"parentTree", "evidence"}, NEW x \in LineValues(f)
  PROVE  [l EXCEPT ![f] = x] \in Line
<1>1. f \in {"num", "unit", "version", "parent", "replicates", "estimate", "verdict", "disposition", "sample",
             "profile", "plan", "suite", "look", "tree"}
  BY DEF Line
<1>2. CASE f = "num"
  BY <1>2 DEF LineValues, Line
<1>3. CASE f = "unit"
  BY <1>3 DEF LineValues, Line
<1>4. CASE f = "version"
  BY <1>4 DEF LineValues, Line
<1>5. CASE f = "parent"
  BY <1>5 DEF LineValues, Line
<1>6. CASE f = "replicates"
  <2>1. x \in Optional(Version)
    BY <1>6 DEF LineValues, Optional
  <2>. QED BY <1>6, <2>1 DEF Line
<1>7. CASE f = "estimate"
  <2>1. x \in Int
    BY <1>7, RecordAssumption DEF LineValues
  <2>. QED BY <1>7, <2>1 DEF Line
<1>8. CASE f = "verdict"
  BY <1>8 DEF LineValues, Line
<1>9. CASE f = "disposition"
  BY <1>9 DEF LineValues, Line
<1>10. CASE f = "sample"
  BY <1>10 DEF LineValues, Line
<1>11. CASE f = "profile"
  <2>1. x \in Optional({"profile", "other"})
    BY <1>11 DEF LineValues, Optional
  <2>. QED BY <1>11, <2>1 DEF Line
<1>12. CASE f = "plan"
  <2>1. x \in Optional(Plan)
    BY <1>12, PlansTyped DEF LineValues, Optional
  <2>. QED BY <1>12, <2>1 DEF Line
<1>13. CASE f = "suite"
  <2>1. x \in Optional(Suite)
    BY <1>13 DEF LineValues, Optional
  <2>. QED BY <1>13, <2>1 DEF Line
<1>14. CASE f = "look"
  <2>1. x \in Optional(Nat)
    BY <1>14 DEF LineValues, Optional
  <2>. QED BY <1>14, <2>1 DEF Line
<1>15. CASE f = "tree"
  <2>1. x \in Optional(MethodTree)
    BY <1>15 DEF LineValues, Optional
  <2>. QED BY <1>15, <2>1 DEF Line
<1>. QED BY <1>1, <1>2, <1>3, <1>4, <1>5, <1>6, <1>7, <1>8, <1>9, <1>10, <1>11, <1>12, <1>13, <1>14, <1>15

LEMMA RenumberedTyped ==
  ASSUME NEW log \in Seq(Line)
  PROVE  Renumbered(log) \in Seq(Line)
<1>1. ASSUME NEW i \in DOMAIN log PROVE [log[i] EXCEPT !.num = i] \in Line
  <2>1. i \in Nat /\ log[i] \in Line
    OBVIOUS
  <2>. QED BY <2>1 DEF Line
<1>2. Renumbered(log) \in [1 .. Len(log) -> Line] /\ Len(log) \in Nat
  BY <1>1 DEF Renumbered
<1>. QED BY <1>2

LEMMA AlteredDecisionsTyped ==
  ASSUME NEW log \in Seq(Line), NEW other \in AlteredDecisions(log)
  PROVE  other \in Optional(Seq(Line))
<1>1. CASE other \in {None, <<>>}
  <2>1. <<>> \in Seq(Line)
    OBVIOUS
  <2>2. {None, <<>>} \subseteq Optional(Seq(Line))
    BY <2>1, Zenon DEF Optional
  <2>. QED BY <1>1, <2>2, Zenon
<1>2. CASE \E i \in DOMAIN log : \E l \in AlteredLines(log[i]) : other = [log EXCEPT ![i] = l]
  <2>1. PICK i \in DOMAIN log : \E l \in AlteredLines(log[i]) : other = [log EXCEPT ![i] = l]
    BY <1>2
  <2>2. PICK l \in AlteredLines(log[i]) : other = [log EXCEPT ![i] = l]
    BY <2>1
  <2>3. log[i] \in Line
    OBVIOUS
  <2>4. PICK f \in DOMAIN log[i] \ {"parentTree", "evidence"} : \E x \in LineValues(f) : l = [log[i] EXCEPT ![f] = x]
    BY <2>2 DEF AlteredLines, OneOf
  <2>5. l \in Line
    BY ZenonT(60), <2>3, <2>4, LineValuesTyped
  <2>. QED BY <2>2, <2>5 DEF Optional
<1>3. CASE other \in {Renumbered(RemoveAt(log, i)) : i \in DOMAIN log}
  <2>1. PICK i \in DOMAIN log : other = Renumbered(RemoveAt(log, i))
    BY <1>3
  <2>2. RemoveAt(log, i) \in Seq(Line)
    <3>1. i \in Nat /\ i >= 1 /\ i <= Len(log) /\ Len(log) \in Nat
      OBVIOUS
    <3>2. SubSeq(log, 1, i - 1) \in Seq(Line) /\ SubSeq(log, i + 1, Len(log)) \in Seq(Line)
      BY <3>1
    <3>. QED BY <3>2 DEF RemoveAt
  <2>. QED BY <2>1, <2>2, RenumberedTyped DEF Optional
<1>4. CASE other \in {Renumbered(Append(log, log[i])) : i \in DOMAIN log}
  <2>1. PICK i \in DOMAIN log : other = Renumbered(Append(log, log[i]))
    BY <1>4
  <2>2. Append(log, log[i]) \in Seq(Line)
    OBVIOUS
  <2>. QED BY <2>1, <2>2, RenumberedTyped DEF Optional
<1>5. \/ other \in {None, <<>>}
      \/ other \in UNION {{[log EXCEPT ![i] = l] : l \in AlteredLines(log[i]) \ {log[i]}} : i \in DOMAIN log}
      \/ other \in {Renumbered(RemoveAt(log, i)) : i \in DOMAIN log}
      \/ other \in {Renumbered(Append(log, log[i])) : i \in DOMAIN log}
  BY DEF AlteredDecisions, OneOf
<1>6. other \in UNION {{[log EXCEPT ![i] = l] : l \in AlteredLines(log[i]) \ {log[i]}} : i \in DOMAIN log}
      => \E i \in DOMAIN log : \E l \in AlteredLines(log[i]) : other = [log EXCEPT ![i] = l]
  OBVIOUS
<1>7. \/ other \in {None, <<>>}
      \/ \E i \in DOMAIN log : \E l \in AlteredLines(log[i]) : other = [log EXCEPT ![i] = l]
      \/ other \in {Renumbered(RemoveAt(log, i)) : i \in DOMAIN log}
      \/ other \in {Renumbered(Append(log, log[i])) : i \in DOMAIN log}
  BY <1>5, <1>6
<1>. QED BY <1>1, <1>2, <1>3, <1>4, <1>7

LEMMA AlteredResultsTyped ==
  ASSUME NEW m \in Measured, NEW other \in AlteredResults(m)
  PROVE  other \in Optional(Measured)
<1>1. CASE other = None
  BY <1>1 DEF Optional
<1>2. CASE other = [m EXCEPT !.receipt = None]
  BY <1>2 DEF Optional, Measured
<1>3. CASE other \in {[m EXCEPT !.receipt = [rc EXCEPT !.suite = SuiteNo(2)]] : rc \in {m.receipt} \ {None}}
  <2>1. PICK rc \in {m.receipt} \ {None} : other = [m EXCEPT !.receipt = [rc EXCEPT !.suite = SuiteNo(2)]]
    BY <1>3
  <2>2. rc \in Receipt
    BY DEF Measured, Optional
  <2>3. [rc EXCEPT !.suite = SuiteNo(2)] \in Receipt
    BY <2>2, SuitesTyped DEF Receipt
  <2>. QED BY <2>1, <2>3 DEF Measured, Optional
<1>4. CASE other \in {[m EXCEPT !.result = [@ EXCEPT !.score = x]] : x \in Scores}
  <2>1. PICK x \in Scores : other = [m EXCEPT !.result = [m.result EXCEPT !.score = x]]
    BY <1>4
  <2>2. m.result \in Result /\ x \in Int
    BY RecordAssumption DEF Measured
  <2>3. [m.result EXCEPT !.score = x] \in Result
    BY <2>2 DEF Result
  <2>. QED BY <2>1, <2>3 DEF Measured, Optional
<1>. QED BY <1>1, <1>2, <1>3, <1>4 DEF AlteredResults

LEMMA AlteredTyped ==
  ASSUME NEW j \in JobDirectory, NEW k \in Altered(j)
  PROVE  k \in JobDirectory
<1>1. /\ j.versions \in [Version -> Optional(Tree)] /\ j.log \in Seq(Block) /\ j.decisions \in Optional(Seq(Line))
      /\ j.results \in [Places -> Optional(Measured)] /\ j.main \in Optional(Tree)
  BY DEF JobDirectory
<1>2. CASE k = [j EXCEPT !.stray = TRUE]
  BY <1>2 DEF JobDirectory
<1>3. CASE \E f \in UNION {{[j.versions EXCEPT ![v] = x] : x \in AlteredTrees(j.versions[v]) \ {j.versions[v]}} : v \in Snapshots(j)} :
             k = [j EXCEPT !.versions = f]
  <2>1. PICK f \in UNION {{[j.versions EXCEPT ![v] = x] : x \in AlteredTrees(j.versions[v]) \ {j.versions[v]}} : v \in Snapshots(j)} :
          k = [j EXCEPT !.versions = f]
    BY <1>3
  <2>2. PICK v \in Snapshots(j) : \E x \in AlteredTrees(j.versions[v]) : f = [j.versions EXCEPT ![v] = x]
    BY <2>1
  <2>3. PICK x \in AlteredTrees(j.versions[v]) : f = [j.versions EXCEPT ![v] = x]
    BY <2>2
  <2>4. v \in Version /\ j.versions[v] \in Optional(Tree)
    BY <1>1 DEF Snapshots
  <2>5. x \in Optional(Tree)
    BY <2>4, AlteredTreesTyped
  <2>6. f \in [Version -> Optional(Tree)]
    BY <1>1, <2>3, <2>4, <2>5
  <2>. QED BY <2>1, <2>6 DEF JobDirectory
<1>4. CASE \E v \in Version \ Snapshots(j), p \in Policy : k = [j EXCEPT !.versions[v] = Clean(p)]
  <2>1. PICK v \in Version \ Snapshots(j), p \in Policy : k = [j EXCEPT !.versions[v] = Clean(p)]
    BY <1>4
  <2>2. Clean(p) \in Optional(Tree)
    BY DEF Clean, Tree, Optional
  <2>3. [j.versions EXCEPT ![v] = Clean(p)] \in [Version -> Optional(Tree)]
    BY <1>1, <2>2
  <2>4. k = [j EXCEPT !.versions = [j.versions EXCEPT ![v] = Clean(p)]]
    BY <2>1
  <2>. QED BY <2>3, <2>4 DEF JobDirectory
<1>5. CASE \E t \in AlteredTrees(j.main) : k = [j EXCEPT !.main = t]
  <2>1. PICK t \in AlteredTrees(j.main) : k = [j EXCEPT !.main = t]
    BY <1>5
  <2>2. t \in Optional(Tree)
    BY <1>1, AlteredTreesTyped
  <2>. QED BY <2>1, <2>2 DEF JobDirectory
<1>6. CASE \E log \in AlteredLogs(j.log) : k = [j EXCEPT !.log = log]
  <2>1. PICK log \in AlteredLogs(j.log) : k = [j EXCEPT !.log = log]
    BY <1>6
  <2>2. log \in Seq(Block)
    BY <1>1, AlteredLogsTyped
  <2>. QED BY <2>1, <2>2 DEF JobDirectory
<1>7. CASE j.decisions # None /\ \E log \in AlteredDecisions(j.decisions) : k = [j EXCEPT !.decisions = log]
  <2>1. PICK log \in AlteredDecisions(j.decisions) : k = [j EXCEPT !.decisions = log]
    BY <1>7
  <2>2. j.decisions \in Seq(Line)
    BY <1>1, <1>7 DEF Optional
  <2>3. log \in Optional(Seq(Line))
    BY <2>2, AlteredDecisionsTyped
  <2>. QED BY <2>1, <2>3 DEF JobDirectory
<1>8. CASE \E p \in Places : j.results[p] # None /\ \E m \in AlteredResults(j.results[p]) : k = [j EXCEPT !.results[p] = m]
  <2>1. PICK p \in Places : j.results[p] # None /\ \E m \in AlteredResults(j.results[p]) : k = [j EXCEPT !.results[p] = m]
    BY <1>8
  <2>2. PICK m \in AlteredResults(j.results[p]) : k = [j EXCEPT !.results[p] = m]
    BY <2>1
  <2>3. j.results[p] \in Measured
    BY <1>1, <2>1 DEF Optional
  <2>4. m \in Optional(Measured)
    BY <2>3, AlteredResultsTyped
  <2>5. [j.results EXCEPT ![p] = m] \in [Places -> Optional(Measured)]
    BY <1>1, <2>4
  <2>6. k = [j EXCEPT !.results = [j.results EXCEPT ![p] = m]]
    BY <2>2
  <2>. QED BY <2>5, <2>6 DEF JobDirectory
<1>9. CASE \E x \in {"high", "absent", "text"} : k = [j EXCEPT !.reward = x]
  BY <1>9 DEF JobDirectory, Rewards
<1>10. \/ k \in {[j EXCEPT !.stray = TRUE]}
       \/ k \in {[j EXCEPT !.versions = f] :
                   f \in UNION {{[j.versions EXCEPT ![v] = x] : x \in AlteredTrees(j.versions[v]) \ {j.versions[v]}} : v \in Snapshots(j)}}
       \/ k \in {[j EXCEPT !.versions[v] = Clean(p)] : v \in Version \ Snapshots(j), p \in Policy}
       \/ k \in {[j EXCEPT !.main = t] : t \in AlteredTrees(j.main)}
       \/ k \in {[j EXCEPT !.log = log] : log \in AlteredLogs(j.log)}
       \/ k \in (IF j.decisions = None THEN {}
                 ELSE {[j EXCEPT !.decisions = log] : log \in AlteredDecisions(j.decisions)})
       \/ k \in UNION {{[j EXCEPT !.results[p] = m] : m \in AlteredResults(j.results[p])} :
                         p \in {p \in Places : j.results[p] # None}}
       \/ k \in {[j EXCEPT !.reward = x] : x \in {"high", "absent", "text"}}
  BY DEF Altered, OneOf
<1>11. CASE k \in {[j EXCEPT !.stray = TRUE]}
  BY <1>2, <1>11
<1>12. CASE k \in {[j EXCEPT !.versions = f] :
                   f \in UNION {{[j.versions EXCEPT ![v] = x] : x \in AlteredTrees(j.versions[v]) \ {j.versions[v]}} : v \in Snapshots(j)}}
  BY <1>3, <1>12
<1>13. CASE k \in {[j EXCEPT !.versions[v] = Clean(p)] : v \in Version \ Snapshots(j), p \in Policy}
  BY <1>4, <1>13
<1>14. CASE k \in {[j EXCEPT !.main = t] : t \in AlteredTrees(j.main)}
  BY <1>5, <1>14
<1>15. CASE k \in {[j EXCEPT !.log = log] : log \in AlteredLogs(j.log)}
  BY <1>6, <1>15
<1>16. CASE k \in (IF j.decisions = None THEN {}
                 ELSE {[j EXCEPT !.decisions = log] : log \in AlteredDecisions(j.decisions)})
  BY <1>7, <1>16
<1>17. CASE k \in UNION {{[j EXCEPT !.results[p] = m] : m \in AlteredResults(j.results[p])} :
                         p \in {p \in Places : j.results[p] # None}}
  BY <1>8, <1>17
<1>18. CASE k \in {[j EXCEPT !.reward = x] : x \in {"high", "absent", "text"}}
  BY <1>9, <1>18
<1>. QED BY <1>10, <1>11, <1>12, <1>13, <1>14, <1>15, <1>16, <1>17, <1>18

LEMMA AlteredBodiesTyped ==
  ASSUME NEW l \in Line, NEW f \in {"verdict", "disposition", "estimate"}, NEW x \in LineValues(f)
  PROVE  [Body(l) EXCEPT ![f] = x] \in {Body(m) : m \in Line}
<1>1. DOMAIN l = {"num", "unit", "version", "parent", "replicates", "estimate", "verdict", "disposition", "sample",
                  "profile", "plan", "suite", "look", "parentTree", "tree", "evidence"}
  BY DEF Line
<1>2. f \in DOMAIN l \ {"parentTree", "evidence"} /\ f \notin {"num", "unit"}
  BY <1>1
<1>. DEFINE m == [l EXCEPT ![f] = x]
<1>3. m \in Line
  BY <1>2, LineValuesTyped
<1>4. DOMAIN m = DOMAIN l /\ \A g \in DOMAIN l : m[g] = IF g = f THEN x ELSE l[g]
  <2>1. l = [g \in DOMAIN l |-> l[g]]
    BY DEF Line
  <2>. QED BY <2>1
<1>. HIDE DEF m
<1>5. [Body(l) EXCEPT ![f] = x] = Body(m)
  BY <1>2, <1>4 DEF Body
<1>. QED BY <1>3, <1>5

LEMMA AlteredEntriesTyped ==
  ASSUME NEW e \in EntryType, NEW other \in AlteredEntries(e)
  PROVE  other \in EntryType
<1>1. CASE \E f \in {"line", "resolves", "kind"} : \E x \in EntryValues(f) : other = [e EXCEPT ![f] = x]
  <2>1. PICK f \in {"line", "resolves", "kind"} : \E x \in EntryValues(f) : other = [e EXCEPT ![f] = x]
    BY <1>1
  <2>2. PICK x \in EntryValues(f) : other = [e EXCEPT ![f] = x]
    BY <2>1
  <2>3. CASE f = "line"
    BY <2>2, <2>3 DEF EntryValues, EntryType
  <2>4. CASE f = "resolves"
    BY <2>2, <2>4 DEF EntryValues, EntryType
  <2>5. CASE f = "kind"
    BY <2>2, <2>5 DEF EntryValues, EntryType
  <2>. QED BY <2>3, <2>4, <2>5
<1>2. CASE \E f \in {"verdict", "disposition", "estimate"} : \E x \in LineValues(f) :
             other = [e EXCEPT !.body = [e.body EXCEPT ![f] = x]]
  <2>1. PICK f \in {"verdict", "disposition", "estimate"} : \E x \in LineValues(f) :
          other = [e EXCEPT !.body = [e.body EXCEPT ![f] = x]]
    BY <1>2
  <2>2. PICK x \in LineValues(f) : other = [e EXCEPT !.body = [e.body EXCEPT ![f] = x]]
    BY <2>1
  <2>3. PICK l \in Line : e.body = Body(l)
    BY DEF EntryType
  <2>4. [e.body EXCEPT ![f] = x] \in {Body(m) : m \in Line}
    BY <2>3, AlteredBodiesTyped
  <2>. QED BY <2>2, <2>4 DEF EntryType
<1>3. \/ other \in UNION {{[e EXCEPT ![f] = x] : x \in EntryValues(f) \ {e[f]}} : f \in {"line", "resolves", "kind"}}
      \/ other \in {[e EXCEPT !.body = l] :
                      l \in UNION {{[e.body EXCEPT ![f] = x] : x \in LineValues(f) \ {e.body[f]}} : f \in {"verdict", "disposition", "estimate"}}}
  BY DEF AlteredEntries, OneOf
<1>4. other \in UNION {{[e EXCEPT ![f] = x] : x \in EntryValues(f) \ {e[f]}} : f \in {"line", "resolves", "kind"}}
      => \E f \in {"line", "resolves", "kind"} : \E x \in EntryValues(f) : other = [e EXCEPT ![f] = x]
  <2>. SUFFICES ASSUME NEW f \in {"line", "resolves", "kind"}, other \in {[e EXCEPT ![f] = x] : x \in EntryValues(f) \ {e[f]}}
                PROVE  \E g \in {"line", "resolves", "kind"} : \E x \in EntryValues(g) : other = [e EXCEPT ![g] = x]
    OBVIOUS
  <2>. QED OBVIOUS
<1>5. ASSUME NEW l \in UNION {{[e.body EXCEPT ![f] = x] : x \in LineValues(f) \ {e.body[f]}} : f \in {"verdict", "disposition", "estimate"}}
      PROVE  \E f \in {"verdict", "disposition", "estimate"} : \E x \in LineValues(f) : l = [e.body EXCEPT ![f] = x]
  <2>1. PICK f \in {"verdict", "disposition", "estimate"} : l \in {[e.body EXCEPT ![f] = x] : x \in LineValues(f) \ {e.body[f]}}
    OBVIOUS
  <2>. QED BY <2>1
<1>. QED BY <1>1, <1>2, <1>3, <1>4, <1>5

LEMMA AlteredVersionsTyped ==
  ASSUME NEW rv \in VersionType, NEW other \in AlteredVersions(rv)
  PROVE  other \in VersionType
<1>1. rv.decisions \in Seq(EntryType)
  BY DEF VersionType
<1>2. CASE other \in {[rv EXCEPT !.status = s] : s \in Statuses \cup {"provisional"}}
  BY <1>2 DEF VersionType
<1>3. CASE other \in {[rv EXCEPT !.parents = {}], [rv EXCEPT !.decisions = <<>>]}
  <2>1. <<>> \in Seq(EntryType) /\ {} \in SUBSET Version
    OBVIOUS
  <2>. QED BY <1>3, <2>1 DEF VersionType
<1>4. ASSUME NEW k \in DOMAIN rv.decisions, NEW e \in AlteredEntries(rv.decisions[k])
      PROVE  [rv EXCEPT !.decisions = [rv.decisions EXCEPT ![k] = e]] \in VersionType
  <2>1. rv.decisions[k] \in EntryType
    BY <1>1
  <2>2. e \in EntryType
    BY <2>1, AlteredEntriesTyped
  <2>3. [rv.decisions EXCEPT ![k] = e] \in Seq(EntryType)
    BY <1>1, <2>2
  <2>. QED BY <2>3 DEF VersionType
<1>5. \/ other \in {[rv EXCEPT !.status = s] : s \in Statuses \cup {"provisional"}}
      \/ other \in {[rv EXCEPT !.parents = {}], [rv EXCEPT !.decisions = <<>>]}
      \/ other \in {[rv EXCEPT !.decisions = d] :
                      d \in UNION {{[rv.decisions EXCEPT ![k] = e] : e \in AlteredEntries(rv.decisions[k]) \ {rv.decisions[k]}} : k \in DOMAIN rv.decisions}}
  BY DEF AlteredVersions, OneOf
<1>6. ASSUME NEW d \in UNION {{[rv.decisions EXCEPT ![k] = e] : e \in AlteredEntries(rv.decisions[k]) \ {rv.decisions[k]}} : k \in DOMAIN rv.decisions}
      PROVE  \E k \in DOMAIN rv.decisions : \E e \in AlteredEntries(rv.decisions[k]) : d = [rv.decisions EXCEPT ![k] = e]
  <2>1. PICK k \in DOMAIN rv.decisions : d \in {[rv.decisions EXCEPT ![k] = e] : e \in AlteredEntries(rv.decisions[k]) \ {rv.decisions[k]}}
    OBVIOUS
  <2>. QED BY <2>1
<1>7. CASE other \in {[rv EXCEPT !.decisions = d] :
                      d \in UNION {{[rv.decisions EXCEPT ![k] = e] : e \in AlteredEntries(rv.decisions[k]) \ {rv.decisions[k]}} : k \in DOMAIN rv.decisions}}
  BY <1>4, <1>6, <1>7
<1>. QED BY <1>2, <1>3, <1>5, <1>7

LEMMA AlteredRecordsTyped ==
  ASSUME NEW r \in RecordType, NEW other \in AlteredRecords(r)
  PROVE  other \in RecordType
<1>1. PICK S \in SUBSET Version : r.versions \in [S -> VersionType]
  BY DEF RecordType
<1>2. RecordedVersions(r) = S
  BY <1>1 DEF RecordedVersions
<1>. DEFINE Maps == UNION {[T -> VersionType] : T \in SUBSET Version}
<1>3. ASSUME NEW v \in S, NEW rv \in AlteredVersions(r.versions[v])
      PROVE  [r EXCEPT !.versions = [r.versions EXCEPT ![v] = rv]] \in RecordType
  <2>1. r.versions[v] \in VersionType
    BY <1>1
  <2>2. rv \in VersionType
    BY <2>1, AlteredVersionsTyped
  <2>3. [r.versions EXCEPT ![v] = rv] \in Maps
    BY <1>1, <2>2
  <2>. QED BY <2>3 DEF RecordType
<1>4. ASSUME NEW v \in S
      PROVE  [r EXCEPT !.versions = [w \in S \ {v} |-> r.versions[w]]] \in RecordType
  <2>1. [w \in S \ {v} |-> r.versions[w]] \in [S \ {v} -> VersionType]
    BY <1>1
  <2>2. [w \in S \ {v} |-> r.versions[w]] \in Maps
    BY <1>1, <2>1
  <2>. QED BY <2>2 DEF RecordType
<1>5. ASSUME NEW v \in Version PROVE [r EXCEPT !.final.class = <<v>>] \in RecordType
  <2>1. <<v>> \in Seq(Version)
    OBVIOUS
  <2>2. r.final \in [version : Version, class : Seq(Version), tree : Tree, method : MethodTree]
    BY DEF RecordType
  <2>3. [r.final EXCEPT !.class = <<v>>] \in [version : Version, class : Seq(Version), tree : Tree, method : MethodTree]
    BY <2>1, <2>2
  <2>. QED BY <2>3 DEF RecordType
<1>6. ASSUME NEW v \in Version PROVE [r EXCEPT !.final.version = v] \in RecordType
  BY DEF RecordType
<1>7. [r EXCEPT !.reward = "high"] \in RecordType
  BY DEF RecordType, Rewards
<1>8. \/ other \in {[r EXCEPT !.versions = f] :
                      f \in UNION {{[r.versions EXCEPT ![v] = rv] : rv \in AlteredVersions(r.versions[v]) \ {r.versions[v]}} : v \in S}}
      \/ other \in {[r EXCEPT !.versions = [w \in S \ {v} |-> r.versions[w]]] : v \in S}
      \/ other \in {[r EXCEPT !.final.class = <<v>>] : v \in Version}
      \/ other \in {[r EXCEPT !.final.version = v] : v \in Version}
      \/ other \in {[r EXCEPT !.reward = "high"]}
  BY <1>2 DEF AlteredRecords, OneOf
<1>9. ASSUME NEW f \in UNION {{[r.versions EXCEPT ![v] = rv] : rv \in AlteredVersions(r.versions[v]) \ {r.versions[v]}} : v \in S}
      PROVE  \E v \in S : \E rv \in AlteredVersions(r.versions[v]) : f = [r.versions EXCEPT ![v] = rv]
  <2>1. PICK v \in S : f \in {[r.versions EXCEPT ![v] = rv] : rv \in AlteredVersions(r.versions[v]) \ {r.versions[v]}}
    OBVIOUS
  <2>. QED BY <2>1
<1>10. CASE other \in {[r EXCEPT !.versions = f] :
                      f \in UNION {{[r.versions EXCEPT ![v] = rv] : rv \in AlteredVersions(r.versions[v]) \ {r.versions[v]}} : v \in S}}
  BY <1>3, <1>9, <1>10
<1>11. CASE other \in {[r EXCEPT !.versions = [w \in S \ {v} |-> r.versions[w]]] : v \in S}
  BY <1>4, <1>11
<1>12. CASE other \in {[r EXCEPT !.final.class = <<v>>] : v \in Version}
  BY <1>5, <1>12
<1>13. CASE other \in {[r EXCEPT !.final.version = v] : v \in Version}
  BY <1>6, <1>13
<1>14. CASE other \in {[r EXCEPT !.reward = "high"]}
  BY <1>7, <1>14
<1>. QED BY <1>8, <1>10, <1>11, <1>12, <1>13, <1>14

-----------------------------------------------------------------------------
(* The invariant.                                                          *)

\* The directory a record tells of is read as the one it was made of.
LEMMA OriginReadsAlike ==
  ASSUME NEW j \in JobDirectory, ~ProducerRefuses(j), NEW r, r = Produced(j)
  PROVE  /\ ReadAlike(Origin(r), j) /\ ReadAlike(j, Origin(r))
         /\ Produced(Origin(r)) = r /\ ~ProducerRefuses(Origin(r))
<1>1. /\ r.log = j.log /\ r.decisionLog = j.decisions /\ r.reward = j.reward /\ r.final.tree = j.main
      /\ RecordedVersions(r) = Snapshots(j)
      /\ \A v \in Snapshots(j) : r.versions[v].tree = j.versions[v]
  BY DEF Produced, RecordedVersions, VersionIn, FullView
<1>2. j.versions \in [Version -> Optional(Tree)]
  BY DEF JobDirectory
<1>3. \A v \in Version : (IF v \in RecordedVersions(r) THEN r.versions[v].tree ELSE None) = j.versions[v]
  BY <1>1 DEF Snapshots
<1>4. [v \in Version |-> IF v \in RecordedVersions(r) THEN r.versions[v].tree ELSE None] = j.versions
  BY <1>2, <1>3
<1>5. ReadAlike(Origin(r), j) /\ ReadAlike(j, Origin(r)) /\ Origin(r).stray = FALSE
  BY <1>1, <1>4 DEF ReadAlike, Origin
<1>6. Produced(Origin(r)) = Produced(j) /\ (ProducerRefuses(Origin(r)) => ProducerRefuses(j) \/ Origin(r).stray)
  BY <1>5, ProducedDependsOn
<1>. QED BY <1>5, <1>6

LEMMA InitTyped == Init => IInv
<1>. SUFFICES ASSUME Init PROVE IInv
  OBVIOUS
<1>1. EmptyJob \in JobDirectory
  <2>1. [v \in Version |-> None] \in [Version -> Optional(Tree)] /\ [p \in Places |-> None] \in [Places -> Optional(Measured)]
    BY DEF Optional
  <2>2. <<>> \in Seq(Block)
    OBVIOUS
  <2>3. None \in Optional(Seq(Line)) /\ None \in Optional(Tree) /\ "low" \in Rewards
    BY DEF Optional, Rewards
  <2>. QED BY <2>1, <2>2, <2>3 DEF EmptyJob, JobDirectory
<1>2. TypeOK
  BY <1>1 DEF Init, TypeOK
<1>3. RolloutLeaves
  BY DEF Init, EmptyJob, RolloutLeaves, Snapshots, Undecided
<1>4. RecordIsProduced /\ VerdictIsOfThese
  BY DEF Init, RecordIsProduced, VerdictIsOfThese
<1>. QED BY <1>2, <1>3, <1>4 DEF IInv

\* A step of the rollout leaves the record and the verdict alone.
LEMMA RolloutStep ==
  ASSUME IInv, job' \in JobDirectory, phase = "rollout", phase' \in {"rollout", "handed"}, RolloutLeaves',
         UNCHANGED <<mode, record, altered, reworded, verdict>>
  PROVE  IInv'
<1>1. TypeOK'
  BY DEF IInv, TypeOK
<1>2. RecordIsProduced' /\ VerdictIsOfThese'
  BY DEF RecordIsProduced, VerdictIsOfThese
<1>. QED BY <1>1, <1>2 DEF IInv

LEMMA AlterStep == ASSUME IInv, Alter PROVE IInv'
<1>1. /\ phase \in {"handed", "recorded"} /\ phase' = phase /\ job \in JobDirectory /\ job' \in Altered(job)
      /\ record' = record /\ reworded' = reworded /\ mode' = mode /\ altered' = altered + 1
      /\ altered \in Nat
  BY DEF IInv, TypeOK, Alter
<1>2. job' \in JobDirectory
  BY <1>1, AlteredTyped
<1>3. TypeOK'
  BY <1>1, <1>2 DEF IInv, TypeOK
<1>4. RolloutLeaves' /\ VerdictIsOfThese'
  BY <1>1 DEF RolloutLeaves, VerdictIsOfThese
<1>5. RecordIsProduced'
  BY <1>1 DEF IInv, RecordIsProduced
<1>. QED BY <1>3, <1>4, <1>5 DEF IInv

LEMMA RewordStep == ASSUME IInv, Reword PROVE IInv'
<1>1. /\ phase = "recorded" /\ phase' = phase /\ job' = job /\ record' \in AlteredRecords(record)
      /\ record \in RecordType /\ reworded' = TRUE /\ mode' = mode /\ altered' = altered
  BY DEF IInv, TypeOK, Reword
<1>2. record' \in RecordType
  BY <1>1, AlteredRecordsTyped
<1>3. TypeOK'
  BY <1>1, <1>2 DEF IInv, TypeOK
<1>4. RolloutLeaves' /\ VerdictIsOfThese' /\ RecordIsProduced'
  BY <1>1 DEF RolloutLeaves, VerdictIsOfThese, RecordIsProduced
<1>. QED BY <1>3, <1>4 DEF IInv

LEMMA BuildStep == ASSUME IInv, Build PROVE IInv'
<1>1. /\ phase = "handed" /\ job' = job /\ job \in JobDirectory
      /\ mode' = mode /\ altered' = altered /\ reworded' = reworded
      /\ \/ phase' = "refused" /\ record' = record
         \/ ~ProducerRefuses(job) /\ phase' = "recorded" /\ record' = Produced(job)
  BY DEF IInv, TypeOK, Build
<1>2. RolloutLeaves' /\ VerdictIsOfThese'
  BY <1>1 DEF RolloutLeaves, VerdictIsOfThese
<1>3. CASE phase' = "refused"
  <2>1. TypeOK' /\ RecordIsProduced'
    BY <1>1, <1>3 DEF IInv, TypeOK, RecordIsProduced
  <2>. QED BY <1>2, <2>1 DEF IInv
<1>4. CASE ~ProducerRefuses(job) /\ phase' = "recorded" /\ record' = Produced(job)
  <2>1. record' \in RecordType
    BY <1>1, <1>4, ProducedTyped
  <2>2. TypeOK'
    BY <1>1, <1>4, <2>1 DEF IInv, TypeOK
  <2>3. \A r : r = Produced(job) => Produced(Origin(r)) = r /\ ~ProducerRefuses(Origin(r))
    BY <1>1, <1>4, OriginReadsAlike
  <2>4. RecordIsProduced'
    BY <1>4, <2>3 DEF RecordIsProduced
  <2>. QED BY <1>2, <2>2, <2>4 DEF IInv
<1>. QED BY <1>1, <1>3, <1>4

LEMMA VerifyStep == ASSUME IInv, Verify PROVE IInv'
<1>1. /\ phase = "recorded" /\ phase' = "verified" /\ verdict' = Verdict(record, job)
      /\ UNCHANGED <<mode, job, record, altered, reworded>>
  BY DEF Verify
<1>2. TypeOK' /\ RolloutLeaves' /\ RecordIsProduced'
  BY <1>1 DEF IInv, TypeOK, RolloutLeaves, RecordIsProduced
<1>3. VerdictIsOfThese'
  BY <1>1 DEF VerdictIsOfThese
<1>. QED BY <1>2, <1>3 DEF IInv

LEMMA StepKeepsInvariant == IInv /\ [Next]_vars => IInv'
<1>. SUFFICES ASSUME IInv, [Next]_vars PROVE IInv'
  OBVIOUS
<1>1. CASE Inherit
  <2>1. phase = "rollout" /\ phase' = "rollout" /\ UNCHANGED <<mode, record, altered, reworded, verdict>>
    BY <1>1 DEF Inherit
  <2>. QED BY <1>1, <2>1, InheritStep, RolloutStep
<1>2. CASE Try
  <2>1. phase = "rollout" /\ phase' = "rollout" /\ UNCHANGED <<mode, record, altered, reworded, verdict>>
    BY <1>2 DEF Try
  <2>. QED BY <1>2, <2>1, TryStep, RolloutStep
<1>3. CASE Screen
  <2>1. phase = "rollout" /\ phase' = "rollout" /\ UNCHANGED <<mode, record, altered, reworded, verdict>>
    BY <1>3 DEF Screen
  <2>. QED BY <1>3, <2>1, ScreenStep, RolloutStep
<1>4. CASE Confirm
  <2>1. phase = "rollout" /\ phase' = "rollout" /\ UNCHANGED <<mode, record, altered, reworded, verdict>>
    BY <1>4 DEF Confirm
  <2>. QED BY <1>4, <2>1, ConfirmStep, RolloutStep
<1>5. CASE HandIn
  <2>1. phase = "rollout" /\ phase' = "handed" /\ UNCHANGED <<mode, record, altered, reworded, verdict>>
    BY <1>5 DEF HandIn
  <2>2. RolloutLeaves'
    BY <2>1 DEF RolloutLeaves
  <2>. QED BY <1>5, <2>1, <2>2, HandInStep, RolloutStep
<1>6. CASE Alter
  BY <1>6, AlterStep
<1>7. CASE Reword
  BY <1>7, RewordStep
<1>8. CASE Build
  BY <1>8, BuildStep
<1>9. CASE Verify
  BY <1>9, VerifyStep
<1>10. CASE UNCHANGED vars
  <2>1. TypeOK' /\ RolloutLeaves' /\ RecordIsProduced' /\ VerdictIsOfThese'
    BY <1>10 DEF vars, IInv, TypeOK, RolloutLeaves, RecordIsProduced, VerdictIsOfThese
  <2>. QED BY <2>1 DEF IInv
<1>11. CASE Done
  BY <1>10, <1>11 DEF Done
<1>. QED BY <1>1, <1>2, <1>3, <1>4, <1>5, <1>6, <1>7, <1>8, <1>9, <1>10, <1>11 DEF Next

\* A job directory, a record of it and a verdict are of their types whatever is
\* altered by hand; an untouched record is what the producer would write again
\* of the directory it tells of.
THEOREM Invariance == Spec => []IInv
<1>1. Init => IInv
  BY InitTyped
<1>2. IInv /\ [Next]_vars => IInv'
  BY StepKeepsInvariant
<1>. QED BY <1>1, <1>2, PTL DEF Spec

-----------------------------------------------------------------------------
(* What an accepted record means.                                          *)

LEMMA AcceptedMeans ==
  ASSUME IInv, Accepted
  PROVE  /\ record \in RecordType /\ job \in JobDirectory /\ Errors(record, job) = {}
         /\ verdict.complete => Snapshots(job) = RecordedVersions(record)
         /\ ~reworded => Produced(Origin(record)) = record /\ ~ProducerRefuses(Origin(record))
<1>1. record \in RecordType /\ job \in JobDirectory /\ verdict = Verdict(record, job)
  BY DEF IInv, TypeOK, VerdictIsOfThese, Accepted
<1>2. Errors(record, job) = {} /\ (verdict.complete => Snapshots(job) = RecordedVersions(record))
  BY <1>1 DEF Accepted, Verdict, Complete
<1>3. ~reworded => Produced(Origin(record)) = record /\ ~ProducerRefuses(Origin(record))
  BY DEF IInv, RecordIsProduced, Accepted
<1>. QED BY <1>1, <1>2, <1>3

LEMMA RebuildsIfAccepted == IInv => AcceptedRebuilds
<1>. SUFFICES ASSUME IInv, Covered, ~reworded PROVE AcceptedRebuilds
  BY DEF AcceptedRebuilds
<1>. DEFINE now == [job EXCEPT !.stray = FALSE, !.decisions = IF record.decisionLog = None THEN None ELSE @]
<1>1. /\ record \in RecordType /\ job \in JobDirectory /\ Errors(record, job) = {}
      /\ Snapshots(job) = RecordedVersions(record)
      /\ Produced(Origin(record)) = record /\ ~ProducerRefuses(Origin(record))
  BY AcceptedMeans DEF Covered
<1>2. /\ job.log = record.log /\ (record.decisionLog # None => job.decisions = record.decisionLog)
      /\ job.reward = record.reward /\ job.main = record.final.tree
      /\ \A v \in RecordedVersions(record) : job.versions[v] = record.versions[v].tree
  BY <1>1, NoFileErrors
<1>3. /\ now.versions = job.versions /\ now.log = job.log /\ now.main = job.main /\ now.reward = job.reward
      /\ now.stray = FALSE /\ now.decisions = IF record.decisionLog = None THEN None ELSE job.decisions
  BY <1>1 DEF JobDirectory
<1>. HIDE DEF now
<1>4. Origin(record).versions = now.versions
  <2>1. job.versions \in [Version -> Optional(Tree)]
    BY <1>1 DEF JobDirectory
  <2>2. \A v \in Version : (IF v \in RecordedVersions(record) THEN record.versions[v].tree ELSE None) = job.versions[v]
    BY <1>1, <1>2 DEF Snapshots
  <2>. QED BY <2>1, <2>2, <1>3 DEF Origin
<1>5. ReadAlike(Origin(record), now) /\ ReadAlike(now, Origin(record))
  BY <1>2, <1>3, <1>4 DEF ReadAlike, Origin
<1>6. Produced(now) = record /\ ~ProducerRefuses(now)
  BY SMTT(45), <1>1, <1>3, <1>5, ProducedDependsOn
<1>7. ASSUME NEW e \in AllEntries(record), NEW r \in RoleSet
      PROVE  LET at == job.results[e.body.evidence[r].at]
             IN  at # None /\ at.result = e.body.evidence[r].result
  BY <1>1, NoMeasurementErrors
<1>. QED BY <1>6, <1>7 DEF AcceptedRebuilds, now

\* The class of an accepted record is every version it lists that main/ is.
LEMMA ClassIsTheMatches ==
  ASSUME NEW r \in RecordType, NEW j, Errors(r, j) = {}
  PROVE  ToSet(r.final.class) = Matches(j) \cap RecordedVersions(r)
<1>. DEFINE class == {v \in RecordedVersions(r) : r.versions[v].method = r.final.method}
            rank == [v \in class |-> r.versions[v].ordinal]
<1>1. RecordClass(r) = r.final.class
  BY NoErrorParts DEF SubmissionErrors, If
<1>2. RecordedVersions(r) \in SUBSET Version /\ \A v \in RecordedVersions(r) : r.versions[v] \in VersionType
  BY EntriesAre
<1>3. IsFiniteSet(class)
  BY <1>2, FS_Subset, DecisionLinesAssumption
<1>4. \A v \in class : rank[v] \in Int
  BY <1>2 DEF VersionType
<1>5. ASSUME NEW v \in class, NEW w \in class, rank[v] = rank[w] PROVE v = w
  <2>. DEFINE found(u) ==
         If(\E x \in RecordedVersions(r) \ {u} : r.versions[x].ordinal = r.versions[u].ordinal,
            "semantic:versions:duplicate_ordinal")
         \cup If(~(r.versions[u].parents \subseteq RecordedVersions(r)), "semantic:version:missing_parent")
         \cup If(\E p \in r.versions[u].parents \cap RecordedVersions(r) : r.versions[p].ordinal >= r.versions[u].ordinal,
                 "semantic:version:parent_order")
         \cup If(r.versions[u].unsnapshotted \cap (RecordedVersions(r) \cup r.versions[u].parents) # {},
                 "semantic:version:unsnapshotted_parent_is_recorded")
  <2>1. UNION {found(u) : u \in RecordedVersions(r)} = {}
    BY NoErrorParts DEF LineageErrors
  <2>2. found(v) = {}
    <3>. HIDE DEF found
    <3>. QED BY <2>1
  <2>3. If(\E x \in RecordedVersions(r) \ {v} : r.versions[x].ordinal = r.versions[v].ordinal,
           "semantic:versions:duplicate_ordinal") = {}
    BY <2>2
  <2>. QED BY <2>3, <1>5 DEF If
<1>6. RecordClass(r) = InOrder(class, rank)
  BY DEF RecordClass
<1>7. /\ Cardinality(class) \in Nat
      /\ InOrder(class, rank) \in [1 .. Cardinality(class) -> class]
      /\ \A v \in class : \E k \in 1 .. Cardinality(class) : InOrder(class, rank)[k] = v
  <2>. HIDE DEF class, rank
  <2>. QED BY <1>3, <1>4, <1>5, InOrderEnumerates
<1>8. ToSet(r.final.class) = class
  <2>. HIDE DEF class, rank
  <2>. QED BY <1>1, <1>6, <1>7 DEF ToSet
<1>9. class = Matches(j) \cap RecordedVersions(r)
  <2>1. MethodView(j.main) = r.final.method
    BY NoFileErrors
  <2>2. \A v \in RecordedVersions(r) : j.versions[v] # None /\ MethodView(j.versions[v]) = r.versions[v].method
    BY NoFileErrors
  <2>3. \A v \in RecordedVersions(r) : v \in Snapshots(j)
    BY <1>2, <2>2 DEF Snapshots
  <2>. QED BY <2>1, <2>2, <2>3 DEF Matches
<1>. QED BY <1>8, <1>9

\* What the gate decided of a version that an accepted record calls kept.
LEMMA KeptByTheGate ==
  ASSUME NEW r \in RecordType, NEW j, Errors(r, j) = {}, AllEntries(r) # {},
         NEW v \in RecordedVersions(r), r.versions[v].parents # {}, r.versions[v].status \in {"kept", "submitted"}
  PROVE  /\ EntriesIn(r, v) # <<>>
         /\ Last(EntriesIn(r, v)).body.disposition = "keep"
         /\ Gated(Last(EntriesIn(r, v)).body) => Last(EntriesIn(r, v)).kind = "confirmation"
<1>. DEFINE E == EntriesIn(r, v)
            last == Last(E)
<1>1. ConductErrors(r) = {} /\ RuleErrors(AllEntries(r)) = {}
  BY NoErrorParts DEF DecisionErrors
<1>2. /\ If(/\ E = <<>>
            /\ r.versions[v].parents # {} /\ r.versions[v].status \in {"kept", "submitted"},
            "decision:missing_for_kept_version") = {}
      /\ If(/\ E # <<>> /\ r.versions[v].status = "submitted"
            /\ \E e \in ToSet(E) : /\ e.body.disposition = "revert"
                                   /\ \A f \in ToSet(E) : f.line <= e.line,
            "protocol:kept_against_verdict") = {}
  <2>. DEFINE found(u) ==
         If(/\ r.versions[u].decisions = <<>>
            /\ r.versions[u].parents # {} /\ r.versions[u].status \in {"kept", "submitted"},
            "decision:missing_for_kept_version")
         \cup If(/\ r.versions[u].decisions # <<>> /\ r.versions[u].status = "submitted"
                 /\ \E e \in ToSet(r.versions[u].decisions) : /\ e.body.disposition = "revert"
                                                              /\ \A f \in ToSet(r.versions[u].decisions) : f.line <= e.line,
                 "protocol:kept_against_verdict")
  <2>1. UNION {found(u) : u \in RecordedVersions(r)} = {}
    BY <1>1 DEF ConductErrors
  <2>2. found(v) = {}
    <3>. HIDE DEF found
    <3>. QED BY <2>1
  <2>. QED BY <2>2 DEF EntriesIn
<1>3. E # <<>>
  BY <1>2 DEF If
<1>4. E \in Seq(EntryType)
  BY EntriesAre
<1>5. Len(E) \in DOMAIN E /\ last = E[Len(E)] /\ last \in EntryType /\ last \in ToSet(E)
  BY <1>3, <1>4 DEF Last, ToSet
<1>6. ASSUME NEW f \in ToSet(E) PROVE f.line <= last.line
  <2>1. PICK k \in DOMAIN E : f = E[k]
    BY DEF ToSet
  <2>2. k \in Int /\ Len(E) \in Int /\ k <= Len(E)
    BY <1>4
  <2>3. k < Len(E) => E[k].line < E[Len(E)].line
    BY <1>5, EntriesIncrease
  <2>4. f.line \in Int /\ last.line \in Int
    <3>1. f \in EntryType
      BY <1>4, <2>1
    <3>. HIDE DEF last, E
    <3>. QED BY <1>5, <3>1 DEF EntryType
  <2>. HIDE DEF E, last
  <2>. QED BY <2>1, <2>2, <2>3, <2>4, <1>5
<1>7. /\ r.versions[v].status \in {"submitted", DecidedStatus(E)}
      /\ r.versions[v].status = "submitted" => DecidedStatus(E) # "provisional"
  BY <1>3, NoConsistencyErrors
<1>8. last.body.disposition \in {"keep", "revert", "provisional"}
  <2>1. PICK l \in Line : last.body = Body(l)
    BY <1>5 DEF EntryType
  <2>2. Body(l).disposition = l.disposition /\ l.disposition \in {"keep", "revert", "provisional"}
    BY DEF Body, Line
  <2>. QED BY <2>1, <2>2
<1>9. DecidedStatus(E) = StatusOf[last.body.disposition]
  BY DEF DecidedStatus
<1>. HIDE DEF E, last
<1>10. last.body.disposition = "keep"
  <2>1. CASE r.versions[v].status = "kept"
    BY <1>7, <1>8, <1>9, <2>1 DEF StatusOf
  <2>2. CASE r.versions[v].status = "submitted"
    <3>1. last.body.disposition # "revert"
      BY <1>2, <1>3, <1>5, <1>6, <2>2 DEF If
    <3>. QED BY <1>7, <1>8, <1>9, <2>2, <3>1 DEF StatusOf
  <2>. QED BY <2>1, <2>2
<1>11. Gated(last.body) => last.kind = "confirmation"
  <2>1. last \in AllEntries(r)
    BY <1>5, EntriesAre DEF E
  <2>2. UNION {
          IF last.body.verdict # ExpectedVerdict(last.body.estimate) THEN {"decision:verdict_inconsistent"}
          ELSE If(last.body.disposition # ExpectedDisposition(last), "decision:disposition_inconsistent"),
          PlanErrors(last),
          If(last.kind = "screening" /\ last.body.disposition = "keep" /\ Gated(last.body), "protocol:unconfirmed_keep"),
          If(last.kind = "confirmation" /\ Reduced(AllEntries(r), last), "protocol:replication_reduction"),
          If(last.kind = "screening" /\ last.body.disposition = "provisional" /\ OpenLineBefore(AllEntries(r), last) # {},
             "protocol:stacked_provisional")} = {}
    BY <1>1, <2>1 DEF RuleErrors
  <2>3. If(last.kind = "screening" /\ last.body.disposition = "keep" /\ Gated(last.body), "protocol:unconfirmed_keep") = {}
    BY <2>2
  <2>4. last.kind \in {"screening", "confirmation"}
    BY <1>5 DEF EntryType
  <2>. QED BY <1>10, <2>3, <2>4 DEF If
<1>. QED BY <1>3, <1>10, <1>11 DEF E, last

LEMMA StandsIfAccepted == IInv => SubmissionStands
<1>. SUFFICES ASSUME IInv, Accepted PROVE SubmissionStands
  BY DEF SubmissionStands
<1>1. /\ record \in RecordType /\ job \in JobDirectory /\ Errors(record, job) = {}
      /\ verdict.complete => Snapshots(job) = RecordedVersions(record)
  BY AcceptedMeans
<1>2. ToSet(record.final.class) = Matches(job) \cap RecordedVersions(record)
  BY <1>1, ClassIsTheMatches
<1>3. verdict.complete => ToSet(record.final.class) = Matches(job)
  BY <1>1, <1>2 DEF Matches
<1>4. ASSUME AllEntries(record) # {}, NEW v \in RecordedVersions(record), record.versions[v].parents # {},
             record.versions[v].status \in {"kept", "submitted"}
      PROVE  /\ record.versions[v].decisions # <<>>
             /\ Last(record.versions[v].decisions).body.disposition = "keep"
             /\ Gated(Last(record.versions[v].decisions).body) => Last(record.versions[v].decisions).kind = "confirmation"
  BY <1>1, <1>4, KeptByTheGate DEF EntriesIn
<1>. QED BY <1>2, <1>3, <1>4 DEF SubmissionStands

-----------------------------------------------------------------------------
(* An accepted record carries the log of decisions as it is.               *)

LEMMA BodySays ==
  ASSUME NEW l \in Line
  PROVE  /\ \A f \in {"version", "parent", "replicates", "estimate", "verdict", "disposition", "profile", "plan",
                      "evidence"} : Body(l)[f] = l[f]
         /\ Screening(Body(l)) <=> Screening(l)
         /\ Gated(Body(l)) <=> Gated(l)
         /\ Exploratory(Body(l)) <=> Exploratory(l)
<1>1. DOMAIN l = {"num", "unit", "version", "parent", "replicates", "estimate", "verdict", "disposition", "sample",
                  "profile", "plan", "suite", "look", "parentTree", "tree", "evidence"}
  BY DEF Line
<1>2. \A f \in {"version", "parent", "replicates", "estimate", "verdict", "disposition", "profile", "plan", "evidence"} :
        Body(l)[f] = l[f]
  BY <1>1 DEF Body
<1>3. Body(l).replicates = l.replicates /\ Body(l).profile = l.profile /\ Body(l).plan = l.plan
  BY <1>2
<1>. QED BY <1>2, <1>3 DEF Screening, Gated, Exploratory

\* The log is the record's, each of its lines has an entry, and each entry says
\* what its line says.
LEMMA EntriesMatchTheLog ==
  ASSUME NEW r \in RecordType, NEW j, Errors(r, j) = {}, r.decisionLog # None
  PROVE  /\ j.decisions \in Seq(Line) /\ AllEntries(r) # {}
         /\ \A i \in DOMAIN j.decisions : \E e \in AllEntries(r) : e.line = i
         /\ \A e \in AllEntries(r) : e.line \in DOMAIN j.decisions /\ e.body = Body(j.decisions[e.line])
<1>. DEFINE log == j.decisions
<1>1. log = r.decisionLog /\ log \in Seq(Line) /\ log # None
  BY NoErrorParts DEF RecordType, Optional
<1>2. MatchErrors(r, j) = {}
  BY NoErrorParts
<1>3. log # <<>>
  BY <1>1, <1>2 DEF MatchErrors
<1>4. /\ If(\E i \in DOMAIN log : \A e \in AllEntries(r) : e.line # i, "decision:log_line_missing") = {}
      /\ If(\E e \in AllEntries(r) : e.line \notin DOMAIN log, "decision:log_line_absent") = {}
      /\ If(\E e \in AllEntries(r) : e.line \in DOMAIN log /\ ~SameDecision(e, log[e.line]),
            "decision:log_line_mismatch") = {}
  BY <1>1, <1>2, <1>3 DEF MatchErrors
<1>5. /\ \A i \in DOMAIN log : \E e \in AllEntries(r) : e.line = i
      /\ \A e \in AllEntries(r) : e.line \in DOMAIN log /\ e.body = Body(log[e.line])
  BY <1>4 DEF If, SameDecision
<1>6. AllEntries(r) # {}
  BY <1>1, <1>3, <1>5, NonemptyHasFirst
<1>. QED BY <1>1, <1>5, <1>6

\* The gate's rules, entry by entry.
LEMMA NoRuleErrors ==
  ASSUME NEW r, NEW j, Errors(r, j) = {}, NEW e \in AllEntries(r)
  PROVE  /\ e.body.verdict = ExpectedVerdict(e.body.estimate)
         /\ e.body.disposition = ExpectedDisposition(e)
         /\ e.kind = "screening" /\ e.body.disposition = "provisional" => OpenLineBefore(AllEntries(r), e) = {}
<1>. DEFINE found(x) == UNION {
              IF x.body.verdict # ExpectedVerdict(x.body.estimate) THEN {"decision:verdict_inconsistent"}
              ELSE If(x.body.disposition # ExpectedDisposition(x), "decision:disposition_inconsistent"),
              PlanErrors(x),
              If(x.kind = "screening" /\ x.body.disposition = "keep" /\ Gated(x.body), "protocol:unconfirmed_keep"),
              If(x.kind = "confirmation" /\ Reduced(AllEntries(r), x), "protocol:replication_reduction"),
              If(x.kind = "screening" /\ x.body.disposition = "provisional" /\ OpenLineBefore(AllEntries(r), x) # {},
                 "protocol:stacked_provisional")}
<1>1. RuleErrors(AllEntries(r)) = {}
  BY NoErrorParts DEF DecisionErrors
<1>2. UNION {found(x) : x \in AllEntries(r)} = {}
  BY <1>1 DEF RuleErrors
<1>3. found(e) = {}
  <2>. HIDE DEF found
  <2>. QED BY <1>2
<1>4. /\ (IF e.body.verdict # ExpectedVerdict(e.body.estimate) THEN {"decision:verdict_inconsistent"}
          ELSE If(e.body.disposition # ExpectedDisposition(e), "decision:disposition_inconsistent")) = {}
      /\ If(e.kind = "screening" /\ e.body.disposition = "provisional" /\ OpenLineBefore(AllEntries(r), e) # {},
            "protocol:stacked_provisional") = {}
  BY <1>3
<1>. QED BY <1>4 DEF If

Opens(e) == e.kind = "screening" /\ e.body.disposition = "provisional"

\* Before a decision is left open the one that was open is resolved.
LEMMA ResolvedBeforeTheNext ==
  ASSUME NEW r \in RecordType, NEW j, Errors(r, j) = {},
         NEW a \in AllEntries(r), NEW p \in AllEntries(r), Opens(a), Opens(p), a.line < p.line
  PROVE  \E g \in AllEntries(r) : g.kind = "confirmation" /\ g.resolves = a.line /\ a.line < g.line /\ g.line < p.line
<1>. DEFINE T == {f.line : f \in {f \in AllEntries(r) : Opens(f) /\ a.line < f.line}}
<1>1. \A e \in AllEntries(r) : e.line \in Nat
  BY EntriesAre DEF EntryType
<1>2. T \in SUBSET Nat /\ p.line \in T
  BY <1>1
<1>3. PICK x \in T : \A y \in T : x <= y
  <2>. HIDE DEF T
  <2>. QED BY <1>2, LeastElement
<1>4. PICK f \in AllEntries(r) : Opens(f) /\ a.line < f.line /\ x = f.line
  BY <1>3
<1>5. OpenLineBefore(AllEntries(r), f) = {}
  BY <1>4, NoRuleErrors DEF Opens
<1>. DEFINE before == {e \in AllEntries(r) : e.line < f.line}
            opened == {e \in before : e.kind = "screening" /\ e.body.disposition = "provisional"}
<1>6. a \in opened
  BY <1>4 DEF Opens
<1>7. ASSUME NEW e \in opened PROVE e.line <= a.line
  <2>1. e.line \in Nat /\ a.line \in Nat /\ f.line \in Nat /\ e.line < f.line
    BY <1>1
  <2>2. a.line < e.line => e.line \in T
    BY DEF Opens
  <2>. HIDE DEF T
  <2>. QED BY <1>3, <1>4, <2>1, <2>2
<1>8. ~\A g \in before : g.line > a.line /\ g.kind = "confirmation" => g.resolves # a.line
  <2>1. OpenLineBefore(AllEntries(r), f) =
          {e \in opened : /\ \A g \in opened : g.line <= e.line
                          /\ \A g \in before : g.line > e.line /\ g.kind = "confirmation" => g.resolves # e.line}
    BY DEF OpenLineBefore
  <2>. HIDE DEF opened, before
  <2>. QED BY <1>5, <1>6, <1>7, <2>1
<1>9. PICK g \in before : g.line > a.line /\ g.kind = "confirmation" /\ g.resolves = a.line
  BY <1>8
<1>10. g \in AllEntries(r) /\ a.line < g.line /\ g.line < f.line /\ f.line <= p.line
  BY <1>1, <1>2, <1>3, <1>4, <1>9
<1>11. g.line \in Nat /\ f.line \in Nat /\ p.line \in Nat
  BY <1>1, <1>10
<1>. QED BY <1>9, <1>10, <1>11

\* A decision is resolved under its own version.
LEMMA ResolvedByItsOwn ==
  ASSUME NEW r \in RecordType, NEW j, Errors(r, j) = {},
         NEW v \in RecordedVersions(r), NEW i \in DOMAIN EntriesIn(r, v),
         NEW g \in AllEntries(r), g.kind = "confirmation", g.resolves = EntriesIn(r, v)[i].line
  PROVE  \E m \in DOMAIN EntriesIn(r, v) : g = EntriesIn(r, v)[m]
<1>0. PICK w \in RecordedVersions(r) : \E m \in DOMAIN EntriesIn(r, w) : g = EntriesIn(r, w)[m]
  BY EntriesAre
<1>1. PICK m \in DOMAIN EntriesIn(r, w) : g = EntriesIn(r, w)[m]
  BY <1>0
<1>2. EntryErrors(w, EntriesIn(r, w), m) = {}
  BY NoConsistencyErrors
<1>3. g.resolves \in OpenIn(EntriesIn(r, w), m)
  BY <1>1, <1>2, NoEntryErrors
<1>4. PICK n \in 1 .. (m - 1) : EntriesIn(r, w)[n].line = g.resolves
  BY <1>3 DEF OpenIn
<1>5. n \in DOMAIN EntriesIn(r, w)
  <2>1. EntriesIn(r, w) \in Seq(EntryType)
    BY EntriesAre
  <2>. QED BY <2>1, <1>1, <1>4
<1>6. w = v
  BY <1>4, <1>5, LinesAreClaimedOnce
<1>. QED BY <1>1, <1>6

\* What a confirmation resolves is the open decision of its version: no other
\* decision of the version comes between the two.
LEMMA NothingBetween ==
  ASSUME NEW r \in RecordType, NEW j, Errors(r, j) = {},
         NEW v \in RecordedVersions(r), NEW k \in DOMAIN EntriesIn(r, v),
         EntriesIn(r, v)[k].kind = "confirmation"
  PROVE  \E i \in 1 .. (k - 1) :
           /\ Opens(EntriesIn(r, v)[i]) /\ EntriesIn(r, v)[i].line = EntriesIn(r, v)[k].resolves
           /\ \A m \in (i + 1) .. (k - 1) : EntriesIn(r, v)[m].kind = "screening" /\ ~Opens(EntriesIn(r, v)[m])
<1>. DEFINE E == EntriesIn(r, v)
<1>1. /\ E \in Seq(EntryType) /\ DOMAIN E = 1 .. Len(E) /\ Len(E) \in Nat
      /\ \A m \in DOMAIN E : E[m] \in AllEntries(r)
  BY EntriesAre
<1>2. \A m \in DOMAIN E : E[m].line \in Nat /\ E[m].kind \in {"screening", "confirmation"}
  <2>1. \A m \in DOMAIN E : E[m] \in EntryType
    BY <1>1
  <2>. HIDE DEF E
  <2>. QED BY <2>1 DEF EntryType
<1>3. \A i, m \in DOMAIN E : i < m => E[i].line < E[m].line
  BY EntriesIncrease
<1>4. ASSUME NEW m \in DOMAIN E, E[m].kind = "confirmation"
      PROVE  \E i \in 1 .. (m - 1) : /\ i \in DOMAIN E /\ Opens(E[i]) /\ E[i].line = E[m].resolves
                                     /\ \A n \in (i + 1) .. (m - 1) : E[n].kind = "confirmation" => E[n].resolves # E[i].line
  <2>1. EntryErrors(v, E, m) = {}
    BY NoConsistencyErrors
  <2>2. E[m].resolves \in OpenIn(E, m)
    BY <1>4, <2>1, NoEntryErrors
  <2>3. PICK i \in 1 .. (m - 1) : /\ E[i].kind = "screening" /\ E[i].body.disposition = "provisional"
                                  /\ E[i].line = E[m].resolves
                                  /\ \A n \in (i + 1) .. (m - 1) : E[n].kind = "confirmation" => E[n].resolves # E[i].line
    BY <2>2 DEF OpenIn
  <2>4. i \in DOMAIN E
    BY <1>1
  <2>. QED BY <2>3, <2>4 DEF Opens
\* Two open decisions of the version have a confirmation of the first between.
<1>5. ASSUME NEW i \in DOMAIN E, NEW p \in DOMAIN E, i < p, Opens(E[i]), Opens(E[p])
      PROVE  \E m \in (i + 1) .. (p - 1) : m \in DOMAIN E /\ E[m].kind = "confirmation" /\ E[m].resolves = E[i].line
  <2>1. E[i].line < E[p].line
    BY <1>3, <1>5
  <2>2. PICK g \in AllEntries(r) : g.kind = "confirmation" /\ g.resolves = E[i].line /\ E[i].line < g.line /\ g.line < E[p].line
    BY SMTT(45), <1>1, <1>5, <2>1, ResolvedBeforeTheNext
  <2>3. PICK m \in DOMAIN E : g = E[m]
    BY <2>2, ResolvedByItsOwn
  <2>. HIDE DEF E
  <2>4. ~(m < i) /\ m # i /\ ~(p < m) /\ m # p
    <3>1. m < i => E[m].line < E[i].line
      BY <1>3
    <3>2. p < m => E[p].line < E[m].line
      BY <1>3
    <3>3. E[m].line \in Nat /\ E[i].line \in Nat /\ E[p].line \in Nat
      BY <1>2
    <3>. QED BY <2>2, <2>3, <3>1, <3>2, <3>3
  <2>5. m \in (i + 1) .. (p - 1)
    BY <1>1, <2>4
  <2>. QED BY <2>2, <2>3, <2>5
<1>6. PICK i \in 1 .. (k - 1) : /\ i \in DOMAIN E /\ Opens(E[i]) /\ E[i].line = E[k].resolves
                                /\ \A n \in (i + 1) .. (k - 1) : E[n].kind = "confirmation" => E[n].resolves # E[i].line
  BY <1>4
<1>. HIDE DEF E
<1>7. ASSUME NEW p \in (i + 1) .. (k - 1) PROVE p \in DOMAIN E /\ ~Opens(E[p])
  <2>0. k \in DOMAIN E
    BY DEF E
  <2>1. p \in DOMAIN E /\ i < p
    BY <1>1, <1>6, <2>0
  <2>2. SUFFICES ASSUME Opens(E[p]) PROVE FALSE
    BY <2>1
  <2>3. PICK m \in (i + 1) .. (p - 1) : m \in DOMAIN E /\ E[m].kind = "confirmation" /\ E[m].resolves = E[i].line
    BY <1>5, <1>6, <2>1, <2>2
  <2>4. m \in (i + 1) .. (k - 1)
    BY <1>1, <1>6, <2>0, <2>3
  <2>. QED BY <1>6, <2>3, <2>4
<1>8. ASSUME NEW m \in (i + 1) .. (k - 1) PROVE E[m].kind = "screening"
  <2>1. m \in DOMAIN E
    BY <1>7
  <2>2. SUFFICES ASSUME E[m].kind = "confirmation" PROVE FALSE
    BY <1>2, <2>1
  <2>3. PICK n \in 1 .. (m - 1) : /\ n \in DOMAIN E /\ Opens(E[n]) /\ E[n].line = E[m].resolves
                                  /\ \A q \in (n + 1) .. (m - 1) : E[q].kind = "confirmation" => E[q].resolves # E[n].line
    BY <1>4, <2>1, <2>2
  <2>4. n # i
    BY <1>6, <2>2, <2>3
  <2>5. i \in Int /\ n \in Int /\ m \in Int /\ k \in Int /\ n <= m - 1 /\ m <= k - 1
    BY <1>1, <1>6, <2>1, <2>3 DEF E
  <2>6. ~(i < n)
    <3>. SUFFICES ASSUME i < n PROVE FALSE
      OBVIOUS
    <3>1. n \in (i + 1) .. (k - 1)
      BY <2>5
    <3>. QED BY <3>1, <1>7, <2>3
  <2>7. ~(n < i)
    <3>. SUFFICES ASSUME n < i PROVE FALSE
      OBVIOUS
    <3>1. PICK q \in (n + 1) .. (i - 1) : q \in DOMAIN E /\ E[q].kind = "confirmation" /\ E[q].resolves = E[n].line
      BY <1>5, <1>6, <2>3
    <3>2. q \in (n + 1) .. (m - 1)
      BY <2>5, <3>1
    <3>. QED BY <2>3, <3>1, <3>2
  <2>. QED BY <2>4, <2>5, <2>6, <2>7
<1>. QED BY <1>6, <1>7, <1>8 DEF E

\* Under each recorded version are the entries of its lines.
LEMMA EntriesOfTheVersion ==
  ASSUME NEW r \in RecordType, NEW j, Errors(r, j) = {}, r.decisionLog # None, NEW v \in RecordedVersions(r)
  PROVE  /\ \A k \in DOMAIN EntriesIn(r, v) :
              LET e == EntriesIn(r, v)[k] IN
              /\ e.line \in LinesOf(j.decisions, v) /\ e.body = Body(j.decisions[e.line])
              /\ e.kind = "screening" <=> Screening(j.decisions[e.line])
              /\ Opens(e) <=> Provisional(j.decisions[e.line])
         /\ \A i \in LinesOf(j.decisions, v) : \E k \in DOMAIN EntriesIn(r, v) : EntriesIn(r, v)[k].line = i
<1>. DEFINE log == j.decisions
<1>1. /\ log \in Seq(Line)
      /\ \A i \in DOMAIN log : \E e \in AllEntries(r) : e.line = i
      /\ \A e \in AllEntries(r) : e.line \in DOMAIN log /\ e.body = Body(log[e.line])
  BY EntriesMatchTheLog
<1>2. \A i \in DOMAIN log : log[i] \in Line
  BY <1>1
<1>3. ASSUME NEW w \in RecordedVersions(r), NEW k \in DOMAIN EntriesIn(r, w)
      PROVE  LET e == EntriesIn(r, w)[k] IN
             /\ e.line \in LinesOf(log, w) /\ e.body = Body(log[e.line])
             /\ e.kind = "screening" <=> Screening(log[e.line])
             /\ Opens(e) <=> Provisional(log[e.line])
  <2>. DEFINE e == EntriesIn(r, w)[k]
              l == log[e.line]
  <2>1. e \in AllEntries(r)
    BY EntriesAre
  <2>2. e.line \in DOMAIN log /\ e.body = Body(l) /\ l \in Line
    BY <1>1, <1>2, <2>1
  <2>3. EntryErrors(w, EntriesIn(r, w), k) = {}
    BY NoConsistencyErrors
  <2>4. e.body.version = w /\ (e.kind = "screening" <=> Screening(e.body))
    BY <2>3, NoEntryErrors
  <2>5. Body(l).version = l.version /\ Body(l).disposition = l.disposition /\ (Screening(Body(l)) <=> Screening(l))
    BY <2>2, BodySays
  <2>. QED BY <2>2, <2>4, <2>5 DEF LinesOf, Opens, Provisional
<1>4. ASSUME NEW i \in LinesOf(log, v) PROVE \E k \in DOMAIN EntriesIn(r, v) : EntriesIn(r, v)[k].line = i
  <2>1. i \in DOMAIN log /\ log[i].version = v
    BY DEF LinesOf
  <2>2. PICK e \in AllEntries(r) : e.line = i
    BY <1>1, <2>1
  <2>3. PICK w \in RecordedVersions(r) : \E m \in DOMAIN EntriesIn(r, w) : e = EntriesIn(r, w)[m]
    BY EntriesAre
  <2>4. PICK m \in DOMAIN EntriesIn(r, w) : e = EntriesIn(r, w)[m]
    BY <2>3
  <2>5. i \in LinesOf(log, w)
    BY <1>3, <2>2, <2>4
  <2>6. w = v
    BY <2>1, <2>5 DEF LinesOf
  <2>. QED BY <2>2, <2>4, <2>6
<1>. QED BY <1>3, <1>4

\* There is at most one decision that a confirmation may resolve.
LEMMA ResolvedIsOne ==
  ASSUME NEW log \in Seq(Line), NEW i \in DOMAIN log, NEW x \in Resolved(log, i), NEW y \in Resolved(log, i)
  PROVE  x = y
<1>1. /\ i \in Int
      /\ \A z \in Resolved(log, i) :
           /\ z \in Int /\ z < i /\ Provisional(log[z]) /\ log[z].version = log[i].version
           /\ \A k \in (z + 1) .. (i - 1) :
                log[k].version = log[i].version => Screening(log[k]) /\ ~Provisional(log[k])
  BY DEF Resolved, Earlier
<1>2. ASSUME NEW a \in Resolved(log, i), NEW b \in Resolved(log, i), a < b PROVE FALSE
  <2>1. b \in (a + 1) .. (i - 1)
    BY <1>1, <1>2
  <2>. QED BY <1>1, <2>1
<1>. QED BY <1>1, <1>2

\* A confirmation resolves what the producer would say it does.
LEMMA ResolvesTheOpen ==
  ASSUME NEW r \in RecordType, NEW j, Errors(r, j) = {}, r.decisionLog # None,
         NEW v \in RecordedVersions(r), NEW k \in DOMAIN EntriesIn(r, v), EntriesIn(r, v)[k].kind = "confirmation"
  PROVE  EntriesIn(r, v)[k].resolves \in Resolved(j.decisions, EntriesIn(r, v)[k].line)
<1>. DEFINE E == EntriesIn(r, v)
            log == j.decisions
            i == E[k].line
<1>1. /\ log \in Seq(Line)
      /\ \A m \in DOMAIN E : /\ E[m].line \in LinesOf(log, v)
                             /\ E[m].kind = "screening" <=> Screening(log[E[m].line])
                             /\ Opens(E[m]) <=> Provisional(log[E[m].line])
      /\ \A n \in LinesOf(log, v) : \E m \in DOMAIN E : E[m].line = n
  BY ZenonT(60), EntriesMatchTheLog, EntriesOfTheVersion
<1>2. DOMAIN E = 1 .. Len(E) /\ Len(E) \in Nat
  BY EntriesAre
<1>3. \A a, b \in DOMAIN E : a < b => E[a].line < E[b].line
  BY EntriesIncrease
<1>4. PICK q \in 1 .. (k - 1) :
           /\ Opens(E[q]) /\ E[q].line = E[k].resolves
           /\ \A m \in (q + 1) .. (k - 1) : E[m].kind = "screening" /\ ~Opens(E[m])
  BY NothingBetween
<1>. DEFINE o == E[q].line
<1>0. k \in DOMAIN E
  OBVIOUS
<1>. HIDE DEF E, log
<1>5. q \in DOMAIN E /\ q < k
  BY <1>0, <1>2
<1>6. \A n \in LinesOf(log, v) : n \in Int /\ n >= 1 /\ n \in DOMAIN log /\ log[n].version = v
  BY <1>1 DEF LinesOf
<1>7. o \in LinesOf(log, v) /\ i \in LinesOf(log, v) /\ o < i /\ Provisional(log[o])
  BY <1>0, <1>1, <1>3, <1>4, <1>5
<1>8. o \in Earlier(log, i)
  BY <1>6, <1>7 DEF Earlier
<1>9. ASSUME NEW n \in (o + 1) .. (i - 1), log[n].version = v PROVE Screening(log[n]) /\ ~Provisional(log[n])
  <2>1. n \in LinesOf(log, v)
    <3>1. n \in DOMAIN log
      BY <1>1, <1>6, <1>7
    <3>. QED BY <1>9, <3>1 DEF LinesOf
  <2>2. PICK m \in DOMAIN E : E[m].line = n
    BY <1>1, <2>1
  <2>3. q < m /\ m < k
    <3>1. ~(m < q) /\ m # q
      BY <1>3, <1>5, <1>6, <1>7, <2>2
    <3>2. ~(k < m) /\ m # k
      BY <1>0, <1>3, <1>6, <1>7, <2>2
    <3>. QED BY <1>0, <1>2, <1>5, <3>1, <3>2
  <2>4. m \in (q + 1) .. (k - 1)
    BY <1>0, <1>2, <1>5, <2>3
  <2>. QED BY <1>1, <1>4, <2>2, <2>4
<1>10. log[o].version = v /\ log[i].version = v
  BY <1>6, <1>7
<1>11. o \in Resolved(log, i)
  BY <1>7, <1>8, <1>9, <1>10 DEF Resolved
<1>. QED BY <1>4, <1>11 DEF E, log

\* Each entry is the one the producer would write.
LEMMA EntryIsTheProducers ==
  ASSUME NEW r \in RecordType, NEW j, Errors(r, j) = {}, r.decisionLog # None,
         NEW v \in RecordedVersions(r), NEW k \in DOMAIN EntriesIn(r, v)
  PROVE  EntriesIn(r, v)[k] = Entry(j.decisions, EntriesIn(r, v)[k].line)
<1>. DEFINE e == EntriesIn(r, v)[k]
            log == j.decisions
<1>1. e \in EntryType
  BY EntriesAre
<1>2. /\ log \in Seq(Line) /\ e.line \in DOMAIN log /\ e.body = Body(log[e.line])
      /\ e.kind = "screening" <=> Screening(log[e.line])
  BY EntriesMatchTheLog, EntriesOfTheVersion DEF LinesOf
<1>3. EntryErrors(v, EntriesIn(r, v), k) = {}
  BY NoConsistencyErrors
<1>4. e.kind = "screening" => e.resolves = 0
  BY <1>3, NoEntryErrors
<1>5. e.kind = "confirmation" => e.resolves \in Resolved(log, e.line)
  BY ResolvesTheOpen
<1>. HIDE DEF e, log
<1>6. e.kind = "confirmation" => e.resolves = CHOOSE x \in Resolved(log, e.line) : TRUE
  BY <1>2, <1>5, ResolvedIsOne
<1>7. /\ e.kind = IF Screening(log[e.line]) THEN "screening" ELSE "confirmation"
      /\ e.resolves = IF Screening(log[e.line]) THEN 0
                      ELSE IF Resolved(log, e.line) = {} THEN 0 ELSE CHOOSE x \in Resolved(log, e.line) : TRUE
  BY <1>1, <1>2, <1>4, <1>5, <1>6 DEF EntryType
<1>8. e = [line |-> e.line, body |-> e.body, kind |-> e.kind, resolves |-> e.resolves]
  BY <1>1 DEF EntryType
<1>9. e = Entry(log, e.line)
  BY <1>2, <1>7, <1>8 DEF Entry
<1>. QED BY <1>9 DEF e, log

\* And so are the entries of a version.
LEMMA EntriesAreTheProducers ==
  ASSUME NEW r \in RecordType, NEW j, Errors(r, j) = {}, r.decisionLog # None, NEW v \in RecordedVersions(r)
  PROVE  EntriesIn(r, v) = EntriesOf(j.decisions, v)
<1>. DEFINE E == EntriesIn(r, v)
            log == j.decisions
            F == EntriesOf(log, v)
            m == Len(E)
            n == Cardinality(LinesOf(log, v))
            f == [k \in 1 .. m |-> E[k].line]
            g == [k \in 1 .. n |-> F[k].line]
<1>1. /\ log \in Seq(Line)
      /\ \A k \in DOMAIN E : E[k].line \in LinesOf(log, v) /\ E[k] = Entry(log, E[k].line)
      /\ \A i \in LinesOf(log, v) : \E k \in DOMAIN E : E[k].line = i
  <2>1. log \in Seq(Line)
    BY EntriesMatchTheLog
  <2>2. \A k \in DOMAIN E : E[k].line \in LinesOf(log, v)
    BY EntriesOfTheVersion
  <2>3. \A k \in DOMAIN E : E[k] = Entry(log, E[k].line)
    BY EntryIsTheProducers
  <2>4. \A i \in LinesOf(log, v) : \E k \in DOMAIN E : E[k].line = i
    BY EntriesOfTheVersion
  <2>. QED BY <2>1, <2>2, <2>3, <2>4
<1>2. E \in Seq(EntryType) /\ DOMAIN E = 1 .. m /\ m \in Nat
  BY EntriesAre
<1>3. \A a, b \in DOMAIN E : a < b => E[a].line < E[b].line
  BY EntriesIncrease
<1>4. /\ n \in Nat /\ F \in [1 .. n -> {Entry(log, i) : i \in LinesOf(log, v)}]
      /\ \A i \in LinesOf(log, v) : \E k \in 1 .. n : F[k] = Entry(log, i)
      /\ \A a, b \in 1 .. n : a < b => F[a].line < F[b].line
  <2>. HIDE DEF log
  <2>. QED BY <1>1, EntriesEnumerate
<1>5. \A i \in LinesOf(log, v) : i \in Int
  BY <1>1 DEF LinesOf
<1>6. \A i : Entry(log, i).line = i
  BY DEF Entry
<1>. HIDE DEF E, log, F
<1>7. \A k \in 1 .. n : F[k].line \in LinesOf(log, v) /\ F[k] = Entry(log, F[k].line)
  <2>. TAKE k \in 1 .. n
  <2>1. PICK i \in LinesOf(log, v) : F[k] = Entry(log, i)
    BY <1>4
  <2>. QED BY <1>6, <2>1
<1>. HIDE DEF m, n
<1>8. \A k \in 1 .. m : f[k] \in Int /\ \E i \in 1 .. n : g[i] = f[k]
  <2>. TAKE k \in 1 .. m
  <2>1. E[k].line \in LinesOf(log, v)
    BY <1>1, <1>2
  <2>2. PICK i \in 1 .. n : F[i] = Entry(log, E[k].line)
    BY <1>4, <2>1
  <2>3. g[i] = f[k]
    BY <1>6, <2>2
  <2>. QED BY <1>5, <2>1, <2>3
<1>9. \A k \in 1 .. n : g[k] \in Int /\ \E i \in 1 .. m : f[i] = g[k]
  <2>. TAKE k \in 1 .. n
  <2>1. F[k].line \in LinesOf(log, v)
    BY <1>7
  <2>2. PICK i \in DOMAIN E : E[i].line = F[k].line
    BY <1>1, <2>1
  <2>3. i \in 1 .. m /\ f[i] = g[k]
    BY <1>2, <2>2
  <2>. QED BY <1>5, <2>1, <2>3
<1>10. \A a, b \in 1 .. m : a < b => f[a] < f[b]
  BY <1>2, <1>3
<1>11. \A a, b \in 1 .. n : a < b => g[a] < g[b]
  BY <1>4
<1>12. m = n /\ \A k \in 1 .. m : f[k] = g[k]
  <2>1. m \in Nat /\ n \in Nat
    BY <1>2, <1>4 DEF m, n
  <2>. HIDE DEF f, g
  <2>2. n \in Nat /\ m \in Nat
    BY <2>1
  <2>3. HeldBy(m, f, n, g) /\ HeldBy(n, g, m, f)
    BY <1>8, <1>9 DEF HeldBy
  <2>4. IncreasesTo(m, f) /\ IncreasesTo(n, g)
    BY <1>10, <1>11 DEF IncreasesTo
  <2>. QED BY <2>2, <2>3, <2>4, IncreasingIsUnique
<1>13. \A k \in 1 .. m : E[k] = F[k]
  <2>. TAKE k \in 1 .. m
  <2>1. E[k].line = F[k].line
    BY <1>12
  <2>. QED BY <1>1, <1>2, <1>7, <1>12, <2>1
<1>14. E = [k \in 1 .. m |-> E[k]]
  BY <1>2
<1>15. F = [k \in 1 .. n |-> F[k]]
  BY <1>4
<1>16. E = F
  BY <1>12, <1>13, <1>14, <1>15
<1>. QED BY <1>16 DEF E, F, log

\* A line follows from the results on disk: its entry does, by the verifier's
\* statement of the gate's rule, which is the gate's.
LEMMA LineFollows ==
  ASSUME record \in RecordType, Errors(record, job) = {}, record.decisionLog # None, NEW i \in DOMAIN job.decisions
  PROVE  FollowsFromResults(job.decisions[i])
<1>. DEFINE log == job.decisions
            l == log[i]
            estimate == job.results[l.evidence["candidate"].at].result.score
                        - job.results[l.evidence["parent"].at].result.score
<1>1. log \in Seq(Line) /\ \E e \in AllEntries(record) : e.line = i
  BY EntriesMatchTheLog
<1>2. PICK e \in AllEntries(record) : e.line = i
  BY <1>1
<1>3. l \in Line
  BY <1>1
<1>4. PICK v \in RecordedVersions(record) : \E k \in DOMAIN EntriesIn(record, v) : e = EntriesIn(record, v)[k]
  BY EntriesAre
<1>5. PICK k \in DOMAIN EntriesIn(record, v) : e = EntriesIn(record, v)[k]
  BY <1>4
<1>6. e.body = Body(l) /\ (e.kind = "screening" <=> Screening(l)) /\ e.kind \in {"screening", "confirmation"}
  <2>1. e.body = Body(l) /\ (e.kind = "screening" <=> Screening(l))
    BY <1>2, <1>5, EntriesOfTheVersion
  <2>2. e \in EntryType
    BY EntriesAre
  <2>. QED BY <2>1, <2>2 DEF EntryType
<1>7. /\ Body(l).evidence = l.evidence /\ Body(l).estimate = l.estimate /\ Body(l).verdict = l.verdict
      /\ Body(l).disposition = l.disposition
      /\ Gated(Body(l)) <=> Gated(l)
      /\ Exploratory(Body(l)) <=> Exploratory(l)
  BY <1>3, BodySays
<1>8. l.estimate = estimate
  <2>1. e.body.estimate = job.results[e.body.evidence["candidate"].at].result.score
                          - job.results[e.body.evidence["parent"].at].result.score
    BY SMTT(30), NoMeasurementErrors
  <2>. HIDE DEF l
  <2>2. e.body.estimate = l.estimate /\ e.body.evidence = l.evidence
    BY <1>6, <1>7
  <2>. QED BY SMTT(30), <2>1, <2>2
<1>9. l.verdict = GateVerdict(estimate)
  <2>1. e.body.verdict = ExpectedVerdict(e.body.estimate)
    BY NoRuleErrors
  <2>. QED BY ZenonT(60), <1>6, <1>7, <1>8, <2>1 DEF ExpectedVerdict, GateVerdict
<1>10. l.disposition = IF ~Screening(l) THEN GateConfirms(l.verdict)
                       ELSE IF Exploratory(l) THEN "revert" ELSE GateScreens(l.verdict, Gated(l))
  <2>1. e.body.disposition = ExpectedDisposition(e)
    BY NoRuleErrors
  <2>2. l.verdict \in {"clears", "below", "inconclusive"}
    BY <1>3 DEF Line
  <2>3. CASE ~Screening(l)
    BY <1>6, <1>7, <2>1, <2>3 DEF ExpectedDisposition, GateConfirms
  <2>4. CASE Screening(l) /\ Exploratory(l)
    BY <1>6, <1>7, <2>1, <2>4 DEF ExpectedDisposition
  <2>5. CASE Screening(l) /\ ~Exploratory(l)
    <3>1. l.disposition = IF l.verdict = "below" THEN "revert"
                          ELSE IF l.verdict = "inconclusive" \/ Gated(l) THEN "provisional" ELSE "keep"
      BY <1>6, <1>7, <2>1, <2>5 DEF ExpectedDisposition
    <3>. HIDE DEF l
    <3>2. l.disposition = GateScreens(l.verdict, Gated(l))
      BY SMTT(45), <2>2, <3>1 DEF GateScreens
    <3>. QED BY <2>5, <3>2
  <2>. QED BY <2>3, <2>4, <2>5
<1>. HIDE DEF l
<1>11. FollowsFromResults(l)
  BY <1>8, <1>9, <1>10 DEF FollowsFromResults
<1>. QED BY <1>11 DEF l

LEMMA FollowIfAccepted == IInv => AcceptedDecisionsFollow
<1>. SUFFICES ASSUME IInv, Accepted, record.decisionLog # None PROVE AcceptedDecisionsFollow
  BY DEF AcceptedDecisionsFollow
<1>1. record \in RecordType /\ Errors(record, job) = {}
  BY AcceptedMeans
<1>2. \A v \in RecordedVersions(record) : record.versions[v].decisions = EntriesOf(job.decisions, v)
  BY <1>1, EntriesAreTheProducers DEF EntriesIn
<1>3. \A i \in DOMAIN job.decisions : FollowsFromResults(job.decisions[i])
  BY <1>1, LineFollows
<1>. QED BY <1>2, <1>3 DEF AcceptedDecisionsFollow

-----------------------------------------------------------------------------
(* The readers of the decision log: what the converter accepts.            *)

LEMMA ConvertsLine ==
  ASSUME NEW log \in Seq(Line), Converts(log), NEW i \in DOMAIN log
  PROVE  /\ log # <<>> /\ log[i] \in Line /\ i \in Nat /\ i \in 1 .. Len(log) /\ Len(log) \in Nat
         /\ log[i].num = i /\ LineConverts(log[i], Opened(log, i))
         /\ Provisional(log[i]) => OpenBefore(log, i) = {}
<1>1. log # <<>> /\ log[i] \in Line /\ i \in Nat /\ i \in 1 .. Len(log) /\ Len(log) \in Nat
  OBVIOUS
<1>2. /\ log[i].num = i /\ LineConverts(log[i], Opened(log, i))
      /\ Provisional(log[i]) => OpenBefore(log, i) = {}
  BY DEF Converts
<1>. QED BY <1>1, <1>2

\* No two decisions are open at a time.
LEMMA OneOpen ==
  ASSUME NEW log \in Seq(Line), Converts(log), NEW i \in DOMAIN log,
         NEW x \in OpenBefore(log, i), NEW y \in OpenBefore(log, i)
  PROVE  x = y
<1>1. ASSUME NEW a \in OpenBefore(log, i), NEW b \in OpenBefore(log, i), a < b PROVE FALSE
  <2>1. /\ a \in DOMAIN log /\ b \in DOMAIN log /\ b \in Int /\ a \in 1 .. (b - 1) /\ b < i /\ i \in Int
        /\ Provisional(log[a]) /\ Provisional(log[b])
        /\ \A k \in (a + 1) .. (i - 1) : log[k].replicates # log[a].version
    BY <1>1 DEF OpenBefore, Earlier
  <2>2. OpenBefore(log, b) = {}
    BY <2>1, ConvertsLine
  <2>3. a \in OpenBefore(log, b)
    BY SMTT(45), <2>1 DEF OpenBefore, Earlier
  <2>. QED BY <2>2, <2>3
<1>2. x \in Int /\ y \in Int
  BY DEF OpenBefore, Earlier
<1>. QED BY <1>1, <1>2

\* A decision that the converter has open is the one a confirmation of the
\* version resolves, by the producer's rule.
LEMMA OpenIsResolved ==
  ASSUME NEW log \in Seq(Line), Converts(log), NEW i \in DOMAIN log,
         NEW o \in OpenBefore(log, i), log[o].version = log[i].version
  PROVE  o \in Resolved(log, i)
<1>1. /\ o \in Earlier(log, i) /\ Provisional(log[o]) /\ o \in Int /\ o >= 1 /\ o \in DOMAIN log
      /\ i \in Int /\ i \in 1 .. Len(log) /\ Len(log) \in Nat
      /\ \A k \in (o + 1) .. (i - 1) : log[k].replicates # log[o].version
  BY DEF OpenBefore, Earlier
<1>2. ASSUME NEW k \in (o + 1) .. (i - 1), log[k].version = log[i].version
      PROVE  Screening(log[k]) /\ ~Provisional(log[k])
  <2>1. k \in DOMAIN log /\ k \in Int /\ o < k
    BY <1>1
  <2>2. ~Screening(log[k]) => log[k].replicates = log[k].version
    BY <2>1, ConvertsLine DEF LineConverts
  <2>3. Provisional(log[k]) => OpenBefore(log, k) = {}
    BY <2>1, ConvertsLine
  <2>4. o \in OpenBefore(log, k)
    BY <1>1, <2>1 DEF OpenBefore, Earlier
  <2>. QED BY <1>1, <1>2, <2>2, <2>3, <2>4
<1>. QED BY <1>1, <1>2 DEF Resolved

LEMMA ConfirmationResolves ==
  ASSUME NEW log \in Seq(Line), Converts(log), NEW i \in DOMAIN log, ~Screening(log[i])
  PROVE  \E o \in OpenBefore(log, i) :
           /\ o \in Resolved(log, i) /\ Entry(log, i).resolves = o
           /\ log[i].replicates = log[i].version /\ log[i].disposition # "provisional"
<1>1. LineConverts(log[i], Opened(log, i))
  BY ConvertsLine
<1>2. log[i].replicates = log[i].version /\ log[i].disposition # "provisional" /\ Opened(log, i) # None
  BY <1>1 DEF LineConverts
<1>3. PICK o \in OpenBefore(log, i) : log[o].version = log[i].replicates
  BY <1>2 DEF Opened
<1>4. o \in Resolved(log, i)
  BY <1>2, <1>3, OpenIsResolved
<1>5. \A z \in Resolved(log, i) : z = o
  BY <1>4, ResolvedIsOne
<1>6. Entry(log, i).resolves = o
  BY <1>4, <1>5 DEF Entry
<1>. QED BY <1>2, <1>4, <1>6

\* A provisional decision that is no longer open was resolved in between.
LEMMA ClosedInBetween ==
  ASSUME NEW log \in Seq(Line), Converts(log), NEW i \in DOMAIN log,
         NEW j \in Earlier(log, i), Provisional(log[j]), j \notin OpenBefore(log, i)
  PROVE  \E k \in (j + 1) .. (i - 1) : k \in DOMAIN log /\ ~Screening(log[k]) /\ Entry(log, k).resolves = j
<1>. DEFINE at == {k \in (j + 1) .. (i - 1) : log[k].replicates = log[j].version}
<1>1. j \in DOMAIN log /\ j \in Nat /\ i \in 1 .. Len(log) /\ Len(log) \in Nat /\ log[j] \in Line
  BY DEF Earlier
<1>2. at \in SUBSET Nat /\ at # {}
  BY <1>1 DEF OpenBefore
<1>3. PICK k \in at : \A m \in at : k <= m
  <2>. HIDE DEF at
  <2>. QED BY <1>2, LeastElement
<1>4. k \in (j + 1) .. (i - 1) /\ k \in DOMAIN log /\ k \in Int /\ log[k].replicates = log[j].version
  BY <1>1, <1>3
<1>5. j \in OpenBefore(log, k)
  <2>1. \A m \in (j + 1) .. (k - 1) : log[m].replicates # log[j].version
    BY SMTT(45), <1>1, <1>3, <1>4
  <2>. QED BY SMTT(45), <1>1, <1>4, <2>1 DEF OpenBefore, Earlier
<1>6. ~Screening(log[k])
  <2>1. log[j].version \in Version
    BY <1>1 DEF Line
  <2>. QED BY <1>4, <2>1, NoneIsApart DEF Screening
<1>7. Entry(log, k).resolves = j
  <2>1. PICK o \in OpenBefore(log, k) : Entry(log, k).resolves = o
    BY <1>4, <1>6, ConfirmationResolves
  <2>. QED BY <1>4, <1>5, <2>1, OneOpen
<1>. QED BY <1>4, <1>6, <1>7

\* The converter's rules for a line are the verifier's.
LEMMA ConvertedLine ==
  ASSUME NEW log \in Seq(Line), Converts(log), NEW i \in DOMAIN log
  PROVE  LET e == Entry(log, i) IN
         /\ e.body.verdict = ExpectedVerdict(e.body.estimate)
         /\ e.body.disposition = ExpectedDisposition(e)
         /\ PlanErrors(e) = {}
         /\ ~(e.kind = "screening" /\ e.body.disposition = "keep" /\ Gated(e.body))
<1>. DEFINE l == log[i]
            e == Entry(log, i)
<1>1. l \in Line /\ LineConverts(l, Opened(log, i))
  BY ConvertsLine
<1>2. /\ e.body = Body(l) /\ (e.kind = "screening" <=> Screening(l)) /\ e.kind \in {"screening", "confirmation"}
  BY DEF Entry
<1>3. /\ Body(l).estimate = l.estimate /\ Body(l).verdict = l.verdict
      /\ Body(l).disposition = l.disposition
      /\ Gated(Body(l)) <=> Gated(l)
      /\ Exploratory(Body(l)) <=> Exploratory(l)
      /\ Body(l).plan = l.plan /\ Body(l).suite = l.suite
  <2>1. Body(l).plan = l.plan /\ Body(l).suite = l.suite
    BY <1>1 DEF Body, Line
  <2>. QED BY <1>1, <2>1, BodySays
<1>. HIDE DEF l, e
<1>4. l.estimate \in Int /\ l.verdict \in {"clears", "below", "inconclusive"} /\ l.disposition \in {"keep", "revert", "provisional"}
  BY <1>1 DEF Line
<1>5. /\ l.verdict = MeasuredVerdict(l.estimate)
      /\ IF Gated(l) THEN GatedShape(l) ELSE ReplayShape(l)
      /\ l.disposition = ConverterExpects(l)
  BY <1>1 DEF LineConverts
<1>6. l.verdict = ExpectedVerdict(l.estimate)
  <2>1. MinEffect \in Nat /\ Spread \in Nat
    BY DecisionLinesAssumption
  <2>. QED BY <1>4, <1>5, <2>1 DEF MeasuredVerdict, ExpectedVerdict, Lower, Upper
<1>7. /\ ~Gated(l) => l.plan = None /\ ~Exploratory(l)
      /\ l.plan # None => PlanIsWhole(l.plan)
  BY <1>5 DEF ReplayShape, Leaves, GatedShape, Exploratory
<1>8. CASE ~Screening(l)
  <2>1. l.disposition = IF l.verdict = "clears" THEN "keep" ELSE "revert"
    BY <1>5, <1>8 DEF ConverterExpects
  <2>2. e.body.disposition = ExpectedDisposition(e)
    BY <1>2, <1>3, <1>8, <2>1 DEF ExpectedDisposition
  <2>3. PlanErrors(e) = {}
    BY <1>2, <1>8 DEF PlanErrors, If
  <2>. QED BY <1>2, <1>3, <1>6, <1>8, <2>2, <2>3 DEF e
<1>9. CASE Screening(l) /\ ~Gated(l)
  <2>1. l.disposition = [below |-> "revert", clears |-> "keep", inconclusive |-> "provisional"][l.verdict]
    BY <1>5, <1>9 DEF ConverterExpects
  <2>2. e.body.disposition = ExpectedDisposition(e)
    BY <1>2, <1>3, <1>4, <1>7, <1>9, <2>1 DEF ExpectedDisposition
  <2>3. PlanErrors(e) = {}
    BY <1>2, <1>3, <1>7, <1>9 DEF PlanErrors, If
  <2>. QED BY <1>2, <1>3, <1>6, <1>9, <2>2, <2>3 DEF e
<1>10. CASE Screening(l) /\ Gated(l)
  <2>. DEFINE reverts == l.verdict = "below" \/ Exploratory(l)
  <2>1. \/ reverts /\ Leaves(l, {"suite", "look"}) /\ l.disposition = "revert"
        \/ ~reverts /\ l.disposition = "provisional"
    BY <1>4, <1>5, <1>10 DEF ConverterExpects
  <2>2. e.body.disposition = ExpectedDisposition(e)
    BY <1>2, <1>3, <1>4, <1>10, <2>1 DEF ExpectedDisposition
  <2>3. PlanErrors(e) = {}
    <3>1. l.plan # None => l.plan.exploratory = (l.plan.size < l.plan.planned)
      BY <1>7 DEF PlanIsWhole
    <3>2. l.plan # None /\ l.plan.exploratory => l.suite = None
      BY <2>1 DEF Leaves, Exploratory
    <3>. QED BY <1>2, <1>3, <3>1, <3>2 DEF PlanErrors, If
  <2>. QED BY <1>2, <1>3, <1>6, <1>10, <2>1, <2>2, <2>3 DEF e
<1>. QED BY <1>8, <1>9, <1>10

\* No provisional screening is stacked on one that the verifier takes for open.
LEMMA NothingStacked ==
  ASSUME NEW log \in Seq(Line), Converts(log), NEW i \in DOMAIN log, Provisional(log[i]),
         NEW all, all = {Entry(log, k) : k \in DOMAIN log}
  PROVE  OpenLineBefore(all, Entry(log, i)) = {}
<1>. SUFFICES ASSUME NEW f \in OpenLineBefore(all, Entry(log, i)) PROVE FALSE
  OBVIOUS
<1>1. /\ f \in all /\ f.line < Entry(log, i).line
      /\ f.kind = "screening" /\ f.body.disposition = "provisional"
      /\ \A g \in all : g.line < Entry(log, i).line /\ g.line > f.line /\ g.kind = "confirmation" => g.resolves # f.line
  BY DEF OpenLineBefore
<1>2. PICK j \in DOMAIN log : f = Entry(log, j)
  BY <1>1
<1>3. Entry(log, i).line = i /\ f.line = j /\ i \in Nat /\ j \in Nat /\ i \in 1 .. Len(log) /\ log[j] \in Line
  BY <1>2 DEF Entry
<1>4. j \in Earlier(log, i)
  BY <1>1, <1>2, <1>3 DEF Earlier
<1>5. Provisional(log[j])
  <2>1. f.body = Body(log[j]) /\ (f.kind = "screening" <=> Screening(log[j]))
    BY <1>2 DEF Entry
  <2>2. Body(log[j]).disposition = log[j].disposition
    BY <1>3, BodySays
  <2>. QED BY <1>1, <2>1, <2>2 DEF Provisional
<1>6. j \notin OpenBefore(log, i)
  BY ConvertsLine
<1>7. PICK k \in (j + 1) .. (i - 1) : k \in DOMAIN log /\ ~Screening(log[k]) /\ Entry(log, k).resolves = j
  BY <1>4, <1>5, <1>6, ClosedInBetween
<1>8. Entry(log, k) \in all /\ Entry(log, k).line = k /\ Entry(log, k).kind = "confirmation"
  BY <1>7 DEF Entry
<1>. QED BY <1>1, <1>3, <1>7, <1>8

LEMMA ConvertedFollowsTheRules ==
  ASSUME NEW log \in Seq(Line), Converts(log), NEW all, all = {Entry(log, i) : i \in DOMAIN log}
  PROVE  /\ RuleErrors(all) \subseteq {"protocol:replication_reduction"}
         /\ (\A e \in all : e.kind = "confirmation" => ~Reduced(all, e)) => RuleErrors(all) = {}
<1>. DEFINE verdicts(e) ==
              IF e.body.verdict # ExpectedVerdict(e.body.estimate) THEN {"decision:verdict_inconsistent"}
              ELSE If(e.body.disposition # ExpectedDisposition(e), "decision:disposition_inconsistent")
            keeps(e) == If(e.kind = "screening" /\ e.body.disposition = "keep" /\ Gated(e.body), "protocol:unconfirmed_keep")
            reduces(e) == If(e.kind = "confirmation" /\ Reduced(all, e), "protocol:replication_reduction")
            stacks(e) == If(e.kind = "screening" /\ e.body.disposition = "provisional" /\ OpenLineBefore(all, e) # {},
                            "protocol:stacked_provisional")
            found(e) == UNION {verdicts(e), PlanErrors(e), keeps(e), reduces(e), stacks(e)}
<1>1. ASSUME NEW e \in all
      PROVE  /\ found(e) \subseteq {"protocol:replication_reduction"}
             /\ (e.kind = "confirmation" => ~Reduced(all, e)) => found(e) = {}
  <2>1. PICK i \in DOMAIN log : e = Entry(log, i)
    OBVIOUS
  <2>2. /\ e.body.verdict = ExpectedVerdict(e.body.estimate)
        /\ e.body.disposition = ExpectedDisposition(e)
        /\ PlanErrors(e) = {}
        /\ ~(e.kind = "screening" /\ e.body.disposition = "keep" /\ Gated(e.body))
    BY <2>1, ConvertedLine
  <2>3. ~(e.kind = "screening" /\ e.body.disposition = "provisional" /\ OpenLineBefore(all, e) # {})
    <3>1. e.body = Body(log[i]) /\ (e.kind = "screening" <=> Screening(log[i])) /\ log[i] \in Line
      BY <2>1 DEF Entry
    <3>2. Body(log[i]).disposition = log[i].disposition
      BY <3>1, BodySays
    <3>3. Provisional(log[i]) => OpenLineBefore(all, Entry(log, i)) = {}
      BY NothingStacked
    <3>. QED BY <2>1, <3>1, <3>2, <3>3 DEF Provisional
  <2>4. verdicts(e) = {} /\ keeps(e) = {} /\ stacks(e) = {} /\ reduces(e) \subseteq {"protocol:replication_reduction"}
        /\ ((e.kind = "confirmation" => ~Reduced(all, e)) => reduces(e) = {})
    BY <2>2, <2>3 DEF If
  <2>. HIDE DEF verdicts, keeps, stacks, reduces
  <2>. QED BY <2>2, <2>4
<1>2. RuleErrors(all) = UNION {found(e) : e \in all}
  BY DEF RuleErrors
<1>. HIDE DEF found, verdicts, keeps, stacks, reduces
<1>3. RuleErrors(all) \subseteq {"protocol:replication_reduction"}
  BY <1>1, <1>2
<1>4. ASSUME \A e \in all : e.kind = "confirmation" => ~Reduced(all, e)
      PROVE  RuleErrors(all) = {}
  <2>1. \A e \in all : found(e) = {}
    BY <1>1, <1>4
  <2>. QED BY <1>2, <2>1
<1>. QED BY <1>3, <1>4

\* The lines behind the entries of a version.
LEMMA EntryLines ==
  ASSUME NEW log \in Seq(Line), NEW v, NEW E, E = EntriesOf(log, v)
  PROVE  /\ E \in Seq(EntryType) /\ DOMAIN E = 1 .. Len(E) /\ Len(E) \in Nat
         /\ \A k \in DOMAIN E : E[k].line \in LinesOf(log, v) /\ E[k] = Entry(log, E[k].line)
         /\ \A i \in LinesOf(log, v) : \E k \in DOMAIN E : E[k] = Entry(log, i) /\ E[k].line = i
         /\ \A i, k \in DOMAIN E : i < k => E[i].line < E[k].line
         /\ \A i \in LinesOf(log, v) : i \in DOMAIN log /\ i \in Nat /\ log[i] \in Line /\ log[i].version = v
<1>. DEFINE n == Cardinality(LinesOf(log, v))
<1>1. E \in Seq(EntryType) /\ Len(E) = n
  BY EntriesTyped
<1>2. /\ E \in [1 .. n -> {Entry(log, i) : i \in LinesOf(log, v)}]
      /\ \A i \in LinesOf(log, v) : \E k \in 1 .. n : E[k] = Entry(log, i)
      /\ \A i, k \in 1 .. n : i < k => E[i].line < E[k].line
  BY EntriesEnumerate
<1>3. DOMAIN E = 1 .. n
  BY <1>2
<1>4. \A i : Entry(log, i).line = i
  BY DEF Entry
<1>5. \A i \in LinesOf(log, v) : i \in DOMAIN log /\ i \in Nat /\ log[i] \in Line /\ log[i].version = v
  BY DEF LinesOf
<1>. HIDE DEF n
<1>6. ASSUME NEW k \in DOMAIN E PROVE E[k].line \in LinesOf(log, v) /\ E[k] = Entry(log, E[k].line)
  <2>1. PICK i \in LinesOf(log, v) : E[k] = Entry(log, i)
    BY <1>2, <1>3
  <2>. QED BY <1>4, <2>1
<1>7. \A i \in LinesOf(log, v) : \E k \in DOMAIN E : E[k] = Entry(log, i) /\ E[k].line = i
  BY <1>2, <1>3, <1>4
<1>8. DOMAIN E = 1 .. Len(E) /\ Len(E) \in Nat
  BY <1>1
<1>. QED BY <1>1, <1>2, <1>3, <1>5, <1>6, <1>7, <1>8

\* The entries of a version are in order, and each confirmation resolves the
\* decision that the verifier finds open.
LEMMA ConvertedIsConsistent ==
  ASSUME NEW log \in Seq(Line), Converts(log), NEW v, NEW E, E = EntriesOf(log, v), NEW k \in DOMAIN E
  PROVE  EntryErrors(v, E, k) = {}
<1>. DEFINE e == E[k]
            i == e.line
<1>1. /\ E \in Seq(EntryType) /\ DOMAIN E = 1 .. Len(E) /\ Len(E) \in Nat
      /\ \A q \in DOMAIN E : E[q].line \in LinesOf(log, v) /\ E[q] = Entry(log, E[q].line)
      /\ \A n \in LinesOf(log, v) : \E q \in DOMAIN E : E[q] = Entry(log, n) /\ E[q].line = n
      /\ \A p, q \in DOMAIN E : p < q => E[p].line < E[q].line
      /\ \A n \in LinesOf(log, v) : n \in DOMAIN log /\ n \in Nat /\ log[n] \in Line /\ log[n].version = v
  BY SMTT(45), EntryLines
<1>. HIDE DEF e
<1>2. /\ i \in LinesOf(log, v) /\ i \in DOMAIN log /\ i \in Nat /\ log[i] \in Line /\ log[i].version = v
      /\ e = Entry(log, i)
  BY <1>1 DEF e
<1>3. /\ e.body = Body(log[i]) /\ e.kind = (IF Screening(log[i]) THEN "screening" ELSE "confirmation")
      /\ Screening(log[i]) => e.resolves = 0
  BY <1>2 DEF Entry
<1>4. /\ Body(log[i]).version = v /\ Body(log[i]).replicates = log[i].replicates
      /\ Body(log[i]).disposition = log[i].disposition /\ (Screening(Body(log[i])) <=> Screening(log[i]))
  <2>1. Body(log[i]).replicates = log[i].replicates
    BY <1>2 DEF Body, Line
  <2>. QED BY <1>2, <2>1, BodySays
<1>5. ASSUME k > 1 PROVE ~(E[k - 1].line >= e.line)
  <2>1. k - 1 \in DOMAIN E /\ k - 1 < k
    BY <1>1, <1>5
  <2>2. E[k - 1].line < e.line /\ E[k - 1].line \in Nat
    BY <1>1, <2>1 DEF e
  <2>. QED BY <1>2, <2>2
<1>6. ASSUME ~Screening(log[i])
      PROVE  log[i].replicates = v /\ log[i].disposition # "provisional" /\ e.resolves \in OpenIn(E, k)
  <2>1. PICK o \in OpenBefore(log, i) :
           /\ o \in Resolved(log, i) /\ Entry(log, i).resolves = o
           /\ log[i].replicates = log[i].version /\ log[i].disposition # "provisional"
    BY <1>2, <1>6, ConfirmationResolves
  <2>2. /\ o \in DOMAIN log /\ o \in Int /\ o < i /\ Provisional(log[o]) /\ log[o].version = v
        /\ \A n \in (o + 1) .. (i - 1) : log[n].version = v => Screening(log[n])
    BY <1>2, <2>1 DEF Resolved, Earlier
  <2>3. PICK q \in DOMAIN E : E[q] = Entry(log, o) /\ E[q].line = o
    <3>1. o \in LinesOf(log, v)
      BY <2>2 DEF LinesOf
    <3>. QED BY <1>1, <3>1
  <2>4. q < k
    <3>1. q # k /\ ~(k < q)
      BY <1>1, <1>2, <2>2, <2>3 DEF e
    <3>. QED BY <1>1, <3>1
  <2>5. E[q].kind = "screening" /\ E[q].body.disposition = "provisional"
    <3>1. log[o] \in Line
      BY <2>2
    <3>2. Body(log[o]).disposition = log[o].disposition
      BY <3>1, BodySays
    <3>. QED BY <2>2, <2>3, <3>2 DEF Provisional, Entry
  <2>6. ASSUME NEW m \in (q + 1) .. (k - 1) PROVE E[m].kind # "confirmation"
    <3>1. m \in DOMAIN E /\ q < m /\ m < k
      BY <1>1, <2>3, <2>4
    <3>2. E[q].line < E[m].line /\ E[m].line < E[k].line /\ E[m].line \in LinesOf(log, v) /\ E[m] = Entry(log, E[m].line)
      BY <1>1, <3>1
    <3>3. E[m].line \in (o + 1) .. (i - 1) /\ log[E[m].line].version = v
      BY SMTT(45), <1>1, <1>2, <2>2, <2>3, <3>2 DEF e
    <3>4. Screening(log[E[m].line])
      BY <2>2, <3>3
    <3>. QED BY <3>2, <3>4 DEF Entry
  <2>7. q \in 1 .. (k - 1)
    BY <1>1, <2>3, <2>4
  <2>8. E[q].line \in OpenIn(E, k)
    BY <2>5, <2>6, <2>7 DEF OpenIn
  <2>. QED BY <1>2, <2>1, <2>3, <2>8
<1>7. /\ ~(k > 1 /\ E[k - 1].line >= e.line)
      /\ ~(e.body.version # v)
      /\ ~((e.kind = "screening") # Screening(e.body))
      /\ ~(e.kind = "confirmation" /\ e.body.replicates # v)
      /\ ~(e.kind = "confirmation" /\ e.resolves \notin OpenIn(E, k))
      /\ ~(e.kind = "confirmation" /\ e.body.disposition = "provisional")
      /\ ~(e.kind = "screening" /\ e.resolves # 0)
  BY <1>3, <1>4, <1>5, <1>6 DEF Screening
<1>. QED BY <1>7 DEF EntryErrors, If, e

\* The last event of a version says what the last of its entries says.
LEMMA LastEventSaysTheStatus ==
  ASSUME NEW log \in Seq(Line), Converts(log), NEW v, LinesOf(log, v) # {}
  PROVE  EventOf(log, Last(EntriesOf(log, v)).line) =
           [kept |-> "accepted", reverted |-> "rejected", provisional |-> "proposed"][DecidedStatus(EntriesOf(log, v))]
<1>. DEFINE E == EntriesOf(log, v)
            i == E[Len(E)].line
<1>1. /\ E \in Seq(EntryType) /\ DOMAIN E = 1 .. Len(E) /\ Len(E) \in Nat
      /\ \A q \in DOMAIN E : E[q].line \in LinesOf(log, v) /\ E[q] = Entry(log, E[q].line)
      /\ \A n \in LinesOf(log, v) : \E q \in DOMAIN E : E[q] = Entry(log, n) /\ E[q].line = n
      /\ \A p, q \in DOMAIN E : p < q => E[p].line < E[q].line
      /\ \A n \in LinesOf(log, v) : n \in DOMAIN log /\ n \in Nat /\ log[n] \in Line /\ log[n].version = v
  BY EntryLines
<1>2. Len(E) \in DOMAIN E /\ Last(E) = E[Len(E)]
  <2>1. PICK n \in LinesOf(log, v) : TRUE
    OBVIOUS
  <2>2. PICK q \in DOMAIN E : E[q].line = n
    BY <1>1, <2>1
  <2>. HIDE DEF E
  <2>. QED BY <1>1, <2>2 DEF Last
<1>. HIDE DEF E
<1>3. /\ i \in LinesOf(log, v) /\ i \in DOMAIN log /\ i \in Nat /\ log[i] \in Line /\ log[i].version = v
      /\ Last(E) = Entry(log, i) /\ Last(E).line = i
  BY <1>1, <1>2
<1>4. ASSUME NEW k \in DOMAIN log, k > i PROVE log[k].version # v
  <2>1. SUFFICES ASSUME log[k].version = v PROVE FALSE
    OBVIOUS
  <2>2. PICK q \in DOMAIN E : E[q].line = k
    BY <1>1, <2>1 DEF LinesOf
  <2>3. q <= Len(E) /\ q \in Int
    BY <1>1
  <2>4. q < Len(E) => E[q].line < i
    BY <1>1, <1>2
  <2>5. k \in Int
    BY <1>4
  <2>. QED BY <1>3, <1>4, <1>1, <2>2, <2>3, <2>4, <2>5
<1>5. DecidedStatus(E) = StatusOf[log[i].disposition]
  <2>1. Entry(log, i).body = Body(log[i])
    BY DEF Entry
  <2>2. Body(log[i]).disposition = log[i].disposition
    BY <1>3, BodySays
  <2>. QED BY <1>3, <2>1, <2>2 DEF DecidedStatus
<1>6. log[i].disposition \in {"keep", "revert", "provisional"}
  BY <1>3 DEF Line
<1>7. CASE ~Provisional(log[i])
  <2>1. log[i].disposition # "provisional"
    <3>1. ~Screening(log[i]) => log[i].disposition # "provisional"
      BY <1>3, ConfirmationResolves
    <3>. QED BY <1>7, <3>1 DEF Provisional
  <2>2. EventOf(log, i) = Outcome(log[i].disposition)
    BY <1>7 DEF EventOf
  <2>. QED BY <1>3, <1>5, <1>6, <2>1, <2>2 DEF Outcome, StatusOf, E
<1>8. CASE Provisional(log[i])
  <2>. DEFINE revising == {k \in DOMAIN log : ~Screening(log[k]) /\ k > i /\ i \in OpenBefore(log, k)
                                                /\ log[k].replicates = log[i].version}
  <2>1. ASSUME NEW k \in revising PROVE FALSE
    <3>1. k \in DOMAIN log /\ ~Screening(log[k]) /\ k > i /\ log[k].replicates = v
      BY <1>3
    <3>2. log[k].replicates = log[k].version
      BY <3>1, ConfirmationResolves
    <3>. QED BY <1>4, <3>1, <3>2
  <2>2. revising = {}
    BY <2>1
  <2>3. EventOf(log, i) = "proposed"
    BY <1>8, <2>2 DEF EventOf
  <2>. QED BY <1>3, <1>5, <1>8, <2>3 DEF Provisional, StatusOf, E
<1>. QED BY <1>7, <1>8

\* Of a log that the converter accepts, however it came about.
ReadAlikeIfConverted(log) ==
  LET all == {Entry(log, i) : i \in DOMAIN log}
      decided == {log[i].version : i \in DOMAIN log}
  IN  /\ (\A i \in DOMAIN log : log[i].unit = log[1].unit) => ProducerReads(log)
      /\ RuleErrors(all) \subseteq {"protocol:replication_reduction"}
      /\ \A v \in decided :
           LET entries == EntriesOf(log, v) IN
           /\ \A k \in DOMAIN entries : EntryErrors(v, entries, k) = {}
           /\ EventOf(log, Last(entries).line) =
                [kept |-> "accepted", reverted |-> "rejected", provisional |-> "proposed"][DecidedStatus(entries)]

LEMMA ConvertedIsReadAlike ==
  ASSUME NEW log \in Seq(Line), Converts(log)
  PROVE  ReadAlikeIfConverted(log)
<1>1. ASSUME \A i \in DOMAIN log : log[i].unit = log[1].unit PROVE ProducerReads(log)
  <2>1. log # <<>>
    BY DEF Converts
  <2>2. ASSUME NEW i \in DOMAIN log
        PROVE  log[i].num = i /\ (~Screening(log[i]) => log[i].replicates = log[i].version /\ Resolved(log, i) # {})
    BY ConvertsLine, ConfirmationResolves
  <2>. QED BY <1>1, <2>1, <2>2 DEF ProducerReads
<1>2. RuleErrors({Entry(log, i) : i \in DOMAIN log}) \subseteq {"protocol:replication_reduction"}
  BY ConvertedFollowsTheRules
<1>3. ASSUME NEW v \in {log[i].version : i \in DOMAIN log}
      PROVE  /\ \A k \in DOMAIN EntriesOf(log, v) : EntryErrors(v, EntriesOf(log, v), k) = {}
             /\ EventOf(log, Last(EntriesOf(log, v)).line) =
                  [kept |-> "accepted", reverted |-> "rejected", provisional |-> "proposed"][DecidedStatus(EntriesOf(log, v))]
  <2>1. LinesOf(log, v) # {}
    BY DEF LinesOf
  <2>. QED BY <2>1, ConvertedIsConsistent, LastEventSaysTheStatus
<1>. QED BY <1>1, <1>2, <1>3 DEF ReadAlikeIfConverted

-----------------------------------------------------------------------------
(* What a rollout leaves that nobody alters.                               *)

\* Every block is that of the snapshot one below its place.
LEMMA SnapshotsAreInOrder ==
  ASSUME NEW j \in JobDirectory, SnapshotsFollow(j)
  PROVE  /\ Len(j.log) \in Nat /\ j.log \in Seq(Block) /\ DOMAIN j.log = 1 .. Len(j.log)
         /\ Snapshots(j) = 0 .. (Len(j.log) - 1)
         /\ DeclaredIn(j.log) = Snapshots(j)
         /\ \A v \in Snapshots(j) :
              /\ v \in Version /\ v \in Nat /\ v + 1 \in DOMAIN j.log /\ j.versions[v] \in Tree
              /\ j.log[v + 1] \in Block /\ j.log[v + 1].version = v
              /\ LineOf(j.log, v) = v + 1 /\ BlockOf(j.log, v) = j.log[v + 1]
<1>1. /\ Len(j.log) \in Nat /\ j.log \in Seq(Block) /\ DOMAIN j.log = 1 .. Len(j.log)
      /\ j.versions \in [Version -> Optional(Tree)]
  BY DEF JobDirectory
<1>2. Snapshots(j) = 0 .. (Len(j.log) - 1) /\ \A v \in Snapshots(j) : j.log[v + 1].version = v
  BY DEF SnapshotsFollow, BlockFollows
<1>3. ASSUME NEW v \in Snapshots(j)
      PROVE  /\ v \in Version /\ v \in Nat /\ v + 1 \in DOMAIN j.log /\ j.versions[v] \in Tree
             /\ j.log[v + 1] \in Block /\ j.log[v + 1].version = v
  <2>1. v \in Version /\ j.versions[v] \in Tree
    BY <1>1 DEF Snapshots, Optional
  <2>2. v \in Nat /\ v + 1 \in DOMAIN j.log
    BY <1>1, <1>2
  <2>. QED BY <1>1, <1>2, <2>1, <2>2
<1>4. ASSUME NEW i \in DOMAIN j.log PROVE i - 1 \in Snapshots(j) /\ j.log[i].version = i - 1 /\ i \in Nat
  <2>1. i - 1 \in Snapshots(j) /\ (i - 1) + 1 = i /\ i \in Nat
    BY <1>1, <1>2
  <2>2. j.log[(i - 1) + 1].version = i - 1
    BY <1>2, <2>1
  <2>. QED BY <2>1, <2>2
<1>5. DeclaredIn(j.log) = Snapshots(j)
  <2>1. \A v \in Snapshots(j) : v \in DeclaredIn(j.log)
    BY <1>3 DEF DeclaredIn
  <2>2. \A v \in DeclaredIn(j.log) : v \in Snapshots(j)
    BY <1>4 DEF DeclaredIn
  <2>. QED BY <2>1, <2>2
<1>6. ASSUME NEW v \in Snapshots(j) PROVE LineOf(j.log, v) = v + 1
  <2>1. LineOf(j.log, v) \in DOMAIN j.log /\ BlockOf(j.log, v).version = v
    BY <1>1, <1>5, FirstLines
  <2>2. LineOf(j.log, v) - 1 = v /\ LineOf(j.log, v) \in Nat
    BY <1>4, <2>1 DEF BlockOf
  <2>. QED BY <1>3, <2>2
<1>. QED BY <1>1, <1>2, <1>3, <1>5, <1>6 DEF BlockOf

LEMMA HowManySnapshots ==
  ASSUME NEW j \in JobDirectory, SnapshotsFollow(j)
  PROVE  NextVersion(j) = Len(j.log)
<1>1. Len(j.log) \in Nat /\ Snapshots(j) = 0 .. (Len(j.log) - 1)
  BY SnapshotsAreInOrder
<1>2. \A n \in Nat : Cardinality(0 .. (n - 1)) = n
  <2>. TAKE n \in Nat
  <2>1. Cardinality(0 .. (n - 1)) = IF 0 > n - 1 THEN 0 ELSE (n - 1) - 0 + 1
    BY FS_Interval
  <2>. QED BY <2>1
<1>. QED BY <1>1, <1>2 DEF NextVersion

\* Only the last block is open.
LEMMA OpenIsTheLast ==
  ASSUME NEW j \in JobDirectory, SnapshotsFollow(j), Undecided(j)
  PROVE  Len(j.log) - 1 \in Snapshots(j) /\ Len(j.log) \in DOMAIN j.log /\ j.log[Len(j.log)].status = "none"
<1>1. /\ Len(j.log) \in Nat /\ DOMAIN j.log = 1 .. Len(j.log) /\ Snapshots(j) = 0 .. (Len(j.log) - 1)
      /\ \A v \in Snapshots(j) : j.log[v + 1].status = "none" => v + 1 = Len(j.log)
  BY SnapshotsAreInOrder DEF SnapshotsFollow, BlockFollows
<1>2. PICK i \in DOMAIN j.log : j.log[i].status = "none"
  BY DEF Undecided
<1>3. i - 1 \in Snapshots(j) /\ (i - 1) + 1 = i
  BY <1>1, <1>2
<1>4. i = Len(j.log)
  BY <1>1, <1>2, <1>3
<1>. QED BY <1>2, <1>3, <1>4

\* A directory that has one version, its block and its visible result more.
GrowsBy(j, k, policy, block) ==
  LET v == Len(j.log) IN
  /\ k.versions = [j.versions EXCEPT ![v] = Clean(policy)]
  /\ DOMAIN k.log = 1 .. (v + 1) /\ k.log[v + 1] = block /\ \A i \in 1 .. v : k.log[i] = j.log[i]
  /\ k.results = [j.results EXCEPT ![<<v, "visible">>] = Measurement(policy, VisibleSuite, block.score)]
  /\ k.stray = j.stray /\ k.reward = j.reward

BlockIsNext(v, block) ==
  /\ block.version = v /\ block.score \in Int
  /\ IF v = 0 THEN block.parent = None /\ What(block) = <<"baseline", "none">>
     ELSE block.parent \in 0 .. (v - 1) /\ What(block) \in Decisions

LEMMA Appended ==
  ASSUME NEW S, NEW s \in Seq(S), NEW x
  PROVE  /\ Len(Append(s, x)) = Len(s) + 1 /\ Len(s) \in Nat
         /\ DOMAIN Append(s, x) = 1 .. (Len(s) + 1) /\ DOMAIN s = 1 .. Len(s)
         /\ \A i \in 1 .. Len(s) : Append(s, x)[i] = s[i]
         /\ Append(s, x)[Len(s) + 1] = x
OBVIOUS

LEMMA GrownFollows ==
  ASSUME NEW j \in JobDirectory, SnapshotsFollow(j), ~Undecided(j), Len(j.log) \in Version,
         NEW policy \in Policy \ Oversized, NEW block \in Block, BlockIsNext(Len(j.log), block),
         NEW k \in JobDirectory, GrowsBy(j, k, policy, block)
  PROVE  /\ SnapshotsFollow(k)
         /\ Snapshots(k) = Snapshots(j) \cup {Len(j.log)} /\ Len(j.log) \notin Snapshots(j)
         /\ Len(k.log) = Len(j.log) + 1 /\ k.log[Len(j.log) + 1] = block
         /\ \A w \in Snapshots(j) :
              /\ k.log[w + 1] = j.log[w + 1] /\ k.versions[w] = j.versions[w]
              /\ \A r \in RoleSet \cup {"visible"} : k.results[<<w, r>>] = j.results[<<w, r>>]
<1>. DEFINE v == Len(j.log)
<1>1. /\ v \in Nat /\ j.log \in Seq(Block) /\ DOMAIN j.log = 1 .. v /\ Snapshots(j) = 0 .. (v - 1)
      /\ j.versions \in [Version -> Optional(Tree)] /\ j.results \in [Places -> Optional(Measured)]
  BY SnapshotsAreInOrder DEF JobDirectory
<1>2. /\ Len(k.log) = v + 1 /\ DOMAIN k.log = 1 .. (v + 1) /\ k.log[v + 1] = block
      /\ \A i \in 1 .. v : k.log[i] = j.log[i]
  <2>1. DOMAIN k.log = 1 .. (v + 1) /\ k.log[v + 1] = block /\ \A i \in 1 .. v : k.log[i] = j.log[i]
    BY DEF GrowsBy
  <2>2. k.log \in Seq(Block)
    BY DEF JobDirectory
  <2>3. Len(k.log) = v + 1
    BY <1>1, <2>1, <2>2
  <2>. QED BY <2>1, <2>3
<1>3. Clean(policy) \in Tree /\ Clean(policy) # None /\ MethodView(Clean(policy)) = policy
  <2>1. Clean(policy) \in Tree
    BY DEF Clean, Tree
  <2>. QED BY <2>1, NoneIsApart DEF MethodView, Clean
<1>4. k.versions[v] = Clean(policy) /\ \A w \in Version : w # v => k.versions[w] = j.versions[w]
  BY <1>1 DEF GrowsBy
<1>5. Snapshots(k) = Snapshots(j) \cup {v}
  BY <1>3, <1>4 DEF Snapshots
<1>6. ASSUME NEW w \in Snapshots(j)
      PROVE  /\ w # v /\ w \in Version /\ w \in Nat /\ w + 1 \in 1 .. v /\ k.log[w + 1] = j.log[w + 1]
             /\ k.versions[w] = j.versions[w]
             /\ \A r \in RoleSet \cup {"visible"} : k.results[<<w, r>>] = j.results[<<w, r>>]
  <2>1. w # v /\ w \in Version /\ w \in Nat /\ w + 1 \in 1 .. v
    BY <1>1 DEF Snapshots
  <2>2. \A r : <<w, r>> # <<v, "visible">>
    BY <2>1
  <2>3. \A r \in RoleSet \cup {"visible"} : k.results[<<w, r>>] = j.results[<<w, r>>]
    <3>. TAKE r \in RoleSet \cup {"visible"}
    <3>1. k.results = [j.results EXCEPT ![<<v, "visible">>] = Measurement(policy, VisibleSuite, block.score)]
      BY DEF GrowsBy
    <3>2. <<w, r>> \in Places
      BY <2>1 DEF Places, RoleSet
    <3>. QED BY <1>1, <2>2, <3>1, <3>2
  <2>. QED BY <1>2, <1>4, <2>1, <2>3
<1>7. k.results[<<v, "visible">>] = Measurement(policy, VisibleSuite, block.score)
  <2>1. <<v, "visible">> \in Places
    BY DEF Places
  <2>. QED BY <1>1, <2>1 DEF GrowsBy
<1>8. SnapshotsFollow(k)
  <2>1. ~k.stray /\ k.reward = "low"
    BY DEF SnapshotsFollow, GrowsBy
  <2>2. Snapshots(k) = 0 .. (Len(k.log) - 1)
    BY <1>1, <1>2, <1>5
  <2>3. ASSUME NEW w \in Snapshots(j) PROVE BlockFollows(k.log, w) /\ SnapshotFollows(k, w)
    <3>1. BlockFollows(j.log, w) /\ SnapshotFollows(j, w) /\ j.log[w + 1].status # "none"
      BY <1>1, <1>6 DEF SnapshotsFollow, Undecided
    <3>2. w = 0 => k.log[1] = j.log[1]
      BY <1>1, <1>2
    <3>3. BlockFollows(k.log, w)
      BY <1>6, <3>1, <3>2 DEF BlockFollows
    <3>4. SnapshotFollows(k, w)
      BY <1>6, <3>1 DEF SnapshotFollows
    <3>. QED BY <3>3, <3>4
  <2>4. BlockFollows(k.log, v)
    <3>1. v = 0 => k.log[1] = block
      BY <1>2
    <3>. QED BY <1>2, <3>1 DEF BlockFollows, BlockIsNext
  <2>5. SnapshotFollows(k, v)
    BY <1>2, <1>3, <1>4, <1>7 DEF SnapshotFollows
  <2>. QED BY <1>5, <2>1, <2>2, <2>3, <2>4, <2>5 DEF SnapshotsFollow
<1>9. v \notin Snapshots(j)
  BY <1>1
<1>. QED BY <1>2, <1>5, <1>6, <1>8, <1>9

\* A line stays what it is as long as the snapshots and the results that it is
\* about do.
LEMMA LineStays ==
  ASSUME NEW j, NEW k, NEW l, LineRests(j, l),
         k.versions[l.version] = j.versions[l.version], k.versions[l.parent] = j.versions[l.parent],
         \A r \in RoleSet : k.results[MeasuredAt(l)[r]] = j.results[MeasuredAt(l)[r]]
  PROVE  /\ LineRests(k, l)
         /\ ~Screening(l) /\ ConfirmationSays(j, l) => ConfirmationSays(k, l)
<1>1. EvidenceAt(k.results, MeasuredAt(l), mode = "gated") = EvidenceAt(j.results, MeasuredAt(l), mode = "gated")
  BY DEF EvidenceAt
<1>2. LineRests(k, l)
  BY <1>1 DEF LineRests
<1>3. ASSUME ~Screening(l), ConfirmationSays(j, l) PROVE ConfirmationSays(k, l)
  <2>1. \A r \in RoleSet : k.results[<<l.version, r>>] = j.results[<<l.version, r>>]
    BY <1>3 DEF MeasuredAt
  <2>. QED BY <1>3, <2>1 DEF ConfirmationSays
<1>. QED BY <1>2, <1>3

\* The versions that a line is about, and the results it rests on.
LEMMA ParentIsASnapshot ==
  ASSUME NEW j \in JobDirectory, SnapshotsFollow(j), NEW v \in Snapshots(j) \ {0}
  PROVE  j.log[v + 1].parent \in Snapshots(j) /\ j.log[v + 1].parent \in 0 .. (v - 1) /\ What(j.log[v + 1]) \in Decisions
<1>1. BlockFollows(j.log, v)
  BY DEF SnapshotsFollow
<1>2. j.log[v + 1].parent \in 0 .. (v - 1) /\ What(j.log[v + 1]) \in Decisions
  BY <1>1 DEF BlockFollows
<1>3. Snapshots(j) = 0 .. (Len(j.log) - 1) /\ Len(j.log) \in Nat /\ v \in Nat
  BY SnapshotsAreInOrder
<1>. QED BY <1>2, <1>3

LEMMA PlacesMeasured ==
  ASSUME NEW l, NEW r \in RoleSet
  PROVE  /\ Screening(l) => MeasuredAt(l)[r] = <<IF r = "parent" THEN l.parent ELSE l.version, "visible">>
         /\ ~Screening(l) => MeasuredAt(l)[r] = <<l.version, r>>
BY DEF MeasuredAt, VisiblePlaces

-----------------------------------------------------------------------------
(* The steps of a rollout.                                                 *)

\* D is the log of decisions with a line more, after m.
OneLineMore(decisions, line, D, m) ==
  /\ m = (IF decisions = None THEN 0 ELSE Len(decisions))
  /\ DOMAIN D = 1 .. (m + 1) /\ Len(D) = m + 1 /\ D[m + 1] = line /\ Last(D) = line
  /\ D \in Seq(Line) /\ D # None /\ D # <<>>
  /\ decisions # None => decisions \in Seq(Line) /\ DOMAIN decisions = 1 .. m
  /\ \A i \in 1 .. m : decisions # None /\ D[i] = decisions[i]

LEMMA OldAndNewLines ==
  ASSUME NEW decisions \in Optional(Seq(Line)), NEW line \in Line, NEW D, D = WithLine(decisions, line)
  PROVE  \E m \in Nat : OneLineMore(decisions, line, D, m)
<1>1. D \in Seq(Line) /\ D # None /\ D # <<>> /\ Last(D) = line
  BY AppendLine
<1>2. CASE decisions = None
  <2>1. D = <<line>> /\ Len(D) = 1 /\ D[1] = line /\ DOMAIN D = {1}
    BY <1>2 DEF WithLine
  <2>2. DOMAIN D = 1 .. (0 + 1) /\ Len(D) = 0 + 1 /\ D[0 + 1] = line /\ \A i \in 1 .. 0 : FALSE
    BY <2>1
  <2>3. OneLineMore(decisions, line, D, 0)
    BY <1>1, <1>2, <2>2 DEF OneLineMore
  <2>. QED BY <2>3
<1>3. CASE decisions # None
  <2>1. decisions \in Seq(Line)
    BY <1>3 DEF Optional
  <2>2. D = Append(decisions, line)
    BY <1>3 DEF WithLine
  <2>3. /\ Len(D) = Len(decisions) + 1 /\ Len(decisions) \in Nat
        /\ DOMAIN D = 1 .. (Len(decisions) + 1) /\ DOMAIN decisions = 1 .. Len(decisions)
        /\ \A i \in 1 .. Len(decisions) : D[i] = decisions[i]
        /\ D[Len(decisions) + 1] = line
    BY <2>1, <2>2, Appended
  <2>4. OneLineMore(decisions, line, D, Len(decisions))
    BY <1>1, <1>3, <2>1, <2>3 DEF OneLineMore
  <2>. QED BY <2>3, <2>4
<1>. QED BY <1>2, <1>3

\* A line keeps its place when another comes after the log.
LEMMA PlaceStays ==
  ASSUME NEW m \in Nat, NEW log, NEW D, \A i \in 1 .. m : D[i] = log[i],
         Len(log) = m, Len(D) = m + 1, NEW i \in 1 .. m
  PROVE  /\ InPlace(log, i) => InPlace(D, i)
         /\ EndsIts(D, i) => EndsIts(log, i)
         /\ EndsIts(D, i) /\ i = m => Screening(D[m + 1])
<1>1. i > 1 => i - 1 \in 1 .. m
  OBVIOUS
<1>2. InPlace(log, i) => InPlace(D, i)
  BY <1>1 DEF InPlace
<1>3. i # m => i + 1 \in 1 .. m
  OBVIOUS
<1>. QED BY <1>2, <1>3 DEF EndsIts

\* The decisions follow as before when a version comes whose decision is
\* not the gate's.
LEMMA UngatedDecisionsFollow ==
  ASSUME NEW j \in JobDirectory, SnapshotsFollow(j), DecisionsFollow(j), ~Undecided(j), Len(j.log) \in Version,
         NEW policy \in Policy \ Oversized, NEW block \in Block, BlockIsNext(Len(j.log), block),
         NEW k \in JobDirectory, GrowsBy(j, k, policy, block), k.decisions = j.decisions,
         block.status # "none", mode # "none" => block.status # "kept"
  PROVE  DecisionsFollow(k)
<1>. DEFINE n == Len(j.log)
<1>1. /\ SnapshotsFollow(k)
      /\ Snapshots(k) = Snapshots(j) \cup {n} /\ n \notin Snapshots(j)
      /\ Len(k.log) = n + 1 /\ k.log[n + 1] = block
      /\ \A w \in Snapshots(j) :
           /\ k.log[w + 1] = j.log[w + 1] /\ k.versions[w] = j.versions[w]
           /\ \A r \in RoleSet \cup {"visible"} : k.results[<<w, r>>] = j.results[<<w, r>>]
  BY GrownFollows
<1>2. ASSUME j.decisions # None, NEW i \in DOMAIN j.decisions PROVE LineFollowsRollout(k, i)
  <2>. DEFINE l == j.decisions[i]
  <2>1. /\ LineFollowsRollout(j, i) /\ l = k.decisions[i]
        /\ l.version \in Snapshots(j) \ {0} /\ l.parent = j.log[l.version + 1].parent
    BY <1>2 DEF DecisionsFollow, LineFollowsRollout
  <2>2. l.parent \in Snapshots(j)
    BY <2>1, ParentIsASnapshot
  <2>. HIDE DEF l
  <2>3. ASSUME NEW r \in RoleSet PROVE k.results[MeasuredAt(l)[r]] = j.results[MeasuredAt(l)[r]]
    <3>1. /\ k.results[<<l.version, r>>] = j.results[<<l.version, r>>]
          /\ \A w \in {l.version, l.parent} : k.results[<<w, "visible">>] = j.results[<<w, "visible">>]
      BY <1>1, <2>1, <2>2
    <3>. QED BY SMTT(45), <3>1, PlacesMeasured
  <2>4. /\ LineRests(j, l) /\ (IF Screening(l) THEN ScreeningSays(l) ELSE ConfirmationSays(j, l))
        /\ InPlace(j.decisions, i)
        /\ EndsIts(j.decisions, i) => What(j.log[l.version + 1]) = Said[l.disposition]
    BY SMTT(45), <2>1 DEF LineFollowsRollout, l
  <2>5. LineRests(k, l) /\ (~Screening(l) => ConfirmationSays(k, l))
    BY SMTT(45), <1>1, <2>1, <2>2, <2>3, <2>4, LineStays
  <2>6. k.log[l.version + 1] = j.log[l.version + 1] /\ l.version \in Snapshots(k) \ {0}
    BY <1>1, <2>1
  <2>. QED BY <2>1, <2>4, <2>5, <2>6 DEF LineFollowsRollout, l
<1>3. \A v \in Snapshots(j) : j.log[v + 1].status # "none"
  BY SnapshotsAreInOrder DEF Undecided
<1>4. \A v : Decided(j, v) <=> Decided(k, v)
  BY DEF Decided
<1>. QED BY <1>1, <1>2, <1>3, <1>4 DEF DecisionsFollow

LEMMA WithVersionGrows ==
  ASSUME NEW j \in JobDirectory, SnapshotsFollow(j), Len(j.log) \in Version,
         NEW policy \in Policy \ Oversized, NEW score \in Int, NEW block \in Block, block.score = score,
         NEW k, k = WithVersion(j, Len(j.log), policy, score, block)
  PROVE  /\ k \in JobDirectory /\ k.decisions = j.decisions /\ k.main = j.main
         /\ GrowsBy(j, k, policy, block)
         /\ Snapshots(k) = Snapshots(j) \cup {Len(j.log)}
<1>. DEFINE v == Len(j.log)
<1>1. k \in JobDirectory /\ k.decisions = j.decisions /\ k.log = Append(j.log, block) /\ Snapshots(k) = Snapshots(j) \cup {v}
  <2>1. /\ k \in JobDirectory
        /\ k.decisions = j.decisions /\ k.log \in Seq(Block) \ {<<>>} /\ k.log = Append(j.log, block)
        /\ Snapshots(k) = Snapshots(j) \cup {v}
        /\ k.results[<<v, "visible">>] # None
        /\ \A p \in Places : j.results[p] # None => k.results[p] # None
    BY WithVersionTyped
  <2>. QED BY <2>1
<1>2. /\ k.versions = [j.versions EXCEPT ![v] = Clean(policy)]
      /\ k.results = [j.results EXCEPT ![<<v, "visible">>] = Measurement(policy, VisibleSuite, score)]
      /\ k.stray = j.stray /\ k.reward = j.reward /\ k.main = j.main
  BY DEF WithVersion, JobDirectory
<1>3. DOMAIN k.log = 1 .. (v + 1) /\ k.log[v + 1] = block /\ \A i \in 1 .. v : k.log[i] = j.log[i]
  <2>1. j.log \in Seq(Block)
    BY DEF JobDirectory
  <2>. QED BY <1>1, <2>1, Appended
<1>. QED BY <1>1, <1>2, <1>3 DEF GrowsBy

\* The directory with its last block written again and another log of decisions.
Redecided(j, decisions, disposition) == [j EXCEPT !.decisions = decisions, !.log = LastSays(@, disposition)]
OnlyDecided(m, k, decisions) == k.decisions = decisions /\ k.results = m.results /\ k.versions = m.versions

LEMMA WithLineGrows ==
  ASSUME NEW j \in JobDirectory, SnapshotsFollow(j), Len(j.log) \in Version,
         NEW policy \in Policy \ Oversized, NEW block \in Block,
         NEW m \in JobDirectory, GrowsBy(j, m, policy, block), m.log \in Seq(Block) \ {<<>>},
         NEW disposition \in {"keep", "revert", "provisional"}, NEW decisions,
         NEW k, k = Redecided(m, decisions, disposition)
  PROVE  /\ OnlyDecided(m, k, decisions)
         /\ Says(block, disposition) \in Block
         /\ GrowsBy(j, k, policy, Says(block, disposition))
<1>. DEFINE v == Len(j.log)
            said == Says(block, disposition)
            log == LastSays(m.log, disposition)
<1>1. /\ v \in Nat /\ m.log \in Seq(Block) /\ DOMAIN m.log = 1 .. (v + 1) /\ m.log[v + 1] = block
      /\ \A i \in 1 .. v : m.log[i] = j.log[i]
  BY SnapshotsAreInOrder DEF GrowsBy
<1>2. Len(m.log) = v + 1
  BY <1>1
<1>3. said \in Block
  BY SaysTyped
<1>4. said.score = block.score
  BY DEF Says, Block
<1>5. log = [m.log EXCEPT ![v + 1] = said]
  BY <1>1, <1>2 DEF LastSays
<1>. HIDE DEF said, log
<1>6. DOMAIN log = 1 .. (v + 1) /\ log[v + 1] = said /\ \A i \in 1 .. v : log[i] = j.log[i]
  BY <1>1, <1>5
<1>7. /\ k.decisions = decisions /\ k.results = m.results /\ k.versions = m.versions /\ k.log = log
      /\ k.stray = m.stray /\ k.reward = m.reward
  BY DEF log, Redecided, JobDirectory
<1>8. GrowsBy(j, k, policy, said)
  BY <1>4, <1>6, <1>7 DEF GrowsBy
<1>. QED BY <1>3, <1>7, <1>8 DEF said, OnlyDecided

\* What a block says, in its status and in its closing word.
LEMMA SaysWhat ==
  ASSUME NEW v \in Version, NEW parent \in Version \cup {None}, NEW score \in Int,
         NEW disposition \in {"keep", "revert", "provisional"},
         NEW block, block = Says(NewBlock(v, parent, score), disposition)
  PROVE  /\ block \in Block /\ block.version = v /\ block.parent = parent /\ block.score = score
         /\ What(block) = Said[disposition] /\ What(block) \in Decisions
<1>1. NewBlock(v, parent, score) \in Block
  BY NewBlockTyped
<1>2. block \in Block
  BY <1>1, SaysTyped
<1>3. block.version = v /\ block.parent = parent /\ block.score = score
  BY DEF Says, NewBlock
<1>4. /\ disposition = "keep" => block.status = "kept" /\ block.closing = "keep"
      /\ disposition = "revert" => block.status = "reverted" /\ block.closing = "revert"
      /\ disposition = "provisional" => block.status = "none" /\ block.closing = "none"
  BY DEF Says, NewBlock
<1>5. What(block) = Said[disposition]
  BY <1>4 DEF What, Said
<1>6. Said[disposition] \in Decisions
  BY DEF Said, Decisions
<1>. QED BY <1>2, <1>3, <1>5, <1>6

\* A new version comes after those there are, and its parent is one of them.
LEMMA NextIsLast ==
  ASSUME NEW j \in JobDirectory, SnapshotsFollow(j), NEW parent \in Standing(j)
  PROVE  /\ NextVersion(j) = Len(j.log) /\ Len(j.log) \in Nat /\ Len(j.log) # 0
         /\ parent \in Snapshots(j) /\ parent \in Version /\ parent \in 0 .. (Len(j.log) - 1)
<1>1. parent \in Snapshots(j)
  BY DEF Standing
<1>. QED BY <1>1, SnapshotsAreInOrder, HowManySnapshots

LEMMA InheritKeeps ==
  ASSUME IInv, Inherit, SnapshotsFollow(job), DecisionsFollow(job)
  PROVE  SnapshotsFollow(job') /\ DecisionsFollow(job')
<1>1. Snapshots(job) = {} /\ job \in JobDirectory
  BY DEF IInv, TypeOK, Inherit
<1>2. PICK policy \in Policy \ Oversized, score \in Scores :
        job' = WithVersion(job, 0, policy, score, [NewBlock(0, None, score) EXCEPT !.status = "baseline"])
  BY DEF Inherit
<1>. DEFINE block == [NewBlock(0, None, score) EXCEPT !.status = "baseline"]
<1>3. 0 \in Version /\ score \in Int
  BY RecordAssumption
<1>4. block \in Block /\ block.status = "baseline" /\ block.score = score /\ BlockIsNext(0, block)
  <2>1. NewBlock(0, None, score) \in Block
    BY <1>3, NewBlockTyped
  <2>2. block \in Block
    BY <2>1 DEF Block, Statuses
  <2>3. /\ block.status = "baseline" /\ block.closing = "none" /\ block.score = score
        /\ block.version = 0 /\ block.parent = None
    BY DEF NewBlock
  <2>. HIDE DEF block
  <2>. QED BY <1>3, <2>2, <2>3 DEF BlockIsNext, What
<1>5. Len(job.log) = 0 /\ ~Undecided(job)
  <2>1. /\ Len(job.log) \in Nat /\ DOMAIN job.log = 1 .. Len(job.log)
        /\ Snapshots(job) = 0 .. (Len(job.log) - 1)
    BY <1>1, SnapshotsAreInOrder
  <2>2. Len(job.log) # 0 => 0 \in Snapshots(job)
    BY <2>1
  <2>3. Len(job.log) = 0
    BY <1>1, <2>2
  <2>. QED BY <2>1, <2>3 DEF Undecided
<1>6. PICK k : k = job'
  OBVIOUS
<1>. HIDE DEF block
<1>7. k = WithVersion(job, Len(job.log), policy, score, block)
  BY <1>2, <1>5, <1>6 DEF block
<1>8. k \in JobDirectory /\ k.decisions = job.decisions /\ GrowsBy(job, k, policy, block)
  BY <1>1, <1>3, <1>4, <1>5, <1>7, WithVersionGrows
<1>9. SnapshotsFollow(k)
  BY <1>1, <1>3, <1>4, <1>5, <1>8, GrownFollows
<1>10. DecisionsFollow(k)
  BY <1>1, <1>3, <1>4, <1>5, <1>8, UngatedDecisionsFollow
<1>. QED BY <1>6, <1>9, <1>10

LEMMA TryKeeps ==
  ASSUME IInv, Try, SnapshotsFollow(job), DecisionsFollow(job)
  PROVE  SnapshotsFollow(job') /\ DecisionsFollow(job')
<1>1. job \in JobDirectory /\ MayTry(job) /\ ~Undecided(job) /\ mode \in Modes
  BY DEF IInv, TypeOK, Try, MayTry
<1>. DEFINE v == NextVersion(job)
<1>2. PICK parent \in Standing(job), policy \in Policy \ Oversized, disposition \in AgentMay :
        job' = WithVersion(job, v, policy, 0, Says(NewBlock(v, parent, 0), disposition))
  BY DEF Try
<1>3. disposition \in {"keep", "revert", "provisional"} /\ disposition # "provisional" /\ (mode # "none" => disposition = "revert")
  BY DEF AgentMay
<1>4. /\ v = Len(job.log) /\ v \in Nat /\ v # 0 /\ v \in Version
      /\ parent \in Version /\ parent \in 0 .. (v - 1) /\ 0 \in Int
  BY <1>1, NextIsLast, NextIsAVersion
<1>. HIDE DEF v
<1>. DEFINE block == Says(NewBlock(v, parent, 0), disposition)
<1>5. /\ block \in Block /\ block.version = v /\ block.parent = parent /\ block.score = 0
      /\ What(block) = Said[disposition] /\ What(block) \in Decisions
  <2>1. parent \in Version \cup {None}
    BY <1>4
  <2>. HIDE DEF block
  <2>2. block = Says(NewBlock(v, parent, 0), disposition)
    BY DEF block
  <2>. QED BY <1>3, <1>4, <2>1, <2>2, SaysWhat
<1>6. PICK k : k = job'
  OBVIOUS
<1>7. k = WithVersion(job, Len(job.log), policy, 0, block)
  BY <1>2, <1>4, <1>6
<1>. HIDE DEF block
<1>8. BlockIsNext(Len(job.log), block)
  BY <1>4, <1>5 DEF BlockIsNext
<1>9. block.status # "none" /\ (mode # "none" => block.status # "kept")
  <2>1. block.status = Said[disposition][1]
    BY <1>5 DEF What
  <2>2. disposition \in {"keep", "revert"}
    BY <1>3
  <2>. QED BY <1>3, <2>1, <2>2 DEF Said
<1>10. k \in JobDirectory /\ k.decisions = job.decisions /\ GrowsBy(job, k, policy, block)
  BY <1>1, <1>4, <1>5, <1>7, WithVersionGrows
<1>11. SnapshotsFollow(k)
  BY <1>1, <1>4, <1>5, <1>8, <1>10, GrownFollows
<1>12. DecisionsFollow(k)
  BY <1>1, <1>4, <1>5, <1>8, <1>9, <1>10, UngatedDecisionsFollow
<1>. QED BY <1>6, <1>11, <1>12

-----------------------------------------------------------------------------
(* What a line says when it is written.                                    *)

LEMMA NewLineSays ==
  ASSUME NEW j, NEW v, NEW parent, NEW places, NEW gated, NEW l, l = NewLine(j, v, parent, places, gated)
  PROVE  /\ l.num = (IF j.decisions = None THEN 1 ELSE Len(j.decisions) + 1)
         /\ l.unit = "unit" /\ l.sample = 2 /\ l.replicates = None
         /\ l.version = v /\ l.parent = parent
         /\ l.profile = (IF gated THEN "profile" ELSE None)
         /\ l.parentTree = (IF gated THEN MethodView(j.versions[parent]) ELSE None)
         /\ l.tree = (IF gated THEN MethodView(j.versions[v]) ELSE None)
         /\ l.evidence = EvidenceAt(j.results, places, gated)
         /\ l.estimate = EstimateOf(l.evidence) /\ l.verdict = GateVerdict(l.estimate)
         /\ l.plan = None /\ l.suite = None /\ l.look = None
BY DEF NewLine

\* Lines that tell of the same measurements.
OfTheSame(l, m) ==
  /\ l.num = m.num /\ l.unit = m.unit /\ l.version = m.version /\ l.parent = m.parent
  /\ l.estimate = m.estimate /\ l.verdict = m.verdict /\ l.sample = m.sample /\ l.profile = m.profile
  /\ l.parentTree = m.parentTree /\ l.tree = m.tree /\ l.evidence = m.evidence

LEMMA LooksTyped == ASSUME NEW j \in JobDirectory PROVE Looks(j) \in Nat
<1>1. ASSUME j.decisions # None
      PROVE  Cardinality({i \in DOMAIN j.decisions : ~Screening(j.decisions[i])}) \in Nat
  <2>1. j.decisions \in Seq(Line)
    BY <1>1 DEF JobDirectory, Optional
  <2>2. {i \in DOMAIN j.decisions : ~Screening(j.decisions[i])} \in SUBSET (1 .. Len(j.decisions)) /\ Len(j.decisions) \in Nat
    BY <2>1
  <2>3. IsFiniteSet(1 .. Len(j.decisions))
    <3>1. \A n \in Nat : IsFiniteSet(1 .. n)
      BY FS_Interval
    <3>. QED BY <2>2, <3>1
  <2>4. IsFiniteSet({i \in DOMAIN j.decisions : ~Screening(j.decisions[i])})
    BY <2>2, <2>3, FS_Subset
  <2>. QED BY <2>4, FS_CardinalityType
<1>. QED BY <1>1 DEF Looks

LEMMA ScreeningLineSays ==
  ASSUME NEW j \in JobDirectory, NEW v \in Snapshots(j), NEW parent \in Snapshots(j),
         j.results[<<v, "visible">>] # None, j.results[<<parent, "visible">>] # None,
         NEW line \in ScreeningLines(j, v, parent)
  PROVE  /\ Screening(line) /\ line.num = (IF j.decisions = None THEN 1 ELSE Len(j.decisions) + 1)
         /\ LineRests(j, line) /\ ScreeningSays(line)
<1>. DEFINE gated == mode = "gated"
            new == NewLine(j, v, parent, VisiblePlaces(v, parent), gated)
            screened == [new EXCEPT !.disposition = GateScreens(new.verdict, gated)]
<1>1. v \in Version /\ parent \in Version
  BY DEF Snapshots
<1>2. /\ VisiblePlaces(v, parent) \in [RoleSet -> Places]
      /\ \A r \in RoleSet : j.results[VisiblePlaces(v, parent)[r]] # None
  BY <1>1 DEF VisiblePlaces, RoleSet, Places
<1>3. new \in Line /\ (gated => new.tree \in MethodTree)
  <2>1. gated \in BOOLEAN
    OBVIOUS
  <2>. HIDE DEF VisiblePlaces, gated
  <2>. QED BY <1>2, <2>1, NewLineTyped
<1>4. line \in IF screened.disposition = "provisional" /\ gated
               THEN {Planned(screened, plan, Looks(j)) : plan \in Plans}
               ELSE {screened}
  BY DEF ScreeningLines
<1>5. /\ new.num = (IF j.decisions = None THEN 1 ELSE Len(j.decisions) + 1)
      /\ new.unit = "unit" /\ new.sample = 2 /\ new.replicates = None
      /\ new.version = v /\ new.parent = parent
      /\ new.profile = (IF gated THEN "profile" ELSE None)
      /\ new.parentTree = (IF gated THEN MethodView(j.versions[parent]) ELSE None)
      /\ new.tree = (IF gated THEN MethodView(j.versions[v]) ELSE None)
      /\ new.evidence = EvidenceAt(j.results, VisiblePlaces(v, parent), gated)
      /\ new.estimate = EstimateOf(new.evidence) /\ new.verdict = GateVerdict(new.estimate)
      /\ new.plan = None /\ new.suite = None /\ new.look = None
  <2>. HIDE DEF gated
  <2>. QED BY NewLineSays
<1>. HIDE DEF new
<1>6. GateScreens(new.verdict, gated) \in {"keep", "revert", "provisional"}
  BY DEF GateScreens
<1>7. /\ screened \in Line /\ OfTheSame(screened, new) /\ screened.replicates = None
      /\ screened.disposition = GateScreens(new.verdict, gated)
      /\ screened.plan = None /\ screened.suite = None /\ screened.look = None
  <2>1. screened \in Line
    BY <1>3, <1>6 DEF Line
  <2>2. OfTheSame(screened, new)
    BY <1>3 DEF Line, OfTheSame
  <2>. QED BY <1>3, <1>5, <2>1, <2>2 DEF Line
<1>8. Looks(j) \in Nat
  BY LooksTyped
<1>9. new.verdict \in {"clears", "below", "inconclusive"}
  BY <1>3 DEF Line
<1>. HIDE DEF screened
<1>10. CASE screened.disposition = "provisional" /\ gated
  <2>1. PICK plan \in Plans : line = Planned(screened, plan, Looks(j))
    BY <1>4, <1>10
  <2>2. new.verdict # "below" /\ new.profile = "profile"
    BY <1>5, <1>7, <1>10 DEF GateScreens
  <2>6. Screening(line) /\ OfTheSame(line, new) => Gated(line) /\ line.verdict # "below"
    BY <2>2, NoneIsApart DEF Gated, OfTheSame
  <2>3. ASSUME plan.exploratory PROVE OfTheSame(line, new) /\ line.replicates = None /\ ScreeningSays(line)
    <3>1. line = [screened EXCEPT !.plan = plan, !.disposition = "revert"]
      BY <2>1, <2>3 DEF Planned
    <3>2. OfTheSame(line, new) /\ line.replicates = None
      BY <3>1, <1>7 DEF Line, OfTheSame
    <3>3. line.plan = plan /\ line.disposition = "revert" /\ line.suite = None /\ line.look = None
      BY <3>1, <1>7 DEF Line
    <3>4. ScreeningSays(line)
      BY <2>1, <2>3, <2>6, <3>2, <3>3 DEF ScreeningSays, Screening, Leaves
    <3>. QED BY <3>2, <3>4
  <2>4. ASSUME ~plan.exploratory PROVE OfTheSame(line, new) /\ line.replicates = None /\ ScreeningSays(line)
    <3>1. line = [screened EXCEPT !.plan = plan, !.look = Looks(j),
                     !.suite = [of |-> screened.tree, look |-> Looks(j), size |-> plan.size]]
      BY <2>1, <2>4 DEF Planned
    <3>2. OfTheSame(line, new) /\ line.replicates = None
      BY <3>1, <1>7 DEF Line, OfTheSame
    <3>3. /\ line.plan = plan /\ line.look = Looks(j) /\ line.disposition = "provisional"
          /\ line.suite = [of |-> screened.tree, look |-> Looks(j), size |-> plan.size]
      BY <3>1, <1>7, <1>10 DEF Line
    <3>4. line.tree = screened.tree
      BY <3>2, <1>7 DEF OfTheSame
    <3>5. ScreeningSays(line)
      BY <1>8, <2>1, <2>4, <2>6, <3>2, <3>3, <3>4 DEF ScreeningSays, Screening
    <3>. QED BY <3>2, <3>5
  <2>5. OfTheSame(line, new) /\ line.replicates = None /\ ScreeningSays(line)
    BY <2>3, <2>4
  <2>. QED BY <2>5, <1>5 DEF OfTheSame, LineRests, MeasuredAt, Screening
<1>11. CASE ~(screened.disposition = "provisional" /\ gated)
  <2>1. line = screened
    BY <1>4, <1>11
  <2>2. gated => new.verdict = "below"
    BY <1>7, <1>9, <1>11 DEF GateScreens
  <2>3. GateScreens(new.verdict, gated) = GateScreens(new.verdict, FALSE)
    BY <2>2 DEF GateScreens
  <2>4. Gated(line) => new.verdict = "below"
    BY <1>5, <1>7, <2>1, <2>2 DEF Gated, OfTheSame
  <2>5. ScreeningSays(line)
    BY <1>7, <2>1, <2>3, <2>4 DEF ScreeningSays, OfTheSame, Leaves
  <2>. QED BY <1>5, <1>7, <2>1, <2>5 DEF OfTheSame, LineRests, MeasuredAt, Screening
<1>. QED BY <1>10, <1>11

LEMMA ConfirmationLineSays ==
  ASSUME NEW j \in JobDirectory, NEW open \in Line, {open.version, open.parent} \subseteq Snapshots(j),
         j.results[<<open.version, "parent">>] # None, j.results[<<open.version, "candidate">>] # None,
         Screening(open), NEW i, LineRests(i, open), i.versions = j.versions,
         NEW line, line = ConfirmationLine(j, open)
  PROVE  /\ ~Screening(line) /\ line.num = (IF j.decisions = None THEN 1 ELSE Len(j.decisions) + 1)
         /\ LineRests(j, line)
         /\ line.replicates = line.version /\ line.disposition = GateConfirms(line.verdict)
         /\ \A f \in Frozen : line[f] = open[f]
<1>. DEFINE places == [r \in RoleSet |-> <<open.version, r>>]
            gated == Gated(open)
            new == NewLine(j, open.version, open.parent, places, gated)
<1>1. open.version \in Snapshots(j) /\ open.parent \in Snapshots(j) /\ open.version \in Version /\ gated \in BOOLEAN
  BY DEF Snapshots, Gated
<1>2. places \in [RoleSet -> Places] /\ \A r \in RoleSet : j.results[places[r]] # None
  BY <1>1 DEF RoleSet, Places
<1>3. gated <=> mode = "gated"
  BY NoneIsApart DEF LineRests, Gated
<1>4. new \in Line
  <2>. HIDE DEF places, gated
  <2>. QED BY <1>1, <1>2, NewLineTyped
<1>5. /\ new.num = (IF j.decisions = None THEN 1 ELSE Len(j.decisions) + 1)
      /\ new.unit = "unit" /\ new.sample = 2 /\ new.replicates = None
      /\ new.version = open.version /\ new.parent = open.parent
      /\ new.profile = (IF gated THEN "profile" ELSE None)
      /\ new.parentTree = (IF gated THEN MethodView(j.versions[open.parent]) ELSE None)
      /\ new.tree = (IF gated THEN MethodView(j.versions[open.version]) ELSE None)
      /\ new.evidence = EvidenceAt(j.results, places, gated)
      /\ new.estimate = EstimateOf(new.evidence) /\ new.verdict = GateVerdict(new.estimate)
      /\ new.plan = None /\ new.suite = None /\ new.look = None
  <2>. HIDE DEF places, gated
  <2>. QED BY NewLineSays
<1>6. line = [new EXCEPT !.replicates = open.version, !.disposition = GateConfirms(new.verdict),
                         !.plan = open.plan, !.suite = open.suite, !.look = open.look]
  BY DEF ConfirmationLine
<1>. HIDE DEF new
<1>7. OfTheSame(line, new)
  BY <1>4, <1>6 DEF Line, OfTheSame
<1>8. /\ line.replicates = open.version /\ line.disposition = GateConfirms(new.verdict)
      /\ line.plan = open.plan /\ line.suite = open.suite /\ line.look = open.look
  BY <1>4, <1>6 DEF Line
<1>9. ~Screening(line)
  BY <1>1, <1>8, NoneIsApart DEF Screening
<1>10. places = MeasuredAt(line)
  BY <1>5, <1>7, <1>9 DEF MeasuredAt, OfTheSame
<1>11. LineRests(j, line)
  <2>. HIDE DEF places, gated
  <2>1. EvidenceAt(j.results, places, gated) = EvidenceAt(j.results, MeasuredAt(line), mode = "gated")
    BY <1>3, <1>10 DEF EvidenceAt
  <2>2. /\ new.profile = (IF mode = "gated" THEN "profile" ELSE None)
        /\ new.parentTree = (IF mode = "gated" THEN MethodView(j.versions[open.parent]) ELSE None)
        /\ new.tree = (IF mode = "gated" THEN MethodView(j.versions[open.version]) ELSE None)
    BY <1>3, <1>5
  <2>. QED BY <1>5, <1>7, <2>1, <2>2 DEF OfTheSame, LineRests
<1>12. /\ line.profile = open.profile /\ line.parentTree = open.parentTree /\ line.tree = open.tree
       /\ line.parent = open.parent
  <2>1. /\ open.profile = (IF mode = "gated" THEN "profile" ELSE None)
        /\ open.parentTree = (IF mode = "gated" THEN MethodView(j.versions[open.parent]) ELSE None)
        /\ open.tree = (IF mode = "gated" THEN MethodView(j.versions[open.version]) ELSE None)
    BY DEF LineRests
  <2>. HIDE DEF gated
  <2>. QED BY <1>3, <1>5, <1>7, <2>1 DEF OfTheSame
<1>13. \A f \in Frozen : line[f] = open[f]
  BY SMTT(45), <1>8, <1>12 DEF Frozen
<1>. QED BY <1>5, <1>7, <1>8, <1>9, <1>11, <1>13 DEF OfTheSame

\* A line of the log follows as before when it keeps its place, and what it is
\* about stays.
LEMMA OldLineFollows ==
  ASSUME NEW j, NEW k, NEW i, LineFollowsRollout(j, i),
         NEW l, l = j.decisions[i], k.decisions[i] = l,
         InPlace(k.decisions, i), EndsIts(k.decisions, i) => EndsIts(j.decisions, i),
         l.version \in Snapshots(k),
         k.versions[l.version] = j.versions[l.version], k.versions[l.parent] = j.versions[l.parent],
         \A r \in RoleSet : k.results[MeasuredAt(l)[r]] = j.results[MeasuredAt(l)[r]],
         k.log[l.version + 1].parent = j.log[l.version + 1].parent,
         EndsIts(k.decisions, i) => What(k.log[l.version + 1]) = What(j.log[l.version + 1])
  PROVE  LineFollowsRollout(k, i)
<1>1. /\ l.version # 0 /\ l.parent = j.log[l.version + 1].parent
      /\ LineRests(j, l) /\ (IF Screening(l) THEN ScreeningSays(l) ELSE ConfirmationSays(j, l))
      /\ EndsIts(j.decisions, i) => What(j.log[l.version + 1]) = Said[l.disposition]
  BY SMTT(45) DEF LineFollowsRollout
<1>2. LineRests(k, l) /\ (~Screening(l) => ConfirmationSays(k, l))
  BY ZenonT(60), <1>1, LineStays
<1>. QED BY SMTT(45), <1>1, <1>2 DEF LineFollowsRollout

\* What a log of decisions that follows says of one of its lines.
LEMMA LineSays ==
  ASSUME NEW j \in JobDirectory, SnapshotsFollow(j), DecisionsFollow(j), j.decisions # None, NEW i \in DOMAIN j.decisions,
         NEW l, l = j.decisions[i]
  PROVE  /\ j.decisions \in Seq(Line) /\ j.decisions # <<>> /\ l \in Line /\ mode # "none"
         /\ i \in 1 .. Len(j.decisions) /\ Len(j.decisions) \in Nat
         /\ LineFollowsRollout(j, i) /\ InPlace(j.decisions, i) /\ LineRests(j, l)
         /\ (Screening(l) => ScreeningSays(l)) /\ (~Screening(l) => ConfirmationSays(j, l))
         /\ l.version \in Snapshots(j) \ {0} /\ l.version \in Nat /\ l.parent = j.log[l.version + 1].parent
         /\ l.parent \in Snapshots(j) /\ l.parent \in 0 .. (l.version - 1)
         /\ EndsIts(j.decisions, i) => What(j.log[l.version + 1]) = Said[l.disposition]
<1>1. /\ LineFollowsRollout(j, i) /\ j.decisions # <<>> /\ mode # "none"
  BY DEF DecisionsFollow
<1>2. /\ InPlace(j.decisions, i) /\ l.version \in Snapshots(j) \ {0} /\ l.parent = j.log[l.version + 1].parent
      /\ LineRests(j, l) /\ (Screening(l) => ScreeningSays(l)) /\ (~Screening(l) => ConfirmationSays(j, l))
      /\ EndsIts(j.decisions, i) => What(j.log[l.version + 1]) = Said[l.disposition]
  BY <1>1 DEF LineFollowsRollout
<1>3. l.parent \in Snapshots(j) /\ l.parent \in 0 .. (l.version - 1) /\ l.version \in Nat
  BY <1>2, ParentIsASnapshot, SnapshotsAreInOrder
<1>4. j.decisions \in Seq(Line)
  BY DEF JobDirectory, Optional
<1>5. l \in Line /\ i \in 1 .. Len(j.decisions) /\ Len(j.decisions) \in Nat
  BY <1>4
<1>. QED BY <1>1, <1>2, <1>3, <1>4, <1>5

\* A decided version is not one whose block is open.
LEMMA DispositionSaid ==
  ASSUME NEW block, NEW disposition \in {"keep", "revert", "provisional"}, What(block) = Said[disposition]
  PROVE  /\ block.status = "none" <=> disposition = "provisional"
         /\ block.status = "kept" <=> disposition = "keep"
         /\ block.closing = "keep" <=> disposition = "keep"
         /\ block.closing = "revert" <=> disposition = "revert"
<1>1. block.status = Said[disposition][1] /\ block.closing = Said[disposition][2]
  BY DEF What
<1>. QED BY <1>1 DEF Said

\* The last line of a log in which nothing is open is not provisional.
LEMMA NothingLeftOpen ==
  ASSUME NEW j \in JobDirectory, SnapshotsFollow(j), DecisionsFollow(j), j.decisions # None, NEW i \in DOMAIN j.decisions,
         EndsIts(j.decisions, i), NEW l, l = j.decisions[i]
  PROVE  /\ l.disposition = "provisional" => j.log[l.version + 1].status = "none" /\ Undecided(j)
         /\ l.disposition = "keep" <=> j.log[l.version + 1].status = "kept"
<1>1. /\ l \in Line /\ What(j.log[l.version + 1]) = Said[l.disposition] /\ l.version \in Snapshots(j)
  BY LineSays
<1>2. l.disposition \in {"keep", "revert", "provisional"}
  BY <1>1 DEF Line
<1>3. l.version + 1 \in DOMAIN j.log
  BY <1>1, SnapshotsAreInOrder
<1>. QED BY <1>1, <1>2, <1>3, DispositionSaid DEF Undecided

LEMMA ScreenedDecisionsFollow ==
  ASSUME NEW j \in JobDirectory, SnapshotsFollow(j), DecisionsFollow(j), ~Undecided(j), Len(j.log) \in Version \ {0},
         NEW policy \in Policy \ Oversized, NEW block \in Block, BlockIsNext(Len(j.log), block),
         NEW k \in JobDirectory, GrowsBy(j, k, policy, block), mode # "none",
         NEW line \in Line, k.decisions = WithLine(j.decisions, line),
         line.version = Len(j.log), line.parent = block.parent,
         line.num = (IF j.decisions = None THEN 1 ELSE Len(j.decisions) + 1),
         Screening(line), LineRests(k, line), ScreeningSays(line), What(block) = Said[line.disposition]
  PROVE  DecisionsFollow(k)
<1>. DEFINE n == Len(j.log)
            D == k.decisions
<1>1. /\ SnapshotsFollow(k)
      /\ Snapshots(k) = Snapshots(j) \cup {n} /\ n \notin Snapshots(j)
      /\ k.log[n + 1] = block
      /\ \A w \in Snapshots(j) :
           /\ k.log[w + 1] = j.log[w + 1] /\ k.versions[w] = j.versions[w]
           /\ \A r \in RoleSet \cup {"visible"} : k.results[<<w, r>>] = j.results[<<w, r>>]
  BY GrownFollows
<1>. HIDE DEF n
<1>0. PICK m \in Nat : OneLineMore(j.decisions, line, D, m)
  <2>1. j.decisions \in Optional(Seq(Line))
    BY DEF JobDirectory
  <2>2. D = WithLine(j.decisions, line)
    OBVIOUS
  <2>. HIDE DEF D
  <2>. QED BY <2>1, <2>2, OldAndNewLines
<1>2. /\ m = (IF j.decisions = None THEN 0 ELSE Len(j.decisions))
      /\ DOMAIN D = 1 .. (m + 1) /\ Len(D) = m + 1 /\ D[m + 1] = line /\ Last(D) = line
      /\ D \in Seq(Line) /\ D # None /\ D # <<>>
      /\ j.decisions # None => j.decisions \in Seq(Line) /\ DOMAIN j.decisions = 1 .. m
      /\ \A i \in 1 .. m : j.decisions # None /\ D[i] = j.decisions[i]
  BY SMTT(45), <1>0 DEF OneLineMore
<1>3. ASSUME NEW i \in 1 .. m PROVE LineFollowsRollout(k, i)
  <2>. DEFINE l == j.decisions[i]
  <2>1. j.decisions # None /\ i \in DOMAIN j.decisions /\ D[i] = l /\ Len(j.decisions) = m
    BY <1>2
  <2>2. /\ LineFollowsRollout(j, i) /\ InPlace(j.decisions, i)
        /\ l.version \in Snapshots(j) /\ l.parent \in Snapshots(j)
    BY <2>1, LineSays
  <2>3. InPlace(D, i) /\ (EndsIts(D, i) => EndsIts(j.decisions, i))
    BY <1>2, <2>1, <2>2, PlaceStays
  <2>. HIDE DEF l
  <2>4. ASSUME NEW r \in RoleSet PROVE k.results[MeasuredAt(l)[r]] = j.results[MeasuredAt(l)[r]]
    <3>1. /\ k.results[<<l.version, r>>] = j.results[<<l.version, r>>]
          /\ \A w \in {l.version, l.parent} : k.results[<<w, "visible">>] = j.results[<<w, "visible">>]
      BY <1>1, <2>2
    <3>. QED BY <3>1, PlacesMeasured
  <2>5. /\ k.log[l.version + 1] = j.log[l.version + 1] /\ l.version \in Snapshots(k)
        /\ k.versions[l.version] = j.versions[l.version] /\ k.versions[l.parent] = j.versions[l.parent]
    BY <1>1, <2>2
  <2>. QED BY <2>1, <2>2, <2>3, <2>4, <2>5, OldLineFollows DEF l
<1>4. LineFollowsRollout(k, m + 1)
  <2>1. ASSUME m + 1 > 1 PROVE ~Provisional(D[m])
    <3>1. m \in 1 .. m /\ j.decisions # None /\ m \in DOMAIN j.decisions /\ D[m] = j.decisions[m] /\ m = Len(j.decisions)
      BY <1>2, <2>1
    <3>2. EndsIts(j.decisions, m)
      BY <3>1 DEF EndsIts
    <3>. QED BY <3>1, <3>2, NothingLeftOpen DEF Provisional
  <2>2. InPlace(D, m + 1)
    <3>1. (m + 1) - 1 = m /\ line.num = m + 1
      BY <1>2
    <3>. QED BY <1>2, <2>1, <3>1 DEF InPlace
  <2>3. line.version \in Snapshots(k) \ {0} /\ line.parent = k.log[line.version + 1].parent
    BY <1>1 DEF n
  <2>4. What(k.log[line.version + 1]) = Said[line.disposition]
    BY <1>1 DEF n
  <2>. QED BY <1>2, <2>2, <2>3, <2>4 DEF LineFollowsRollout
<1>5. ASSUME NEW w \in Snapshots(k), k.log[w + 1].status = "kept" PROVE Decided(k, w)
  <2>1. CASE w = n
    <3>1. m + 1 \in DOMAIN D /\ D[m + 1].version = w
      BY <1>2, <2>1 DEF n
    <3>. QED BY <1>2, <3>1 DEF Decided
  <2>2. CASE w \in Snapshots(j)
    <3>1. Decided(j, w)
      BY <1>1, <1>5, <2>2 DEF DecisionsFollow
    <3>2. PICK i \in DOMAIN j.decisions : j.decisions # None /\ j.decisions[i].version = w
      BY <3>1 DEF Decided
    <3>3. i \in DOMAIN D /\ D[i].version = w
      BY <1>2, <3>2
    <3>. QED BY <1>2, <3>3 DEF Decided
  <2>. QED BY <1>1, <2>1, <2>2
<1>6. ASSUME NEW w \in Snapshots(k), k.log[w + 1].status = "none" PROVE Decided(k, w) /\ Last(D).version = w
  <2>1. w = n
    <3>1. w \in Snapshots(j) => w + 1 \in DOMAIN j.log /\ k.log[w + 1] = j.log[w + 1]
      BY <1>1, SnapshotsAreInOrder
    <3>. QED BY <1>1, <1>6, <3>1 DEF Undecided
  <2>2. m + 1 \in DOMAIN D /\ D[m + 1].version = w
    BY <1>2, <2>1 DEF n
  <2>. QED BY <1>2, <2>1, <2>2 DEF Decided, n
<1>7. \A i \in DOMAIN D : LineFollowsRollout(k, i)
  <2>1. \A i \in 1 .. (m + 1) : i \in 1 .. m \/ i = m + 1
    OBVIOUS
  <2>. QED BY <1>2, <1>3, <1>4, <2>1
<1>. QED BY <1>2, <1>5, <1>6, <1>7 DEF DecisionsFollow

LEMMA ScreenKeeps ==
  ASSUME IInv, Screen, SnapshotsFollow(job), DecisionsFollow(job)
  PROVE  SnapshotsFollow(job') /\ DecisionsFollow(job')
<1>1. job \in JobDirectory /\ MayTry(job) /\ ~Undecided(job) /\ mode \in Modes /\ mode # "none" /\ RolloutLeaves /\ phase = "rollout"
  BY DEF IInv, TypeOK, Screen, MayTry
<1>. DEFINE v == NextVersion(job)
            measuredWith(parent, policy, score) == WithVersion(job, v, policy, score, NewBlock(v, parent, score))
<1>2. PICK parent \in Standing(job), policy \in Policy \ Oversized, score \in Scores :
        \E line \in ScreeningLines(measuredWith(parent, policy, score), v, parent) :
          job' = [measuredWith(parent, policy, score) EXCEPT
                    !.decisions = WithLine(@, line), !.log = LastSays(@, line.disposition)]
  BY DEF Screen
<1>. DEFINE measured == measuredWith(parent, policy, score)
            block == NewBlock(v, parent, score)
<1>3. PICK line \in ScreeningLines(measured, v, parent) :
        job' = [measured EXCEPT !.decisions = WithLine(@, line), !.log = LastSays(@, line.disposition)]
  BY <1>2
<1>4. /\ v = Len(job.log) /\ v \in Nat /\ v # 0 /\ v \in Version
      /\ parent \in Version /\ parent \in 0 .. (v - 1) /\ parent \in Snapshots(job) /\ score \in Int
  BY <1>1, NextIsLast, NextIsAVersion, RecordAssumption
<1>5. block \in Block /\ block.score = score /\ block.parent = parent /\ block.version = v
  <2>1. block \in Block
    BY <1>4, NewBlockTyped
  <2>. QED BY <2>1 DEF NewBlock
<1>6. PICK m : m = measured
  OBVIOUS
<1>. HIDE DEF v
<1>7. m = WithVersion(job, Len(job.log), policy, score, block)
  BY <1>4, <1>6
<1>. HIDE DEF block, measured
<1>8. m \in JobDirectory /\ m.decisions = job.decisions /\ GrowsBy(job, m, policy, block) /\ Snapshots(m) = Snapshots(job) \cup {Len(job.log)}
  BY <1>1, <1>4, <1>5, <1>7, WithVersionGrows
<1>9. m.log \in Seq(Block) \ {<<>>}
  <2>1. m.log \in Seq(Block) /\ DOMAIN m.log = 1 .. (Len(job.log) + 1)
    BY <1>8 DEF GrowsBy, JobDirectory
  <2>2. 1 \in DOMAIN m.log
    BY <1>4, <2>1
  <2>. QED BY <2>1, <2>2
<1>10. m.results[<<v, "visible">>] # None /\ m.results[<<parent, "visible">>] # None
  <2>1. /\ job.results[<<parent, "visible">>] # None /\ job.results \in [Places -> Optional(Measured)]
        /\ <<parent, "visible">> \in Places /\ <<v, "visible">> \in Places
    BY <1>1, <1>4 DEF RolloutLeaves, JobDirectory, Places
  <2>2. Measurement(policy, VisibleSuite, block.score) # None
    <3>1. policy \in MethodTree
      BY DEF MethodTree
    <3>. QED BY <1>4, <1>5, <3>1, SuitesTyped, MeasurementTyped, NoneIsApart
  <2>3. m.results = [job.results EXCEPT ![<<v, "visible">>] = Measurement(policy, VisibleSuite, block.score)]
    BY <1>4, <1>8 DEF GrowsBy
  <2>. QED BY <2>1, <2>2, <2>3
<1>11. v \in Snapshots(m) /\ parent \in Snapshots(m) /\ line \in ScreeningLines(m, v, parent)
  BY <1>3, <1>4, <1>6, <1>8
<1>12. /\ Screening(line) /\ line.num = (IF m.decisions = None THEN 1 ELSE Len(m.decisions) + 1)
       /\ LineRests(m, line) /\ ScreeningSays(line)
  BY <1>8, <1>10, <1>11, ScreeningLineSays
<1>13. line \in Line /\ line.version = v /\ line.parent = parent /\ line.disposition \in {"keep", "revert", "provisional"}
  <2>1. line \in Line /\ line.version = v /\ line.parent = parent
    BY <1>8, <1>10, <1>11, ScreeningLineTyped
  <2>. QED BY <2>1 DEF Line
<1>14. PICK k : k = job'
  OBVIOUS
<1>15. k = [m EXCEPT !.decisions = WithLine(job.decisions, line), !.log = LastSays(@, line.disposition)]
  BY <1>3, <1>6, <1>8, <1>14
<1>. DEFINE said == Says(block, line.disposition)
<1>16. /\ k.decisions = WithLine(job.decisions, line) /\ k.results = m.results /\ k.versions = m.versions
       /\ said \in Block /\ GrowsBy(job, k, policy, said)
  <2>. DEFINE decisions == WithLine(job.decisions, line)
              disposition == line.disposition
  <2>1. k = Redecided(m, decisions, disposition)
    BY <1>15 DEF Redecided
  <2>2. Len(job.log) \in Version /\ disposition \in {"keep", "revert", "provisional"}
    BY <1>4, <1>13
  <2>. HIDE DEF decisions, disposition, said
  <2>3. /\ OnlyDecided(m, k, decisions)
        /\ Says(block, disposition) \in Block
        /\ GrowsBy(job, k, policy, Says(block, disposition))
    BY <1>1, <1>5, <1>8, <1>9, <2>1, <2>2, WithLineGrows
  <2>. QED BY <2>3 DEF decisions, disposition, said, OnlyDecided
<1>17. k \in JobDirectory
  BY <1>1, <1>14, ScreenStep
<1>18. /\ said.version = v /\ said.parent = parent /\ said.score = score /\ What(said) = Said[line.disposition] /\ What(said) \in Decisions
  <2>1. said = Says(NewBlock(v, parent, score), line.disposition)
    BY DEF block
  <2>2. parent \in Version \cup {None}
    BY <1>4
  <2>. HIDE DEF said
  <2>. QED BY <1>4, <1>13, <2>1, <2>2, SaysWhat
<1>. HIDE DEF said
<1>19. BlockIsNext(Len(job.log), said)
  BY <1>4, <1>18 DEF BlockIsNext
<1>20. SnapshotsFollow(k)
  BY <1>1, <1>4, <1>16, <1>17, <1>19, GrownFollows
<1>21. LineRests(k, line)
  BY <1>12, <1>16, LineStays
<1>22. DecisionsFollow(k)
  BY <1>1, <1>4, <1>8, <1>12, <1>13, <1>16, <1>17, <1>18, <1>19, <1>21, ScreenedDecisionsFollow
<1>. QED BY <1>14, <1>20, <1>22

\* A decision is open when its block is: its line is the last, a provisional
\* screening of the last version, and no earlier line says the last word of
\* that version.
OpenDecision(j, open) ==
  /\ j.decisions \in Seq(Line) /\ j.decisions \notin {None, <<>>} /\ open = Last(j.decisions)
  /\ Len(j.decisions) \in DOMAIN j.decisions /\ open = j.decisions[Len(j.decisions)]
  /\ open.version = Len(j.log) - 1 /\ Provisional(open)
  /\ \A i \in DOMAIN j.decisions :
       i # Len(j.decisions) /\ EndsIts(j.decisions, i) => j.decisions[i].version # open.version

LEMMA DecisionIsOpen ==
  ASSUME NEW j \in JobDirectory, SnapshotsFollow(j), DecisionsFollow(j), Undecided(j), j.decisions # None,
         NEW open, open = Last(j.decisions)
  PROVE  OpenDecision(j, open)
<1>. DEFINE D == j.decisions
            m == Len(D)
            n == Len(j.log)
<1>1. n - 1 \in Snapshots(j) /\ n \in DOMAIN j.log /\ j.log[n].status = "none" /\ n \in Nat /\ (n - 1) + 1 = n
  BY OpenIsTheLast, SnapshotsAreInOrder
<1>2. D \in Seq(Line) /\ D # <<>>
  BY DEF DecisionsFollow, JobDirectory, Optional
<1>3. m \in DOMAIN D /\ m \in Nat /\ DOMAIN D = 1 .. m /\ open = D[m]
  BY <1>2 DEF Last
<1>4. open.version = n - 1
  BY <1>1 DEF DecisionsFollow
<1>5. ASSUME NEW i \in DOMAIN D, EndsIts(D, i), D[i].version = n - 1 PROVE D[i].disposition = "provisional" /\ Provisional(D[i])
  <2>1. /\ D[i] \in Line /\ What(j.log[n]) = Said[D[i].disposition] /\ (~Screening(D[i]) => ConfirmationSays(j, D[i]))
    BY SMTT(45), <1>1, <1>5, LineSays
  <2>2. D[i].disposition = "provisional"
    <3>1. D[i].disposition \in {"keep", "revert", "provisional"}
      BY <2>1 DEF Line
    <3>. QED BY <1>1, <2>1, <3>1, DispositionSaid
  <2>3. Screening(D[i])
    BY <2>1, <2>2 DEF ConfirmationSays, GateConfirms
  <2>. QED BY <2>2, <2>3 DEF Provisional
<1>6. Provisional(open)
  <2>1. EndsIts(D, m)
    BY DEF EndsIts
  <2>. QED BY <1>3, <1>4, <1>5, <2>1
<1>7. ASSUME NEW i \in DOMAIN D, i # m, EndsIts(D, i), D[i].version = n - 1 PROVE FALSE
  <2>1. i + 1 \in DOMAIN D /\ i + 1 > 1 /\ (i + 1) - 1 = i
    BY <1>3, <1>7
  <2>2. Screening(D[i + 1])
    BY <1>7 DEF EndsIts
  <2>3. InPlace(D, i + 1)
    BY <2>1, LineSays
  <2>4. ~Provisional(D[i])
    BY <2>1, <2>2, <2>3 DEF InPlace
  <2>. QED BY <1>5, <1>7, <2>4
<1>. QED BY <1>2, <1>3, <1>4, <1>6, <1>7 DEF OpenDecision

\* The directory with the open decision decided: the last block says it.
DecidedLog(j, k, disposition) ==
  /\ k.versions = j.versions /\ k.stray = j.stray /\ k.reward = j.reward
  /\ DOMAIN k.log = DOMAIN j.log
  /\ k.log[Len(j.log)] = Says(j.log[Len(j.log)], disposition)
  /\ \A i \in DOMAIN j.log : i # Len(j.log) => k.log[i] = j.log[i]

LEMMA DecidedSnapshotsFollow ==
  ASSUME NEW j \in JobDirectory, SnapshotsFollow(j), Undecided(j), Len(j.log) # 1, NEW k \in JobDirectory,
         NEW disposition \in {"keep", "revert"}, DecidedLog(j, k, disposition),
         \A v \in Snapshots(j) : k.results[<<v, "visible">>] = j.results[<<v, "visible">>]
  PROVE  /\ SnapshotsFollow(k) /\ Snapshots(k) = Snapshots(j) /\ Len(k.log) = Len(j.log)
         /\ What(k.log[Len(j.log)]) = Said[disposition]
         /\ \A v \in Snapshots(j) : v # Len(j.log) - 1 => k.log[v + 1] = j.log[v + 1] /\ j.log[v + 1].status # "none"
         /\ \A v \in Snapshots(j) : k.log[v + 1].parent = j.log[v + 1].parent
<1>. DEFINE n == Len(j.log)
<1>1. n - 1 \in Snapshots(j) /\ n \in DOMAIN j.log /\ j.log[n].status = "none"
  BY OpenIsTheLast
<1>2. /\ n \in Nat /\ j.log \in Seq(Block) /\ DOMAIN j.log = 1 .. n /\ Snapshots(j) = 0 .. (n - 1)
      /\ \A v \in Snapshots(j) : v \in Nat /\ v + 1 \in DOMAIN j.log /\ j.log[v + 1] \in Block
  BY SnapshotsAreInOrder
<1>3. Snapshots(k) = Snapshots(j)
  BY DEF DecidedLog, Snapshots
<1>4. Len(k.log) = n
  <2>1. k.log \in Seq(Block) /\ DOMAIN k.log = 1 .. n
    BY <1>2 DEF JobDirectory, DecidedLog
  <2>. QED BY <1>2, <2>1
<1>5. /\ k.log[n].version = j.log[n].version /\ k.log[n].parent = j.log[n].parent /\ k.log[n].score = j.log[n].score
      /\ What(k.log[n]) = Said[disposition] /\ k.log[n].status # "none"
  <2>1. j.log[n] \in Block /\ k.log[n] = Says(j.log[n], disposition)
    BY <1>1, <1>2 DEF DecidedLog
  <2>2. /\ k.log[n].version = j.log[n].version /\ k.log[n].parent = j.log[n].parent /\ k.log[n].score = j.log[n].score
        /\ k.log[n].status = (IF disposition = "keep" THEN "kept" ELSE "reverted")
        /\ k.log[n].closing = disposition
    BY <2>1 DEF Says, Block
  <2>. QED BY <2>2 DEF What, Said
<1>6. ASSUME NEW v \in Snapshots(j), v # n - 1 PROVE k.log[v + 1] = j.log[v + 1] /\ j.log[v + 1].status # "none"
  <2>1. v + 1 \in DOMAIN j.log /\ v + 1 # n
    BY <1>2, <1>6
  <2>2. j.log[v + 1].status # "none"
    BY <2>1 DEF SnapshotsFollow, BlockFollows
  <2>. QED BY <2>1, <2>2 DEF DecidedLog
<1>7. ASSUME NEW v \in Snapshots(j) PROVE BlockFollows(k.log, v) /\ k.log[v + 1].parent = j.log[v + 1].parent
                                          /\ k.log[v + 1].score = j.log[v + 1].score
  <2>1. BlockFollows(j.log, v)
    BY DEF SnapshotsFollow
  <2>2. CASE v = n - 1
    <3>1. v + 1 = n /\ v # 0
      BY <1>2, <2>2
    <3>2. Said[disposition] \in Decisions
      BY DEF Said, Decisions
    <3>. QED BY <1>5, <2>1, <3>1, <3>2 DEF BlockFollows
  <2>3. CASE v # n - 1
    <3>1. k.log[v + 1] = j.log[v + 1] /\ j.log[v + 1].status # "none"
      BY <1>6, <2>3
    <3>2. v = 0 => k.log[1] = j.log[1]
      BY <3>1
    <3>. QED BY <2>1, <3>1, <3>2 DEF BlockFollows
  <2>. QED BY <2>2, <2>3
<1>8. ASSUME NEW v \in Snapshots(j) PROVE SnapshotFollows(k, v)
  <2>1. SnapshotFollows(j, v) /\ k.versions = j.versions
    BY DEF SnapshotsFollow, DecidedLog
  <2>. QED BY <1>7, <2>1 DEF SnapshotFollows
<1>9. ~k.stray /\ k.reward = "low"
  BY DEF SnapshotsFollow, DecidedLog
<1>10. SnapshotsFollow(k)
  BY <1>2, <1>3, <1>4, <1>7, <1>8, <1>9 DEF SnapshotsFollow
<1>. QED BY <1>3, <1>4, <1>5, <1>6, <1>7, <1>10

LEMMA ConfirmedDecisionsFollow ==
  ASSUME NEW j \in JobDirectory, SnapshotsFollow(j), DecisionsFollow(j), Undecided(j), mode # "none",
         NEW open, OpenDecision(j, open),
         NEW k \in JobDirectory, NEW disposition \in {"keep", "revert"}, DecidedLog(j, k, disposition),
         \A p \in Places : p \notin {<<open.version, "parent">>, <<open.version, "candidate">>} => k.results[p] = j.results[p],
         NEW line \in Line, k.decisions = WithLine(j.decisions, line),
         line.disposition = disposition, line.num = Len(j.decisions) + 1,
         line.version = open.version, ~Screening(line), LineRests(k, line), ConfirmationSays(k, line),
         \A f \in Frozen : line[f] = open[f]
  PROVE  SnapshotsFollow(k) /\ DecisionsFollow(k)
<1>. DEFINE D == k.decisions
            n == Len(j.log)
<1>0. /\ j.decisions \in Seq(Line) /\ j.decisions # None /\ j.decisions # <<>>
      /\ Len(j.decisions) \in DOMAIN j.decisions /\ open = j.decisions[Len(j.decisions)]
      /\ open.version = n - 1 /\ Provisional(open)
      /\ \A i \in DOMAIN j.decisions :
           i # Len(j.decisions) /\ EndsIts(j.decisions, i) => j.decisions[i].version # n - 1
  BY DEF OpenDecision
<1>1. PICK m \in Nat : OneLineMore(j.decisions, line, D, m)
  <2>1. j.decisions \in Optional(Seq(Line))
    BY DEF JobDirectory
  <2>2. D = WithLine(j.decisions, line)
    OBVIOUS
  <2>. HIDE DEF D
  <2>. QED BY <2>1, <2>2, OldAndNewLines
<1>2. /\ m = Len(j.decisions)
      /\ DOMAIN D = 1 .. (m + 1) /\ Len(D) = m + 1 /\ D[m + 1] = line /\ Last(D) = line
      /\ D \in Seq(Line) /\ D # None /\ D # <<>>
      /\ DOMAIN j.decisions = 1 .. m /\ m \in DOMAIN j.decisions /\ D[m] = open
      /\ \A i \in 1 .. m : D[i] = j.decisions[i]
  BY <1>0, <1>1 DEF OneLineMore
<1>3. /\ LineFollowsRollout(j, m) /\ open.version \in Snapshots(j) \ {0} /\ open.version \in Version
      /\ open.parent = j.log[open.version + 1].parent /\ n \in Nat
  <2>1. open = j.decisions[m] /\ m \in DOMAIN j.decisions /\ j.decisions # None
    BY <1>0, <1>2
  <2>2. LineFollowsRollout(j, m) /\ open.version \in Snapshots(j) \ {0} /\ open.parent = j.log[open.version + 1].parent
    BY <2>1, LineSays
  <2>3. n \in Nat
    BY SnapshotsAreInOrder
  <2>. QED BY <2>2, <2>3 DEF Snapshots
<1>4. \A v \in Snapshots(j) : k.results[<<v, "visible">>] = j.results[<<v, "visible">>]
  <2>1. \A v \in Snapshots(j) : <<v, "visible">> \in Places
    BY DEF Snapshots, Places
  <2>. QED BY <2>1
<1>5. /\ SnapshotsFollow(k) /\ Snapshots(k) = Snapshots(j) /\ Len(k.log) = n
      /\ What(k.log[n]) = Said[disposition]
      /\ \A v \in Snapshots(j) : v # n - 1 => k.log[v + 1] = j.log[v + 1] /\ j.log[v + 1].status # "none"
      /\ \A v \in Snapshots(j) : k.log[v + 1].parent = j.log[v + 1].parent
  <2>1. n # 1
    BY SMTT(45), <1>0, <1>3
  <2>. QED BY <1>4, <2>1, DecidedSnapshotsFollow
<1>. HIDE DEF n
<1>6. ASSUME NEW i \in 1 .. m PROVE LineFollowsRollout(k, i)
  <2>. DEFINE l == j.decisions[i]
  <2>1. i \in DOMAIN j.decisions /\ D[i] = l /\ Len(j.decisions) = m /\ j.decisions # None
    BY <1>0, <1>2
  <2>2. /\ LineFollowsRollout(j, i) /\ InPlace(j.decisions, i)
        /\ l.version \in Snapshots(j) /\ l.parent \in Snapshots(j)
        /\ (~Screening(l) => ConfirmationSays(j, l))
    BY <2>1, LineSays
  <2>3. /\ InPlace(D, i) /\ (EndsIts(D, i) => EndsIts(j.decisions, i))
        /\ EndsIts(D, i) /\ i = m => Screening(D[m + 1])
    BY <1>2, <2>1, <2>2, PlaceStays
  <2>. HIDE DEF l
  <2>4. EndsIts(D, i) => l.version # n - 1
    BY <1>0, <1>2, <2>1, <2>3 DEF l
  <2>5. ~Screening(l) => l.version # n - 1
    <3>1. SUFFICES ASSUME ~Screening(l) PROVE l.version # n - 1
      OBVIOUS
    <3>2. i # m
      BY <1>0, <1>2, <3>1 DEF Provisional, l
    <3>3. ~Provisional(l)
      BY <3>1 DEF Provisional
    <3>4. i + 1 \in DOMAIN j.decisions /\ (i + 1) - 1 = i
      BY <1>2, <3>2
    <3>5. InPlace(j.decisions, i + 1)
      BY <1>0, <3>4, LineSays
    <3>6. Screening(j.decisions[i + 1])
      BY <3>3, <3>4, <3>5 DEF InPlace, l
    <3>7. EndsIts(j.decisions, i)
      BY <3>6 DEF EndsIts
    <3>. QED BY <1>0, <1>2, <2>1, <3>2, <3>7 DEF l
  <2>6. ASSUME NEW r \in RoleSet PROVE k.results[MeasuredAt(l)[r]] = j.results[MeasuredAt(l)[r]]
    <3>1. l.version \in Version /\ l.parent \in Version
      BY <2>2 DEF Snapshots
    <3>2. CASE Screening(l)
      <4>1. \A w \in {l.version, l.parent} : k.results[<<w, "visible">>] = j.results[<<w, "visible">>]
        BY <1>4, <2>2
      <4>. QED BY <3>2, <4>1, PlacesMeasured
    <3>3. CASE ~Screening(l)
      <4>1. <<l.version, r>> \in Places /\ <<l.version, r>> \notin {<<open.version, "parent">>, <<open.version, "candidate">>}
        BY <1>0, <2>5, <3>1, <3>3 DEF Places, RoleSet
      <4>2. k.results[<<l.version, r>>] = j.results[<<l.version, r>>]
        BY <4>1
      <4>. QED BY <3>3, <4>2, PlacesMeasured
    <3>. QED BY <3>2, <3>3
  <2>7. /\ k.log[l.version + 1].parent = j.log[l.version + 1].parent /\ l.version \in Snapshots(k)
        /\ k.versions[l.version] = j.versions[l.version] /\ k.versions[l.parent] = j.versions[l.parent]
        /\ EndsIts(D, i) => What(k.log[l.version + 1]) = What(j.log[l.version + 1])
    BY <1>5, <2>2, <2>4 DEF DecidedLog
  <2>. QED BY <2>1, <2>2, <2>3, <2>6, <2>7, OldLineFollows DEF l
<1>7. LineFollowsRollout(k, m + 1)
  <2>1. InPlace(D, m + 1)
    <3>1. (m + 1) - 1 = m /\ line.num = m + 1 /\ m + 1 > 1
      BY <1>2
    <3>. QED BY <1>0, <1>2, <3>1 DEF InPlace
  <2>2. line.version \in Snapshots(k) \ {0} /\ line.version + 1 = n /\ k.log[n].parent = j.log[n].parent
    BY <1>0, <1>3, <1>5
  <2>3. line.parent = k.log[line.version + 1].parent
    <3>1. line["parent"] = open["parent"]
      BY DEF Frozen
    <3>. QED BY <1>3, <2>2, <3>1
  <2>. QED BY <1>2, <1>5, <2>1, <2>2, <2>3 DEF LineFollowsRollout
<1>8. \A w : Decided(j, w) => Decided(k, w)
  BY <1>0, <1>2 DEF Decided
<1>9. Decided(k, n - 1)
  <2>1. m + 1 \in DOMAIN D /\ D[m + 1].version = n - 1
    BY <1>0, <1>2
  <2>. QED BY <1>2, <2>1 DEF Decided
<1>10. ASSUME NEW w \in Snapshots(k)
       PROVE  k.log[w + 1].status # "none" /\ (k.log[w + 1].status = "kept" => Decided(k, w))
  <2>1. CASE w = n - 1
    <3>1. w + 1 = n
      BY <1>3, <2>1
    <3>2. k.log[n].status # "none"
      BY <1>5, DispositionSaid
    <3>. QED BY <1>9, <2>1, <3>1, <3>2
  <2>2. CASE w # n - 1
    <3>1. k.log[w + 1] = j.log[w + 1] /\ j.log[w + 1].status # "none" /\ w \in Snapshots(j)
      BY <1>5, <2>2
    <3>. QED BY <1>8, <3>1 DEF DecisionsFollow
  <2>. QED BY <2>1, <2>2
<1>11. \A i \in DOMAIN D : LineFollowsRollout(k, i)
  <2>1. \A i \in 1 .. (m + 1) : i \in 1 .. m \/ i = m + 1
    OBVIOUS
  <2>. QED BY <1>2, <1>6, <1>7, <2>1
<1>12. DecisionsFollow(k)
  BY <1>2, <1>10, <1>11 DEF DecisionsFollow
<1>. QED BY <1>5, <1>12

LEMMA ConfirmedDirectory ==
  ASSUME NEW j \in JobDirectory, NEW m \in JobDirectory, m.versions = j.versions, m.log = j.log,
         m.stray = j.stray, m.reward = j.reward, Len(j.log) \in DOMAIN j.log,
         NEW disposition \in {"keep", "revert"}, NEW decisions, NEW k, k = Redecided(m, decisions, disposition)
  PROVE  OnlyDecided(m, k, decisions) /\ DecidedLog(j, k, disposition)
<1>. DEFINE log == LastSays(m.log, disposition)
<1>1. /\ k.decisions = decisions /\ k.results = m.results /\ k.versions = m.versions /\ k.log = log
      /\ k.stray = m.stray /\ k.reward = m.reward
  BY DEF Redecided, JobDirectory
<1>2. log = [j.log EXCEPT ![Len(j.log)] = Says(j.log[Len(j.log)], disposition)]
  BY DEF LastSays
<1>. HIDE DEF log
<1>3. /\ DOMAIN log = DOMAIN j.log
      /\ log[Len(j.log)] = Says(j.log[Len(j.log)], disposition)
      /\ \A i \in DOMAIN j.log : i # Len(j.log) => log[i] = j.log[i]
  BY <1>2
<1>. QED BY <1>1, <1>3 DEF OnlyDecided, DecidedLog

\* The results of a confirmation, as its line needs them.
LEMMA ConfirmationIsOn ==
  ASSUME NEW k, NEW suite, NEW p, NEW c, NEW l, l.replicates = l.version, l.disposition = GateConfirms(l.verdict),
         suite = (IF Gated(l) THEN l.suite ELSE SuiteNo(1)),
         NEW on, on = k.results[<<l.version, "parent">>], on # None,
         on = Measurement(MethodView(k.versions[l.parent]), suite, p),
         NEW at, at = k.results[<<l.version, "candidate">>], at # None,
         at = Measurement(MethodView(k.versions[l.version]), suite, c)
  PROVE  ConfirmationSays(k, l)
<1>1. \A x, s : Measurement(x, suite, s).result.score = s
  BY DEF Measurement
<1>. HIDE DEF Measurement
<1>2. on.result.score = p /\ at.result.score = c
  BY <1>1
<1>3. ASSUME NEW r \in RoleSet
      PROVE  LET of == k.results[<<l.version, r>>]
                 policy == MethodView(k.versions[IF r = "parent" THEN l.parent ELSE l.version])
             IN  of # None /\ of = Measurement(policy, IF Gated(l) THEN l.suite ELSE SuiteNo(1), of.result.score)
  <2>1. CASE r = "parent"
    BY <1>2, <2>1
  <2>2. CASE r = "candidate"
    BY <1>2, <2>2
  <2>. QED BY <2>1, <2>2 DEF RoleSet
<1>. QED BY <1>3 DEF ConfirmationSays

LEMMA ConfirmKeeps ==
  ASSUME IInv, Confirm, SnapshotsFollow(job), DecisionsFollow(job)
  PROVE  SnapshotsFollow(job') /\ DecisionsFollow(job')
<1>1. /\ phase = "rollout" /\ job \in JobDirectory /\ RolloutLeaves /\ Undecided(job) /\ mode # "none"
  BY SMTT(30) DEF IInv, TypeOK, Confirm
<1>. DEFINE open == Last(job.decisions)
            suite == IF Gated(open) THEN open.suite ELSE SuiteNo(1)
            measuredWith(score) == ConfirmationResults(job, open, suite, score)
<1>2. PICK score \in Scores :
        job' = [measuredWith(score) EXCEPT !.decisions = WithLine(@, ConfirmationLine(measuredWith(score), open)),
                                           !.log = LastSays(@, ConfirmationLine(measuredWith(score), open).disposition)]
  BY ZenonT(60) DEF Confirm, ConfirmationResults
<1>3. /\ job.decisions \in Seq(Line) /\ job.decisions # <<>> /\ job.decisions # None
      /\ Gated(open) => open.suite # None
  BY <1>1 DEF RolloutLeaves, JobDirectory, Optional
<1>4. OpenDecision(job, open)
  BY <1>1, <1>3, DecisionIsOpen
<1>. HIDE DEF open, suite
<1>5. open \in Line /\ open.disposition = "provisional" /\ Screening(open)
      /\ Len(job.decisions) \in DOMAIN job.decisions /\ open = job.decisions[Len(job.decisions)]
  BY <1>4 DEF OpenDecision, Provisional
<1>6. LineRests(job, open) /\ open.version \in Snapshots(job) /\ open.parent \in Snapshots(job) /\ open.version \in Version
  <2>1. LineRests(job, open) /\ open.version \in Snapshots(job) /\ open.parent \in Snapshots(job)
    BY <1>1, <1>3, <1>5, LineSays
  <2>. QED BY <2>1 DEF Snapshots
<1>7. suite \in Suite /\ score \in Int
  <2>1. open.suite \in Optional(Suite)
    BY <1>5 DEF Line
  <2>. QED BY <2>1, <1>3, SuitesTyped, RecordAssumption DEF Optional, suite
<1>8. PICK m : m = ConfirmationResults(job, open, suite, score)
  OBVIOUS
<1>9. /\ m \in JobDirectory
      /\ m.versions = job.versions /\ m.decisions = job.decisions /\ m.log = job.log
      /\ m.stray = job.stray /\ m.reward = job.reward
      /\ ConfirmedOn(job, open, suite, score, m)
      /\ m.results[<<open.version, "parent">>] # None /\ m.results[<<open.version, "candidate">>] # None
      /\ \A p \in Places : job.results[p] # None => m.results[p] # None
  <2>1. {open.version, open.parent} \subseteq Snapshots(job)
    BY <1>6
  <2>. QED BY SMTT(45), <1>1, <1>5, <1>7, <1>8, <2>1, ConfirmationResultsTyped
<1>10. PICK line : line = ConfirmationLine(m, open)
  OBVIOUS
<1>11. {open.version, open.parent} \subseteq Snapshots(m)
  BY <1>6, <1>9 DEF Snapshots
<1>12. line \in Line /\ line.version = open.version /\ line.parent = open.parent /\ line.disposition \in {"keep", "revert"}
  BY <1>5, <1>9, <1>10, <1>11, ConfirmationLineTyped
<1>13. /\ ~Screening(line) /\ line.num = (IF m.decisions = None THEN 1 ELSE Len(m.decisions) + 1)
       /\ LineRests(m, line)
       /\ line.replicates = line.version /\ line.disposition = GateConfirms(line.verdict)
       /\ \A f \in Frozen : line[f] = open[f]
  <2>1. job.versions = m.versions
    BY <1>9
  <2>. QED BY <1>5, <1>6, <1>9, <1>10, <1>11, <2>1, ConfirmationLineSays
<1>14. PICK k : k = job'
  OBVIOUS
<1>15. k = Redecided(m, WithLine(job.decisions, line), line.disposition)
  BY <1>2, <1>8, <1>9, <1>10, <1>14 DEF Redecided
<1>16. OnlyDecided(m, k, WithLine(job.decisions, line)) /\ DecidedLog(job, k, line.disposition)
  <2>1. Len(job.log) \in DOMAIN job.log
    BY <1>1, OpenIsTheLast
  <2>. QED BY <1>1, <1>9, <1>12, <1>15, <2>1, ConfirmedDirectory
<1>17. k.decisions = WithLine(job.decisions, line) /\ k.results = m.results /\ k.versions = m.versions
  BY <1>16 DEF OnlyDecided
<1>18. k \in JobDirectory
  BY <1>1, <1>14, ConfirmStep
<1>19. LineRests(k, line)
  BY <1>13, <1>17, LineStays
<1>20. ConfirmationSays(k, line)
  <2>1. suite = (IF Gated(line) THEN line.suite ELSE SuiteNo(1))
    <3>1. line["suite"] = open["suite"] /\ line["profile"] = open["profile"]
      BY <1>13 DEF Frozen
    <3>. QED BY <3>1 DEF Gated, suite
  <2>2. PICK on, at : on = k.results[<<line.version, "parent">>] /\ at = k.results[<<line.version, "candidate">>]
    OBVIOUS
  <2>3. /\ on # None /\ on = Measurement(MethodView(k.versions[line.parent]), suite, 0)
        /\ at # None /\ at = Measurement(MethodView(k.versions[line.version]), suite, score)
    BY <1>9, <1>12, <1>17, <2>2 DEF ConfirmedOn
  <2>. QED BY ZenonT(60), <1>13, <2>1, <2>2, <2>3, ConfirmationIsOn
<1>21. \A p \in Places : p \notin {<<open.version, "parent">>, <<open.version, "candidate">>} => k.results[p] = job.results[p]
  BY <1>9, <1>17 DEF ConfirmedOn
<1>22. line.num = Len(job.decisions) + 1
  BY <1>3, <1>9, <1>13
<1>23. SnapshotsFollow(k) /\ DecisionsFollow(k)
  BY <1>1, <1>4, <1>12, <1>13, <1>16, <1>17, <1>18, <1>19, <1>20, <1>21, <1>22, ConfirmedDecisionsFollow
<1>. QED BY <1>14, <1>23

\* What a screening, and with it the confirmation it opens, plans.
PlanFits(l) ==
  /\ l.plan \in Plans \cup {None}
  /\ Gated(l) /\ l.suite # None => l.plan # None /\ l.suite = [of |-> l.tree, look |-> l.look, size |-> l.plan.size]
  /\ ~Gated(l) => Leaves(l, {"plan", "suite", "look"})

LEMMA ScreeningPlans ==
  ASSUME NEW l \in Line, ScreeningSays(l)
  PROVE  PlanFits(l)
<1>1. CASE Gated(l) /\ l.verdict # "below" /\ l.plan.exploratory
  <2>1. l.plan \in Plans /\ l["suite"] = None
    BY <1>1 DEF ScreeningSays, Leaves
  <2>. QED BY <1>1, <2>1 DEF PlanFits
<1>2. CASE Gated(l) /\ l.verdict # "below" /\ ~l.plan.exploratory
  <2>1. l.plan \in Plans /\ l.suite = [of |-> l.tree, look |-> l.look, size |-> l.plan.size]
    BY <1>2 DEF ScreeningSays
  <2>2. l.plan # None
    BY <2>1, PlansTyped, NoneIsApart
  <2>. QED BY <1>2, <2>1, <2>2 DEF PlanFits
<1>3. CASE ~(Gated(l) /\ l.verdict # "below")
  <2>1. Leaves(l, {"plan", "suite", "look"})
    BY <1>3 DEF ScreeningSays
  <2>2. l["plan"] = None /\ l["suite"] = None
    BY <2>1 DEF Leaves
  <2>. QED BY <2>1, <2>2 DEF PlanFits
<1>. QED BY <1>1, <1>2, <1>3

\* Only the line before a confirmation is open, and it is the one confirmed.
LEMMA OnlyTheLastIsOpen ==
  ASSUME NEW j \in JobDirectory, SnapshotsFollow(j), DecisionsFollow(j), j.decisions # None,
         NEW D, D = j.decisions, NEW i \in DOMAIN D
  PROVE  /\ Screening(D[i]) => OpenBefore(D, i) = {}
         /\ ~Screening(D[i]) =>
              /\ i - 1 \in DOMAIN D /\ OpenBefore(D, i) = {i - 1} /\ Opened(D, i) = D[i - 1]
              /\ D[i].version = D[i - 1].version /\ D[i].replicates = D[i].version
              /\ Screening(D[i - 1]) /\ \A f \in Frozen : D[i][f] = D[i - 1][f]
<1>1. /\ D \in Seq(Line) /\ Len(D) \in Nat /\ DOMAIN D = 1 .. Len(D)
      /\ \A k \in DOMAIN D : InPlace(D, k) /\ (~Screening(D[k]) => ConfirmationSays(j, D[k]))
  BY LineSays
<1>2. ASSUME NEW x \in OpenBefore(D, i) PROVE x = i - 1
  <2>1. x \in Nat /\ x \in DOMAIN D /\ x <= i - 1 /\ Provisional(D[x])
        /\ \A k \in (x + 1) .. (i - 1) : D[k].replicates # D[x].version
    BY <1>1 DEF OpenBefore, Earlier
  <2>2. SUFFICES ASSUME x < i - 1 PROVE FALSE
    BY <1>1, <2>1
  <2>3. x + 1 \in DOMAIN D /\ x + 1 \in (x + 1) .. (i - 1) /\ (x + 1) - 1 = x /\ x + 1 > 1
    BY <1>1, <2>1, <2>2
  <2>4. ~Screening(D[x + 1]) /\ D[x + 1].version = D[x].version
    <3>1. InPlace(D, x + 1)
      BY <1>1, <2>3
    <3>2. Screening(D[x + 1]) => ~Provisional(D[x])
      BY <2>3, <3>1 DEF InPlace
    <3>3. ~Screening(D[x + 1]) => D[x + 1].version = D[x].version
      BY <2>3, <3>1 DEF InPlace
    <3>. QED BY <2>1, <3>2, <3>3
  <2>5. D[x + 1].replicates = D[x + 1].version
    BY <1>1, <2>3, <2>4 DEF ConfirmationSays
  <2>. QED BY <2>1, <2>3, <2>4, <2>5
<1>3. ASSUME Screening(D[i]), NEW x \in OpenBefore(D, i) PROVE FALSE
  <2>1. x = i - 1 /\ x \in DOMAIN D /\ Provisional(D[x])
    BY <1>2 DEF OpenBefore, Earlier
  <2>2. i > 1
    BY <1>1, <2>1
  <2>. QED BY <1>1, <1>3, <2>1, <2>2 DEF InPlace
<1>4. ASSUME ~Screening(D[i])
      PROVE  /\ i - 1 \in DOMAIN D /\ OpenBefore(D, i) = {i - 1} /\ Opened(D, i) = D[i - 1]
             /\ D[i].version = D[i - 1].version /\ D[i].replicates = D[i].version
             /\ Screening(D[i - 1]) /\ \A f \in Frozen : D[i][f] = D[i - 1][f]
  <2>1. /\ i > 1 /\ Provisional(D[i - 1]) /\ D[i].version = D[i - 1].version
        /\ \A f \in Frozen : D[i][f] = D[i - 1][f]
    BY <1>1, <1>4 DEF InPlace
  <2>2. i - 1 \in Earlier(D, i) /\ i - 1 \in DOMAIN D /\ ((i - 1) + 1) .. (i - 1) = {}
    BY <1>1, <2>1 DEF Earlier
  <2>3. i - 1 \in OpenBefore(D, i)
    BY <2>1, <2>2 DEF OpenBefore
  <2>4. OpenBefore(D, i) = {i - 1}
    BY <1>2, <2>3
  <2>5. D[i].replicates = D[i].version
    BY <1>1, <1>4 DEF ConfirmationSays
  <2>6. Opened(D, i) = D[i - 1]
    BY <2>1, <2>4, <2>5 DEF Opened
  <2>. QED BY <2>1, <2>2, <2>4, <2>5, <2>6 DEF Provisional
<1>. QED BY <1>3, <1>4

\* A measurement that is there has its receipt.
Receipted(on, policy, suite, score) ==
  /\ on.receipt # None /\ on.receipt \in Receipt
  /\ on.receipt.result = on.result /\ on.receipt.profile = "profile" /\ on.receipt.of = policy
  /\ on.receipt.suite = suite /\ on.result.score = score
LEMMA MeasurementHasReceipt ==
  ASSUME NEW policy \in MethodTree, NEW suite, NEW score, NEW on \in Measured, on = Measurement(policy, suite, score)
  PROVE  Receipted(on, policy, suite, score)
<1>1. /\ on.receipt = [result |-> on.result, of |-> policy, suite |-> suite, profile |-> "profile"]
      /\ on.result = [of |-> policy, suite |-> suite, score |-> score]
  BY DEF Measurement
<1>2. on.result \in Result
  BY MeasuredIsSomething
<1>3. suite \in Suite
  BY <1>1, <1>2 DEF Result
<1>4. on.receipt \in Receipt
  BY <1>1, <1>2, <1>3 DEF Receipt
<1>5. on.receipt # None
  BY SMTT(45), <1>4, NoneIsApart
<1>. QED BY <1>1, <1>4, <1>5 DEF Receipted

\* Every result a line rests on is there and has a receipt.
LEMMA ResultsHaveReceipts ==
  ASSUME NEW j \in JobDirectory, SnapshotsFollow(j), DecisionsFollow(j), j.decisions # None, NEW i \in DOMAIN j.decisions,
         NEW l, l = j.decisions[i], NEW r \in RoleSet, NEW on, on = j.results[MeasuredAt(l)[r]],
         NEW w, w = (IF r = "parent" THEN l.parent ELSE l.version)
  PROVE  /\ on # None /\ on \in Measured
         /\ \E suite, score :
              /\ Receipted(on, MethodView(j.versions[w]), suite, score)
              /\ ~Screening(l) => suite = (IF Gated(l) THEN l.suite ELSE SuiteNo(1))
              /\ Screening(l) => score = j.log[w + 1].score
<1>1. /\ l \in Line /\ l.version \in Snapshots(j) /\ l.parent \in Snapshots(j)
      /\ (~Screening(l) => ConfirmationSays(j, l))
  BY LineSays
<1>2. w \in Snapshots(j)
  BY <1>1
<1>3. j.versions[w] \in Tree /\ MethodView(j.versions[w]) \in MethodTree
  BY <1>2, SnapshotsAreInOrder, TreeViews
<1>4. PICK policy : policy = MethodView(j.versions[w])
  BY SMTT(45)
<1>5. CASE Screening(l)
  <2>1. on = j.results[<<w, "visible">>]
    BY <1>5, PlacesMeasured
  <2>2. PICK score : score = j.log[w + 1].score
    BY SMTT(45)
  <2>3. on = Measurement(policy, VisibleSuite, score) /\ score \in Int
    <3>1. SnapshotFollows(j, w) /\ BlockFollows(j.log, w)
      BY SMTT(45), <1>2 DEF SnapshotsFollow
    <3>2. j.log[w + 1].score \in Int
      BY <3>1 DEF BlockFollows
    <3>3. j.results[<<w, "visible">>] = Measurement(MethodView(j.versions[w]), VisibleSuite, j.log[w + 1].score)
      BY SMTT(45), <3>1 DEF SnapshotFollows
    <3>. QED BY ZenonT(60), <1>4, <2>1, <2>2, <3>2, <3>3
  <2>4. on \in Measured
    BY SMTT(45), <1>3, <1>4, <2>3, MeasurementTyped, SuitesTyped
  <2>5. Receipted(on, policy, VisibleSuite, score)
    BY ZenonT(60), <1>3, <1>4, <2>3, <2>4, MeasurementHasReceipt
  <2>. QED BY ZenonT(60), <1>4, <1>5, <2>2, <2>4, <2>5, NoneIsApart
<1>6. CASE ~Screening(l)
  <2>1. on = j.results[<<l.version, r>>]
    BY <1>6, PlacesMeasured
  <2>2. PICK suite : suite = (IF Gated(l) THEN l.suite ELSE SuiteNo(1))
    OBVIOUS
  <2>3. PICK score : score = on.result.score
    BY SMTT(45)
  <2>4. on # None /\ on = Measurement(policy, suite, score)
    <3>1. /\ on # None
          /\ on = Measurement(MethodView(j.versions[w]), IF Gated(l) THEN l.suite ELSE SuiteNo(1), on.result.score)
      <4>. DEFINE there == j.results[<<l.version, r>>]
                  of == j.versions[IF r = "parent" THEN l.parent ELSE l.version]
      <4>1. there # None /\ there = Measurement(MethodView(of), IF Gated(l) THEN l.suite ELSE SuiteNo(1), there.result.score)
        BY <1>1, <1>6 DEF ConfirmationSays
      <4>. HIDE DEF there
      <4>2. there = on
        BY <2>1 DEF there
      <4>3. of = j.versions[w]
        OBVIOUS
      <4>. HIDE DEF of
      <4>. QED BY <4>1, <4>2, <4>3
    <3>. QED BY <1>4, <2>2, <2>3, <3>1
  <2>5. on \in Measured
    <3>1. <<l.version, r>> \in Places
      BY <1>1 DEF Places, RoleSet, Snapshots
    <3>. QED BY ZenonT(60), <2>1, <2>4, <3>1 DEF JobDirectory, Optional
  <2>6. Receipted(on, policy, suite, score)
    BY ZenonT(60), <1>3, <1>4, <2>4, <2>5, MeasurementHasReceipt
  <2>. QED BY ZenonT(60), <1>4, <1>6, <2>2, <2>4, <2>5, <2>6
<1>. QED BY <1>5, <1>6

\* A line carries a plan that fits, a screening's or the one it took over.
LEMMA LinePlans ==
  ASSUME NEW j \in JobDirectory, SnapshotsFollow(j), DecisionsFollow(j), j.decisions # None,
         NEW i \in DOMAIN j.decisions, NEW l, l = j.decisions[i]
  PROVE  PlanFits(l)
<1>. DEFINE D == j.decisions
<1>1. \A k \in DOMAIN D : D[k] \in Line /\ (Screening(D[k]) => ScreeningSays(D[k]))
  BY LineSays
<1>2. CASE Screening(l)
  BY <1>1, <1>2, ScreeningPlans
<1>3. CASE ~Screening(l)
  <2>1. PICK o : o = D[i - 1]
    OBVIOUS
  <2>2. i - 1 \in DOMAIN D /\ Screening(D[i - 1]) /\ \A f \in Frozen : D[i][f] = D[i - 1][f]
    BY <1>3, OnlyTheLastIsOpen
  <2>3. PlanFits(o)
    BY <1>1, <2>1, <2>2, ScreeningPlans
  <2>4. /\ l["profile"] = o["profile"] /\ l["plan"] = o["plan"] /\ l["suite"] = o["suite"]
        /\ l["look"] = o["look"] /\ l["tree"] = o["tree"]
    BY <2>1, <2>2 DEF Frozen
  <2>5. Gated(l) = Gated(o)
    BY <2>4 DEF Gated
  <2>6. Leaves(o, {"plan", "suite", "look"}) => Leaves(l, {"plan", "suite", "look"})
    BY <2>4 DEF Leaves
  <2>. QED BY <2>3, <2>4, <2>5, <2>6 DEF PlanFits
<1>. QED BY <1>2, <1>3

\* A line has the shape that the converter wants of the mode.
LEMMA LineHasItsShape ==
  ASSUME NEW j \in JobDirectory, SnapshotsFollow(j), DecisionsFollow(j), j.decisions # None,
         NEW i \in DOMAIN j.decisions, NEW l, l = j.decisions[i]
  PROVE  /\ Gated(l) <=> mode = "gated"
         /\ IF Gated(l) THEN GatedShape(l) ELSE ReplayShape(l)
<1>1. l \in Line /\ LineRests(j, l) /\ l.version \in Snapshots(j) /\ l.parent \in Snapshots(j)
  BY LineSays
<1>2. PlanFits(l)
  BY LinePlans
<1>3. Gated(l) <=> mode = "gated"
  BY <1>1, NoneIsApart DEF LineRests, Gated
<1>4. ASSUME Gated(l) PROVE GatedShape(l)
  <2>1. l.parentTree = MethodView(j.versions[l.parent]) /\ l.tree = MethodView(j.versions[l.version])
    BY <1>1, <1>3, <1>4 DEF LineRests
  <2>2. MethodView(j.versions[l.parent]) # None /\ MethodView(j.versions[l.version]) # None
    BY <1>1, SnapshotsAreInOrder, TreeViews, NoneIsApart
  <2>3. l["parentTree"] # None /\ l["tree"] # None
    BY <2>1, <2>2
  <2>4. l.plan # None => PlanIsWhole(l.plan)
    <3>1. \A p \in Plans : PlanIsWhole(p)
      <4>1. /\ 2 <= 2 /\ (2 < 2) = FALSE
            /\ 1 <= 2 /\ (1 < 2) = TRUE
        OBVIOUS
      <4>2. ASSUME NEW p, NEW s, NEW q, NEW x, p.size = s, p.planned = q, p.exploratory = x, s <= q, (s < q) = x
            PROVE  PlanIsWhole(p)
        BY ONLY <4>2, Zenon DEF PlanIsWhole
      <4>3. \A p \in Plans : \/ p.size = 2 /\ p.planned = 2 /\ p.exploratory = FALSE
                             \/ p.size = 1 /\ p.planned = 2 /\ p.exploratory = TRUE
        BY DEF Plans
      <4>4. ASSUME NEW p \in Plans PROVE PlanIsWhole(p)
        <5>1. CASE p.size = 2 /\ p.planned = 2 /\ p.exploratory = FALSE
          BY ONLY <5>1, <4>1, <4>2, Zenon
        <5>2. CASE p.size = 1 /\ p.planned = 2 /\ p.exploratory = TRUE
          BY ONLY <5>2, <4>1, <4>2, Zenon
        <5>. QED BY <4>3, <5>1, <5>2
      <4>. QED BY <4>4
    <3>. QED BY <1>2, <3>1 DEF PlanFits
  <2>5. ASSUME NEW r \in RoleSet PROVE l.evidence[r].receipt # None
    <3>1. l.evidence = EvidenceAt(j.results, MeasuredAt(l), TRUE)
      BY <1>1, <1>3, <1>4 DEF LineRests
    <3>2. l.evidence[r].receipt = j.results[MeasuredAt(l)[r]].receipt
      BY <3>1 DEF EvidenceAt
    <3>3. PICK on, w : on = j.results[MeasuredAt(l)[r]] /\ w = (IF r = "parent" THEN l.parent ELSE l.version)
      OBVIOUS
    <3>4. \E suite, score : Receipted(on, MethodView(j.versions[w]), suite, score)
      BY <3>3, ResultsHaveReceipts
    <3>5. on.receipt # None
      BY <3>4 DEF Receipted
    <3>. QED BY <3>2, <3>3, <3>5
  <2>. QED BY <1>2, <1>4, <2>3, <2>4, <2>5 DEF GatedShape, PlanFits, States
<1>5. ASSUME ~Gated(l) PROVE ReplayShape(l)
  <2>1. l["profile"] = None /\ l["parentTree"] = None /\ l["tree"] = None
    BY <1>1, <1>3, <1>5 DEF LineRests
  <2>2. l["plan"] = None /\ l["suite"] = None /\ l["look"] = None
    BY <1>2, <1>5 DEF PlanFits, Leaves
  <2>. QED BY <2>1, <2>2 DEF ReplayShape, Leaves
<1>. QED BY <1>3, <1>4, <1>5

\* The gate's rules are the converter's.
LEMMA SameVerdict ==
  ASSUME NEW estimate \in Int
  PROVE  GateVerdict(estimate) = MeasuredVerdict(estimate)
<1>1. MinEffect \in Nat /\ Spread \in Nat
  BY DecisionLinesAssumption
<1>2. CASE Lower(estimate) > MinEffect
  <2>1. ~(Upper(estimate) < 0)
    BY <1>1, <1>2 DEF Lower, Upper
  <2>. QED BY <1>2, <2>1 DEF GateVerdict, MeasuredVerdict
<1>3. CASE ~(Lower(estimate) > MinEffect)
  BY <1>3 DEF GateVerdict, MeasuredVerdict
<1>. QED BY <1>2, <1>3

LEMMA ScreeningIsExpected ==
  ASSUME NEW l \in Line, Screening(l), ScreeningSays(l)
  PROVE  l.disposition = ConverterExpects(l)
<1>1. l.verdict \in {"clears", "below", "inconclusive"}
  BY DEF Line
<1>2. CASE ~Gated(l)
  BY <1>1, <1>2 DEF ScreeningSays, ConverterExpects, GateScreens
<1>3. CASE Gated(l) /\ l.verdict = "below"
  <2>1. l.disposition = "revert" /\ l["plan"] = None /\ Leaves(l, {"suite", "look"})
    BY <1>3 DEF ScreeningSays, GateScreens, Leaves
  <2>. QED BY <1>3, <2>1 DEF ConverterExpects
<1>4. CASE Gated(l) /\ l.verdict # "below" /\ l.plan.exploratory
  <2>1. l.disposition = "revert" /\ Leaves(l, {"suite", "look"}) /\ l.plan \in Plans
    BY <1>4 DEF ScreeningSays
  <2>2. Exploratory(l)
    BY <1>4, <2>1, PlansTyped, NoneIsApart DEF Exploratory
  <2>. QED BY <1>4, <2>1, <2>2 DEF ConverterExpects
<1>5. CASE Gated(l) /\ l.verdict # "below" /\ ~l.plan.exploratory
  <2>1. /\ l.disposition = "provisional" /\ l.plan \in Plans /\ l.look \in Nat
        /\ l.suite = [of |-> l.tree, look |-> l.look, size |-> l.plan.size]
    BY <1>5 DEF ScreeningSays
  <2>2. l["plan"] # None /\ l["look"] # None
    BY <2>1, PlansTyped, NoneIsApart
  <2>3. l["suite"] # None
    <3>1. l.tree \in Optional(MethodTree) /\ l.plan.size \in Nat
      BY <2>1, PlansTyped DEF Line, Plan
    <3>2. l.suite \in Suite
      BY <2>1, <3>1 DEF Suite
    <3>. QED BY <3>2, NoneIsApart
  <2>4. ~Exploratory(l)
    BY <1>5 DEF Exploratory
  <2>5. States(l, {"plan", "suite", "look"})
    BY <2>2, <2>3 DEF States
  <2>. QED BY <1>5, <2>1, <2>4, <2>5 DEF ConverterExpects
<1>. QED BY <1>2, <1>3, <1>4, <1>5

\* The converter accepts the log of a rollout.
LEMMA RolloutConverts ==
  ASSUME NEW j \in JobDirectory, SnapshotsFollow(j), DecisionsFollow(j), j.decisions # None
  PROVE  Converts(j.decisions)
<1>1. PICK D : D = j.decisions
  OBVIOUS
<1>2. D \in Seq(Line) /\ D # <<>>
  <2>1. D # <<>>
    BY <1>1 DEF DecisionsFollow
  <2>. QED BY <1>1, <2>1 DEF JobDirectory, Optional
<1>3. 1 \in DOMAIN D
  BY <1>2
<1>4. ASSUME NEW i \in DOMAIN D
      PROVE  /\ D[i].num = i /\ D[i].profile = D[1].profile
             /\ LineConverts(D[i], Opened(D, i))
             /\ ~Screening(D[i]) => D[i].parent = Opened(D, i).parent
             /\ Provisional(D[i]) => OpenBefore(D, i) = {}
             /\ Screening(D[i]) => \A x \in OpenBefore(D, i) : D[x].version # D[i].parent
  <2>1. /\ D[i] \in Line /\ InPlace(D, i) /\ LineRests(j, D[i]) /\ LineRests(j, D[1])
        /\ (Screening(D[i]) => ScreeningSays(D[i])) /\ (~Screening(D[i]) => ConfirmationSays(j, D[i]))
    BY <1>1, <1>3, LineSays
  <2>2. D[i].num = i /\ D[i].profile = D[1].profile
    BY <2>1 DEF InPlace, LineRests
  <2>3. /\ Screening(D[i]) => OpenBefore(D, i) = {}
        /\ ~Screening(D[i]) =>
              /\ i - 1 \in DOMAIN D /\ OpenBefore(D, i) = {i - 1} /\ Opened(D, i) = D[i - 1]
              /\ D[i].version = D[i - 1].version /\ D[i].replicates = D[i].version
              /\ Screening(D[i - 1]) /\ \A f \in Frozen : D[i][f] = D[i - 1][f]
    BY <1>1, OnlyTheLastIsOpen
  <2>4. D[i].verdict = MeasuredVerdict(D[i].estimate)
    <3>1. D[i].verdict = GateVerdict(D[i].estimate) /\ D[i].estimate \in Int
      BY <2>1 DEF LineRests, Line
    <3>. QED BY <3>1, SameVerdict
  <2>5. IF Gated(D[i]) THEN GatedShape(D[i]) ELSE ReplayShape(D[i])
    BY <1>1, LineHasItsShape
  <2>6. CASE Screening(D[i])
    <3>1. D[i].disposition = ConverterExpects(D[i])
      BY <2>1, <2>6, ScreeningIsExpected
    <3>2. LineConverts(D[i], Opened(D, i))
      BY <2>4, <2>5, <2>6, <3>1 DEF LineConverts
    <3>. QED BY <2>2, <2>3, <2>6, <3>2
  <2>7. CASE ~Screening(D[i])
    <3>1. PICK o : o = Opened(D, i)
      OBVIOUS
    <3>2. /\ o \in Line /\ D[i].replicates = D[i].version
          /\ \A f \in Frozen : D[i][f] = o[f]
      BY <1>2, <2>3, <2>7, <3>1
    <3>3. D[i].disposition = GateConfirms(D[i].verdict)
      BY <2>1, <2>7 DEF ConfirmationSays
    <3>4. LineConverts(D[i], o)
      <4>1. o # None
        BY <3>2, NoneIsApart
      <4>2. D[i].disposition = ConverterExpects(D[i]) /\ D[i].disposition # "provisional"
        BY <2>7, <3>3 DEF ConverterExpects, GateConfirms
      <4>. QED BY <2>4, <2>5, <3>2, <4>1, <4>2 DEF LineConverts
    <3>5. D[i]["parent"] = o["parent"]
      BY <3>2 DEF Frozen
    <3>6. ~Provisional(D[i])
      BY <2>7 DEF Provisional
    <3>. QED BY <2>2, <2>7, <3>1, <3>4, <3>5, <3>6
  <2>. QED BY <2>6, <2>7
<1>. QED BY <1>1, <1>2, <1>4 DEF Converts

-----------------------------------------------------------------------------
(* What a rollout leaves and nobody alters, the producer records.          *)

LEMMA OrdinalIsTheNext ==
  ASSUME NEW j \in JobDirectory, SnapshotsFollow(j), NEW v \in Snapshots(j)
  PROVE  Ordinal(j.log, v) = v + 1
<1>1. /\ Len(j.log) \in Nat /\ Snapshots(j) = 0 .. (Len(j.log) - 1) /\ DeclaredIn(j.log) = Snapshots(j)
      /\ \A w \in Snapshots(j) : LineOf(j.log, w) = w + 1
  BY SnapshotsAreInOrder
<1>2. v \in Nat /\ v <= Len(j.log) - 1
  BY <1>1
<1>3. {w \in DeclaredIn(j.log) : LineOf(j.log, w) <= LineOf(j.log, v)} = 0 .. v
  <2>1. \A w \in Snapshots(j) : LineOf(j.log, w) <= LineOf(j.log, v) <=> w <= v
    BY <1>1, <1>2
  <2>2. {w \in DeclaredIn(j.log) : LineOf(j.log, w) <= LineOf(j.log, v)} = {w \in 0 .. (Len(j.log) - 1) : w <= v}
    BY <1>1, <2>1
  <2>3. {w \in 0 .. (Len(j.log) - 1) : w <= v} = 0 .. v
    BY <1>1, <1>2
  <2>. QED BY <2>2, <2>3
<1>4. Cardinality(0 .. v) = v + 1
  BY <1>2, FS_Interval
<1>. QED BY <1>3, <1>4 DEF Ordinal

\* The first version has no parent, every other one that is an earlier snapshot.
LEMMA ParentsAreSnapshots ==
  ASSUME NEW j \in JobDirectory, SnapshotsFollow(j), NEW v \in Snapshots(j)
  PROVE  /\ Unsnapshotted(j, v) = {} /\ ParentsOf(j, v) = Recorded(j, v)
         /\ v = 0 => Recorded(j, v) = {}
         /\ v # 0 => \E p \in Snapshots(j) : Recorded(j, v) = {p} /\ p \in 0 .. (v - 1)
<1>1. /\ v \in Nat /\ BlockOf(j.log, v) = j.log[v + 1] /\ DeclaredIn(j.log) = Snapshots(j)
  BY SnapshotsAreInOrder
<1>2. CASE v = 0
  <2>1. j.log[v + 1].parent = None
    <3>1. BlockFollows(j.log, v) /\ v + 1 = 1
      BY <1>2 DEF SnapshotsFollow
    <3>. QED BY <1>2, <3>1 DEF BlockFollows
  <2>2. ParentsOf(j, v) = {}
    BY <1>1, <2>1 DEF ParentsOf
  <2>. QED BY <1>2, <2>2 DEF Recorded, Unsnapshotted
<1>3. CASE v # 0
  <2>1. PICK p : p = j.log[v + 1].parent
    OBVIOUS
  <2>2. p \in Snapshots(j) /\ p \in 0 .. (v - 1)
    BY <1>3, <2>1, ParentIsASnapshot
  <2>3. p # v /\ p # None
    BY <1>1, <2>2, NoneIsApart DEF Snapshots
  <2>4. ParentsOf(j, v) = {p}
    BY <1>1, <2>1, <2>3 DEF ParentsOf
  <2>. QED BY <1>3, <2>2, <2>4 DEF Recorded, Unsnapshotted
<1>. QED BY <1>2, <1>3

\* main/ is a version with the caches of its run, and nothing else.
LEMMA MainIsAVersion ==
  ASSUME NEW j \in JobDirectory, SnapshotsFollow(j), HandedIn(j)
  PROVE  /\ j.main # None /\ Stageable(j.main) /\ Digestible(j.main) /\ StageableErrors(j.main) = {}
         /\ \E v \in Standing(j) : v \in Matches(j)
<1>1. PICK v \in Standing(j) : j.main = [Clean(MethodView(j.versions[v])) EXCEPT !.caches = TRUE]
  BY DEF HandedIn
<1>2. v \in Snapshots(j)
  BY DEF Standing
<1>3. PICK policy \in Policy \ Oversized : j.versions[v] = Clean(policy)
  BY <1>2 DEF SnapshotsFollow, SnapshotFollows
<1>4. MethodView(j.versions[v]) = policy
  BY <1>3 DEF MethodView, Clean
<1>5. j.main = [python |-> policy, caches |-> TRUE, notes |-> FALSE, link |-> FALSE]
  BY <1>1, <1>4 DEF Clean
<1>6. j.main \in Tree /\ j.main # None
  <2>1. j.main \in Tree
    BY <1>5 DEF Tree
  <2>. QED BY <2>1, NoneIsApart
<1>7. policy \notin Oversized /\ policy # NoPolicy
  BY TreesAssumption
<1>8. Stageable(j.main) /\ Digestible(j.main) /\ StageableErrors(j.main) = {}
  BY <1>5, <1>7 DEF Stageable, Digestible, StageableErrors
<1>9. v \in Matches(j)
  BY <1>2, <1>4, <1>5 DEF Matches, MethodView
<1>. QED BY <1>6, <1>8, <1>9

LEMMA ProducerTakesIt ==
  ASSUME NEW j \in JobDirectory, SnapshotsFollow(j), DecisionsFollow(j), HandedIn(j), ~Undecided(j)
  PROVE  ~ProducerRefuses(j)
<1>1. /\ DeclaredIn(j.log) = Snapshots(j)
      /\ \A v \in Snapshots(j) : v \in Nat /\ v + 1 \in DOMAIN j.log /\ BlockOf(j.log, v) = j.log[v + 1]
  BY SnapshotsAreInOrder
<1>2. /\ j.main # None /\ Stageable(j.main) /\ Digestible(j.main)
      /\ \E v \in Standing(j) : v \in Matches(j)
  BY MainIsAVersion
<1>3. ~j.stray /\ j.reward \notin {"absent", "text"}
  BY DEF SnapshotsFollow
<1>4. j.decisions # None => ProducerReads(j.decisions) /\ \A i \in DOMAIN j.decisions : j.decisions[i].version \in Snapshots(j)
  <2>. SUFFICES ASSUME j.decisions # None
                PROVE  ProducerReads(j.decisions) /\ \A i \in DOMAIN j.decisions : j.decisions[i].version \in Snapshots(j)
    OBVIOUS
  <2>1. Converts(j.decisions) /\ j.decisions \in Seq(Line)
    BY RolloutConverts DEF JobDirectory, Optional
  <2>2. \A i \in DOMAIN j.decisions : j.decisions[i].version \in Snapshots(j) /\ j.decisions[i].unit = "unit"
    BY LineSays DEF LineRests
  <2>3. 1 \in DOMAIN j.decisions
    BY <2>1 DEF Converts
  <2>4. ProducerReads(j.decisions)
    <3>1. ReadAlikeIfConverted(j.decisions)
      BY <2>1, ConvertedIsReadAlike
    <3>2. \A i \in DOMAIN j.decisions : j.decisions[i].unit = j.decisions[1].unit
      BY <2>2, <2>3
    <3>. QED BY <3>1, <3>2 DEF ReadAlikeIfConverted
  <2>. QED BY <2>2, <2>4
<1>5. ASSUME NEW v \in Snapshots(j) PROVE ~VersionRefused(j, v)
  <2>1. ParentsOf(j, v) \subseteq Recorded(j, v) \cup Unsnapshotted(j, v)
    BY ParentsAreSnapshots
  <2>2. Recorded(j, v) # {} \/ IsLowest(j, v)
    <3>1. CASE v # 0
      BY <3>1, ParentsAreSnapshots
    <3>2. CASE v = 0
      <4>1. \A w \in Snapshots(j) : Ordinal(j.log, w) = w + 1
        BY OrdinalIsTheNext
      <4>. QED BY <1>1, <3>2, <4>1 DEF IsLowest
    <3>. QED BY <3>1, <3>2
  <2>3. Digestible(j.versions[v])
    <3>1. PICK policy \in Policy \ Oversized : j.versions[v] = Clean(policy)
      BY DEF SnapshotsFollow, SnapshotFollows
    <3>. QED BY <3>1 DEF Digestible, Clean
  <2>4. BlockOf(j.log, v).status # "none"
    BY <1>1 DEF Undecided
  <2>. QED BY <2>1, <2>2, <2>3, <2>4 DEF VersionRefused
<1>6. Matches(j) # {} /\ Snapshots(j) # {}
  BY <1>2 DEF Standing
<1>. QED BY <1>1, <1>2, <1>3, <1>4, <1>5, <1>6 DEF ProducerRefuses

-----------------------------------------------------------------------------
(* HonestInv is an invariant.                                              *)

\* Two directories that differ in main/ only.
SameButMain(j, k) ==
  /\ k.versions = j.versions /\ k.stray = j.stray /\ k.log = j.log
  /\ k.decisions = j.decisions /\ k.results = j.results /\ k.reward = j.reward

LEMMA MainIsNotRead ==
  ASSUME NEW j, NEW k, SameButMain(j, k), SnapshotsFollow(j), DecisionsFollow(j)
  PROVE  SnapshotsFollow(k) /\ DecisionsFollow(k) /\ Standing(k) = Standing(j)
<1>1. Snapshots(k) = Snapshots(j)
  BY DEF SameButMain, Snapshots
<1>2. Standing(k) = Standing(j)
  BY <1>1 DEF SameButMain, Standing
<1>3. \A v : SnapshotFollows(j, v) => SnapshotFollows(k, v)
  BY DEF SameButMain, SnapshotFollows
<1>4. SnapshotsFollow(k)
  BY <1>1, <1>3 DEF SameButMain, SnapshotsFollow
<1>5. \A v : Decided(j, v) => Decided(k, v)
  BY DEF SameButMain, Decided
<1>6. \A l : LineRests(j, l) => LineRests(k, l)
  BY DEF SameButMain, LineRests
<1>7. \A l : ConfirmationSays(j, l) => ConfirmationSays(k, l)
  BY DEF SameButMain, ConfirmationSays
<1>8. \A i : LineFollowsRollout(j, i) => LineFollowsRollout(k, i)
  BY <1>1, <1>6, <1>7 DEF SameButMain, LineFollowsRollout
<1>9. DecisionsFollow(k)
  BY <1>1, <1>5, <1>8 DEF SameButMain, DecisionsFollow
<1>. QED BY <1>2, <1>4, <1>9

LEMMA EmptyFollows ==
  ASSUME Init
  PROVE  SnapshotsFollow(job) /\ DecisionsFollow(job)
<1>1. /\ job.versions = [v \in Version |-> None] /\ job.log = <<>> /\ job.decisions = None
      /\ job.stray = FALSE /\ job.reward = "low"
  BY DEF Init, EmptyJob
<1>2. Snapshots(job) = {}
  BY <1>1 DEF Snapshots
<1>3. 0 .. (Len(job.log) - 1) = {}
  BY <1>1
<1>4. SnapshotsFollow(job)
  BY <1>1, <1>2, <1>3 DEF SnapshotsFollow
<1>5. DecisionsFollow(job)
  BY <1>1, <1>2 DEF DecisionsFollow
<1>. QED BY <1>4, <1>5

\* The mode does not change, so neither does what is asked of a directory.
LEMMA ModeStays ==
  ASSUME mode' = mode, SnapshotsFollow(job'), DecisionsFollow(job')
  PROVE  SnapshotsFollow(job)' /\ DecisionsFollow(job)'
<1>1. SnapshotsFollow(job)'
  OBVIOUS
<1>2. \A v : Decided(job', v) => Decided(job, v)'
  BY DEF Decided
<1>3. \A l : LineRests(job', l) => LineRests(job, l)'
  BY DEF LineRests
<1>4. \A l : ConfirmationSays(job', l) => ConfirmationSays(job, l)'
  BY DEF ConfirmationSays
<1>5. \A i : LineFollowsRollout(job', i) => LineFollowsRollout(job, i)'
  BY <1>3, <1>4 DEF LineFollowsRollout
<1>6. DecisionsFollow(job)'
  BY <1>2, <1>5 DEF DecisionsFollow
<1>. QED BY <1>1, <1>6

LEMMA HonestInitially == Init => HonestInv
<1>. SUFFICES ASSUME Init PROVE HonestInv
  OBVIOUS
<1>1. phase = "rollout" /\ altered = 0 /\ ~reworded
  BY DEF Init
<1>. QED BY <1>1, EmptyFollows DEF HonestInv, Untouched

LEMMA RolloutKeepsHonest ==
  ASSUME HonestInv, phase = "rollout", phase' = "rollout", mode' = mode, altered' = altered, reworded' = reworded,
         SnapshotsFollow(job'), DecisionsFollow(job')
  PROVE  HonestInv'
<1>1. altered' = 0 /\ ~reworded'
  BY DEF HonestInv, Untouched
<1>2. SnapshotsFollow(job)' /\ DecisionsFollow(job)'
  BY ModeStays
<1>. QED BY <1>1, <1>2 DEF HonestInv, Untouched

LEMMA HandInKeepsHonest ==
  ASSUME IInv, HonestInv, HandIn
  PROVE  HonestInv'
<1>1. /\ phase = "rollout" /\ phase' = "handed" /\ mode' = mode /\ altered' = altered /\ reworded' = reworded
      /\ job \in JobDirectory
  BY DEF HandIn, IInv, TypeOK
<1>2. altered = 0 /\ SnapshotsFollow(job) /\ DecisionsFollow(job)
  BY <1>1 DEF HonestInv, Untouched
<1>3. PICK v \in Standing(job) :
        job' = [job EXCEPT !.main = [Clean(MethodView(job.versions[v])) EXCEPT !.caches = TRUE]]
  BY DEF HandIn
<1>4. PICK k : k = job'
  OBVIOUS
<1>5. SameButMain(job, k) /\ k.main = [Clean(MethodView(job.versions[v])) EXCEPT !.caches = TRUE]
  BY <1>1, <1>3, <1>4 DEF SameButMain, JobDirectory
<1>6. SnapshotsFollow(k) /\ DecisionsFollow(k) /\ Standing(k) = Standing(job)
  BY <1>2, <1>5, MainIsNotRead
<1>7. HandedIn(k)
  <2>1. k.log # <<>>
    <3>1. v \in Snapshots(job)
      BY DEF Standing
    <3>2. v + 1 \in DOMAIN job.log
      BY <1>1, <1>2, <3>1, SnapshotsAreInOrder
    <3>. QED BY <1>5, <3>2 DEF SameButMain
  <2>2. k.main = [Clean(MethodView(k.versions[v])) EXCEPT !.caches = TRUE]
    BY <1>5 DEF SameButMain
  <2>. QED BY <1>6, <2>1, <2>2 DEF HandedIn
<1>8. SnapshotsFollow(job)' /\ DecisionsFollow(job)'
  BY <1>1, <1>4, <1>6, ModeStays
<1>9. HandedIn(job)'
  BY <1>4, <1>7
<1>. QED BY <1>1, <1>8, <1>9 DEF HonestInv

LEMMA StepKeepsHonest == IInv /\ HonestInv /\ [Next]_vars => HonestInv'
<1>. SUFFICES ASSUME IInv, HonestInv, [Next]_vars PROVE HonestInv'
  OBVIOUS
<1>1. phase = "rollout" => SnapshotsFollow(job) /\ DecisionsFollow(job)
  BY DEF HonestInv, Untouched
<1>2. CASE Inherit
  <2>1. phase = "rollout" /\ phase' = "rollout" /\ mode' = mode /\ altered' = altered /\ reworded' = reworded
    BY <1>2 DEF Inherit
  <2>. QED BY <1>1, <1>2, <2>1, InheritKeeps, RolloutKeepsHonest
<1>3. CASE Try
  <2>1. phase = "rollout" /\ phase' = "rollout" /\ mode' = mode /\ altered' = altered /\ reworded' = reworded
    BY <1>3 DEF Try
  <2>. QED BY <1>1, <1>3, <2>1, TryKeeps, RolloutKeepsHonest
<1>4. CASE Screen
  <2>1. phase = "rollout" /\ phase' = "rollout" /\ mode' = mode /\ altered' = altered /\ reworded' = reworded
    BY <1>4 DEF Screen
  <2>. QED BY <1>1, <1>4, <2>1, ScreenKeeps, RolloutKeepsHonest
<1>5. CASE Confirm
  <2>1. phase = "rollout" /\ phase' = "rollout" /\ mode' = mode /\ altered' = altered /\ reworded' = reworded
    BY <1>5 DEF Confirm
  <2>. QED BY <1>1, <1>5, <2>1, ConfirmKeeps, RolloutKeepsHonest
<1>6. CASE HandIn
  BY <1>6, HandInKeepsHonest
<1>7. CASE Alter
  <2>1. altered \in Nat /\ altered' = altered + 1 /\ phase' = phase /\ phase # "rollout"
    BY <1>7 DEF Alter, IInv, TypeOK
  <2>2. altered' # 0
    BY <2>1
  <2>. QED BY <2>1, <2>2 DEF HonestInv
<1>. DEFINE Same == SnapshotsFollow(job)' /\ DecisionsFollow(job)' /\ HandedIn(job)' /\ (Undecided(job) => Undecided(job)')
<1>8. ASSUME mode' = mode, job' = job, altered = 0, phase # "rollout" PROVE Same
  <2>1. SnapshotsFollow(job) /\ DecisionsFollow(job) /\ HandedIn(job)
    BY <1>8 DEF HonestInv
  <2>2. SnapshotsFollow(job') /\ DecisionsFollow(job')
    BY <1>8, <2>1
  <2>3. SnapshotsFollow(job)' /\ DecisionsFollow(job)'
    BY <1>8, <2>2, ModeStays
  <2>4. HandedIn(job)' /\ (Undecided(job) => Undecided(job)')
    BY <1>8, <2>1 DEF HandedIn, Undecided, Standing, Snapshots
  <2>. QED BY <2>3, <2>4
<1>9. CASE Reword
  <2>1. phase = "recorded" /\ UNCHANGED <<mode, job, phase, altered>> /\ reworded' = TRUE
    BY <1>9 DEF Reword
  <2>2. altered = 0 => Same
    BY <1>8, <2>1
  <2>. QED BY <2>1, <2>2 DEF HonestInv
<1>10. CASE Build
  <2>1. /\ phase = "handed" /\ UNCHANGED <<mode, job, altered, reworded>>
        /\ \/ ProducerRefuses(job) /\ phase' = "refused"
           \/ ~ProducerRefuses(job) /\ phase' = "recorded" /\ record' = Produced(job)
    BY <1>10 DEF Build
  <2>2. altered = 0 => Same
    BY <1>8, <2>1
  <2>3. altered = 0 /\ ProducerRefuses(job) => Undecided(job)
    <3>1. job \in JobDirectory
      BY DEF IInv, TypeOK
    <3>. QED BY <2>1, <3>1, ProducerTakesIt DEF HonestInv
  <2>4. phase' = "recorded" => (record = Produced(job))' /\ (~ProducerRefuses(job))'
    <3>1. phase' = "recorded" => record' = Produced(job') /\ ~ProducerRefuses(job')
      BY <2>1
    <3>. QED BY <3>1
  <2>. QED BY <2>1, <2>2, <2>3, <2>4 DEF HonestInv
<1>11. CASE Verify
  <2>1. phase = "recorded" /\ phase' = "verified" /\ UNCHANGED <<mode, job, record, altered, reworded>>
    BY <1>11 DEF Verify
  <2>2. altered = 0 => Same
    BY <1>8, <2>1
  <2>3. ~reworded /\ altered = 0 => (record = Produced(job))' /\ (~ProducerRefuses(job))'
    <3>1. ~reworded /\ altered = 0 => record' = Produced(job') /\ ~ProducerRefuses(job')
      BY <2>1 DEF HonestInv
    <3>. QED BY <3>1
  <2>. QED BY <2>1, <2>2, <2>3 DEF HonestInv
<1>12. CASE UNCHANGED vars
  <2>1. UNCHANGED <<mode, job, record, phase, altered, reworded>>
    BY <1>12 DEF vars
  <2>2. CASE phase = "rollout"
    <3>1. SnapshotsFollow(job') /\ DecisionsFollow(job')
      BY <1>1, <2>1, <2>2
    <3>. QED BY <2>1, <2>2, <3>1, RolloutKeepsHonest
  <2>3. CASE phase # "rollout"
    <3>1. altered = 0 => Same
      BY <1>8, <2>1, <2>3
    <3>2. altered = 0 /\ phase \in {"recorded", "verified"} /\ ~reworded => (record = Produced(job))' /\ (~ProducerRefuses(job))'
      <4>1. altered = 0 /\ phase \in {"recorded", "verified"} /\ ~reworded => record' = Produced(job') /\ ~ProducerRefuses(job')
        BY <2>1 DEF HonestInv
      <4>. QED BY <4>1
    <3>. QED BY <2>1, <2>3, <3>1, <3>2 DEF HonestInv
  <2>. QED BY <2>2, <2>3
<1>13. CASE Done
  BY <1>12, <1>13 DEF Done
<1>. QED BY <1>2, <1>3, <1>4, <1>5, <1>6, <1>7, <1>9, <1>10, <1>11, <1>12, <1>13 DEF Next

\* What a rollout under the protocol leaves (versions, blocks, decision lines,
\* results, main/) keeps its form until something is altered by hand, the
\* producer refuses it only over a decision left open, and the record is the
\* producer's (src/runbook/provenance.py, decide_with_gate; build_capsule).
THEOREM HonestInvariance == Spec => [](IInv /\ HonestInv)
<1>1. Init => IInv /\ HonestInv
  BY InitTyped, HonestInitially
<1>2. IInv /\ HonestInv /\ [Next]_vars => IInv' /\ HonestInv'
  BY StepKeepsInvariant, StepKeepsHonest
<1>. QED BY <1>1, <1>2, PTL DEF Spec

\* An unaltered log is one that the converter takes; what the converter takes,
\* the other readers read alike.
LEMMA AgreeIfHonest == IInv /\ HonestInv => ReadersAgree
<1>. SUFFICES ASSUME IInv, HonestInv, job.decisions # None PROVE ReadersAgree
  BY DEF ReadersAgree
<1>1. job \in JobDirectory /\ job.decisions \in Seq(Line)
  BY DEF IInv, TypeOK, JobDirectory, Optional
<1>2. altered = 0 => Converts(job.decisions)
  BY <1>1, RolloutConverts DEF HonestInv
<1>3. Converts(job.decisions) => ReadAlikeIfConverted(job.decisions)
  BY <1>1, ConvertedIsReadAlike
<1>. QED BY <1>2, <1>3 DEF ReadersAgree, ReadAlikeIfConverted

-----------------------------------------------------------------------------
(* The verifier accepts the record of what a rollout leaves.               *)

\* r is the producer's record of what a rollout left.
Honest(j, r) == SnapshotsFollow(j) /\ DecisionsFollow(j) /\ HandedIn(j) /\ ~ProducerRefuses(j) /\ r = Produced(j)

LEMMA RecordTells ==
  ASSUME NEW j \in JobDirectory, NEW r, Honest(j, r)
  PROVE  /\ r \in RecordType /\ RecordedVersions(r) = Snapshots(j)
         /\ \A v \in Snapshots(j) : r.versions[v] = VersionIn(j, v)
         /\ r.final.class = MainClass(j) /\ r.final.version = Head(MainClass(j))
         /\ r.final.tree = j.main /\ r.final.method = MethodView(j.main)
         /\ r.log = j.log /\ r.decisionLog = j.decisions /\ r.reward = j.reward
         /\ j.decisions # None => r.unit = j.decisions[1].unit
<1>1. r = Produced(j) /\ r \in RecordType
  BY ProducedTyped DEF Honest
<1>2. r.versions = [v \in Snapshots(j) |-> VersionIn(j, v)]
  BY <1>1 DEF Produced
<1>3. RecordedVersions(r) = Snapshots(j) /\ \A v \in Snapshots(j) : r.versions[v] = VersionIn(j, v)
  BY <1>2 DEF RecordedVersions
<1>4. /\ r.final.class = MainClass(j) /\ r.final.version = Head(MainClass(j))
      /\ r.final.tree = j.main /\ r.final.method = MethodView(j.main)
  BY <1>1 DEF Produced, FullView
<1>5. r.log = j.log /\ r.decisionLog = j.decisions /\ r.reward = j.reward
  BY <1>1 DEF Produced
<1>6. j.decisions # None => r.unit = j.decisions[1].unit
  BY <1>1 DEF Produced
<1>. QED BY <1>1, <1>3, <1>4, <1>5, <1>6

\* Nothing is left open in a directory that the producer takes.
LEMMA NothingIsOpen ==
  ASSUME NEW j \in JobDirectory, NEW r, Honest(j, r)
  PROVE  /\ ~Undecided(j)
         /\ \A v \in Snapshots(j) : j.log[v + 1].status # "none"
<1>1. /\ DOMAIN j.log = 1 .. Len(j.log) /\ Len(j.log) \in Nat /\ Snapshots(j) = 0 .. (Len(j.log) - 1)
      /\ \A v \in Snapshots(j) : BlockOf(j.log, v) = j.log[v + 1]
  BY SnapshotsAreInOrder DEF Honest
<1>2. \A v \in Snapshots(j) : j.log[v + 1].status # "none"
  BY <1>1 DEF Honest, ProducerRefuses, VersionRefused
<1>3. ASSUME NEW i \in DOMAIN j.log PROVE j.log[i].status # "none"
  <2>1. i - 1 \in Snapshots(j) /\ (i - 1) + 1 = i
    BY <1>1
  <2>. QED BY <1>2, <2>1
<1>. QED BY <1>2, <1>3 DEF Undecided

\* What the record says of a version.
LEMMA VersionTells ==
  ASSUME NEW j \in JobDirectory, NEW r, Honest(j, r), NEW v \in Snapshots(j)
  PROVE  /\ r.versions[v].ordinal = v + 1 /\ r.versions[v].line = v + 1
         /\ r.versions[v].parents = Recorded(j, v) /\ r.versions[v].unsnapshotted = {}
         /\ r.versions[v].status = StatusIn(j, v) /\ r.versions[v].score = j.log[v + 1].score
         /\ r.versions[v].tree = j.versions[v] /\ r.versions[v].method = MethodView(j.versions[v])
         /\ EntriesIn(r, v) = IF j.decisions = None THEN <<>> ELSE EntriesOf(j.decisions, v)
         /\ BlockOf(j.log, v) = j.log[v + 1] /\ v \in Nat /\ v \in Version /\ v + 1 \in DOMAIN j.log
<1>1. r.versions[v] = VersionIn(j, v)
  BY RecordTells
<1>2. /\ LineOf(j.log, v) = v + 1 /\ BlockOf(j.log, v) = j.log[v + 1]
      /\ v \in Nat /\ v \in Version /\ v + 1 \in DOMAIN j.log
  BY SnapshotsAreInOrder DEF Honest
<1>3. Ordinal(j.log, v) = v + 1 /\ Unsnapshotted(j, v) = {}
  BY OrdinalIsTheNext, ParentsAreSnapshots DEF Honest
<1>. QED BY <1>1, <1>2, <1>3 DEF VersionIn, EntriesIn, FullView

\* What the entries of the record are.
LEMMA EntriesTell ==
  ASSUME NEW j \in JobDirectory, NEW r, Honest(j, r)
  PROVE  /\ j.decisions = None => AllEntries(r) = {}
         /\ j.decisions # None =>
              /\ j.decisions \in Seq(Line) /\ Converts(j.decisions)
              /\ AllEntries(r) = {Entry(j.decisions, i) : i \in DOMAIN j.decisions}
              /\ \A v \in Snapshots(j) :
                   /\ EntriesIn(r, v) = EntriesOf(j.decisions, v)
                   /\ EntriesIn(r, v) = <<>> <=> LinesOf(j.decisions, v) = {}
<1>1. /\ RecordedVersions(r) = Snapshots(j)
      /\ \A v \in Snapshots(j) : EntriesIn(r, v) = IF j.decisions = None THEN <<>> ELSE EntriesOf(j.decisions, v)
  BY RecordTells, VersionTells
<1>2. \A e : e \in AllEntries(r) <=> \E v \in Snapshots(j) : \E k \in DOMAIN EntriesIn(r, v) : e = EntriesIn(r, v)[k]
  BY <1>1 DEF AllEntries, ToSet, EntriesIn
<1>3. CASE j.decisions = None
  BY <1>1, <1>2, <1>3
<1>4. CASE j.decisions # None
  <2>1. PICK D : D = j.decisions
    OBVIOUS
  <2>2. D \in Seq(Line) /\ Converts(D)
    BY <1>4, <2>1, RolloutConverts DEF Honest, JobDirectory, Optional
  <2>3. \A v \in Snapshots(j) : EntriesIn(r, v) = EntriesOf(D, v)
    BY <1>1, <1>4, <2>1
  <2>4. \A i \in DOMAIN D : D[i].version \in Snapshots(j)
    BY <1>4, <2>1, LineSays DEF Honest
  <2>5. ASSUME NEW v \in Snapshots(j), NEW E, E = EntriesIn(r, v)
        PROVE  /\ E = <<>> <=> LinesOf(D, v) = {}
               /\ \A k \in DOMAIN E : \E i \in DOMAIN D : E[k] = Entry(D, i)
               /\ \A i \in LinesOf(D, v) : \E k \in DOMAIN E : E[k] = Entry(D, i)
    <3>1. /\ E \in Seq(EntryType) /\ DOMAIN E = 1 .. Len(E) /\ Len(E) \in Nat
          /\ \A k \in DOMAIN E : E[k].line \in LinesOf(D, v) /\ E[k] = Entry(D, E[k].line)
          /\ \A i \in LinesOf(D, v) : \E k \in DOMAIN E : E[k] = Entry(D, i) /\ E[k].line = i
          /\ \A i \in LinesOf(D, v) : i \in DOMAIN D
      BY <2>2, <2>3, <2>5, EntryLines
    <3>2. E = <<>> <=> DOMAIN E = {}
      BY <3>1, NonemptyHasFirst
    <3>. QED BY <3>1, <3>2
  <2>6. AllEntries(r) = {Entry(D, i) : i \in DOMAIN D}
    <3>1. ASSUME NEW e \in AllEntries(r) PROVE \E i \in DOMAIN D : e = Entry(D, i)
      BY <1>2, <2>5
    <3>2. ASSUME NEW i \in DOMAIN D PROVE Entry(D, i) \in AllEntries(r)
      <4>1. i \in LinesOf(D, D[i].version)
        BY DEF LinesOf
      <4>. QED BY <1>2, <2>4, <2>5, <4>1
    <3>. QED BY <3>1, <3>2
  <2>. QED BY <1>4, <2>1, <2>2, <2>3, <2>5, <2>6
<1>. QED BY <1>3, <1>4

\* The last entry of a version says what its block says.
LEMMA LastEntrySays ==
  ASSUME NEW j \in JobDirectory, NEW r, Honest(j, r), j.decisions # None, NEW v \in Snapshots(j),
         NEW E, E = EntriesIn(r, v), E # <<>>
  PROVE  /\ Last(E) = E[Len(E)] /\ Len(E) \in DOMAIN E
         /\ Last(E).body.disposition \in {"keep", "revert"}
         /\ What(j.log[v + 1]) = Said[Last(E).body.disposition]
         /\ DecidedStatus(E) \in {"kept", "reverted"} /\ DecidedStatus(E) = j.log[v + 1].status
         /\ \A e \in ToSet(E) : (\A f \in ToSet(E) : f.line <= e.line) => e = Last(E)
<1>1. PICK D : D = j.decisions
  OBVIOUS
<1>2. /\ D \in Seq(Line) /\ E = EntriesOf(D, v)
      /\ \A i \in DOMAIN D : InPlace(D, i) /\ D[i] \in Line
                             /\ (EndsIts(D, i) => What(j.log[D[i].version + 1]) = Said[D[i].disposition])
  BY <1>1, EntriesTell, LineSays DEF Honest
<1>3. /\ E \in Seq(EntryType) /\ DOMAIN E = 1 .. Len(E) /\ Len(E) \in Nat
      /\ \A k \in DOMAIN E : E[k].line \in LinesOf(D, v) /\ E[k] = Entry(D, E[k].line)
      /\ \A i \in LinesOf(D, v) : \E k \in DOMAIN E : E[k] = Entry(D, i) /\ E[k].line = i
      /\ \A i, k \in DOMAIN E : i < k => E[i].line < E[k].line
      /\ \A i \in LinesOf(D, v) : i \in DOMAIN D /\ i \in Nat /\ D[i] \in Line /\ D[i].version = v
  BY <1>2, EntryLines
<1>4. Last(E) = E[Len(E)] /\ Len(E) \in DOMAIN E
  <2>1. Len(E) # 0
    BY <1>3
  <2>. QED BY <1>3, <2>1 DEF Last
<1>5. PICK i : i = E[Len(E)].line
  OBVIOUS
<1>6. i \in LinesOf(D, v) /\ E[Len(E)] = Entry(D, i) /\ i \in DOMAIN D /\ i \in Nat /\ D[i].version = v /\ D[i] \in Line
  BY <1>3, <1>4, <1>5
<1>7. EndsIts(D, i)
  <2>. SUFFICES ASSUME i # Len(D), ~Screening(D[i + 1]) PROVE FALSE
    BY DEF EndsIts
  <2>1. i + 1 \in DOMAIN D
    BY <1>2, <1>6
  <2>2. (i + 1) - 1 = i
    BY <1>6
  <2>3. D[i + 1].version = v
    BY <1>2, <1>6, <2>1, <2>2 DEF InPlace
  <2>4. i + 1 \in LinesOf(D, v)
    BY <2>1, <2>3 DEF LinesOf
  <2>5. PICK k \in DOMAIN E : E[k].line = i + 1
    BY <1>3, <2>4
  <2>6. k = Len(E) \/ k < Len(E)
    BY <1>3
  <2>7. E[k].line <= i
    BY <1>3, <1>4, <1>5, <1>6, <2>5, <2>6
  <2>. QED BY <1>6, <2>5, <2>7
<1>8. PICK d : d = D[i].disposition
  OBVIOUS
<1>9. d \in {"keep", "revert", "provisional"} /\ What(j.log[v + 1]) = Said[d]
  BY <1>2, <1>6, <1>7, <1>8 DEF Line
<1>10. Last(E).body.disposition = d
  BY <1>4, <1>6, <1>8, BodySays DEF Entry
<1>11. PICK block : block = j.log[v + 1]
  OBVIOUS
<1>12. block.status # "none" /\ What(block) = Said[d]
  BY <1>9, <1>11, NothingIsOpen
<1>13. d # "provisional" /\ (block.status = "kept" <=> d = "keep")
  BY <1>9, <1>12, DispositionSaid
<1>14. block.status = (IF d = "keep" THEN "kept" ELSE "reverted")
  <2>1. What(block)[1] = block.status
    BY DEF What
  <2>. QED BY <1>9, <1>12, <1>13, <2>1 DEF Said
<1>15. DecidedStatus(E) = block.status
  BY <1>9, <1>10, <1>13, <1>14 DEF DecidedStatus, StatusOf
<1>16. ASSUME NEW e \in ToSet(E), \A f \in ToSet(E) : f.line <= e.line PROVE e = Last(E)
  <2>1. PICK k \in DOMAIN E : e = E[k]
    BY DEF ToSet
  <2>2. E[Len(E)].line <= E[k].line
    BY <1>4, <1>16, <2>1 DEF ToSet
  <2>3. k < Len(E) => E[k].line < E[Len(E)].line
    BY <1>3, <1>4
  <2>4. E[k].line \in Nat /\ E[Len(E)].line \in Nat
    BY <1>3, <1>4
  <2>5. k = Len(E)
    BY <1>3, <2>2, <2>3, <2>4
  <2>. QED BY <1>4, <2>1, <2>5
<1>. QED BY <1>4, <1>9, <1>10, <1>11, <1>13, <1>14, <1>15, <1>16

\* The class of main/, in its order; its first is the submission.
LEMMA ClassTells ==
  ASSUME NEW j \in JobDirectory, NEW r, Honest(j, r), NEW class, class = MainClass(j)
  PROVE  /\ class # <<>> /\ class \in Seq(Matches(j)) /\ Head(class) \in Matches(j) /\ Len(class) \in Nat \ {0}
         /\ ToSet(class) = Matches(j) /\ Cardinality(ToSet(class)) = Len(class)
         /\ Matches(j) \subseteq Snapshots(j)
         /\ Len(class) = 1 => Matches(j) = {Head(class)}
<1>1. /\ Matches(j) \in SUBSET DeclaredIn(j.log) /\ Matches(j) # {} /\ j.log \in Seq(Block)
  BY SnapshotsAreDeclared DEF Honest
<1>2. /\ Cardinality(Matches(j)) \in Nat
      /\ class \in [1 .. Cardinality(Matches(j)) -> Matches(j)]
      /\ \A v \in Matches(j) : \E k \in 1 .. Cardinality(Matches(j)) : class[k] = v
      /\ class \in Seq(Matches(j)) /\ Len(class) = Cardinality(Matches(j))
  BY ZenonT(60), <1>1, ByOrdinalEnumerates DEF MainClass
<1>3. Cardinality(Matches(j)) # 0
  BY <1>1, <1>2
<1>4. ToSet(class) = Matches(j)
  BY <1>2 DEF ToSet
<1>5. class # <<>> /\ Head(class) = class[1] /\ 1 \in DOMAIN class
  <2>. HIDE DEF Matches
  <2>. QED BY <1>2, <1>3
<1>6. Len(class) = 1 => Matches(j) = {Head(class)}
  BY <1>2, <1>5
<1>7. Matches(j) \subseteq Snapshots(j)
  BY DEF Matches
<1>. QED BY <1>2, <1>3, <1>4, <1>5, <1>6, <1>7

\* Only the first of the class is called submitted.
LEMMA StatusTells ==
  ASSUME NEW j \in JobDirectory, NEW r, Honest(j, r), NEW v \in Snapshots(j)
  PROVE  /\ StatusIn(j, v) = "submitted" <=> v = Head(MainClass(j))
         /\ StatusIn(j, v) \in Statuses
         /\ v # Head(MainClass(j)) => StatusIn(j, v) = j.log[v + 1].status
         /\ EntriesIn(r, v) # <<>> => StatusIn(j, v) \in {"submitted", DecidedStatus(EntriesIn(r, v))}
<1>1. /\ BlockOf(j.log, v) = j.log[v + 1] /\ j.log[v + 1].status # "none"
      /\ EntriesIn(r, v) = IF j.decisions = None THEN <<>> ELSE EntriesOf(j.decisions, v)
  BY VersionTells, NothingIsOpen
<1>2. j.log[v + 1].status \in {"baseline", "kept", "reverted"}
  <2>1. CASE v = 0
    <3>1. BlockFollows(j.log, v)
      BY DEF Honest, SnapshotsFollow
    <3>. QED BY <2>1, <3>1 DEF BlockFollows, What
  <2>2. CASE v # 0
    <3>1. What(j.log[v + 1]) \in Decisions
      BY <2>2, ParentIsASnapshot DEF Honest
    <3>. QED BY <1>1, <3>1 DEF What, Decisions
  <2>. QED BY <2>1, <2>2
<1>3. CASE v = Head(MainClass(j))
  BY <1>3 DEF StatusIn, Statuses
<1>4. CASE v # Head(MainClass(j)) /\ EntriesIn(r, v) # <<>>
  <2>1. j.decisions # None /\ EntriesIn(r, v) = EntriesOf(j.decisions, v)
    BY <1>1, <1>4
  <2>2. PICK E : E = EntriesIn(r, v)
    OBVIOUS
  <2>3. DecidedStatus(E) = j.log[v + 1].status
    BY <1>4, <2>1, <2>2, LastEntrySays
  <2>4. StatusIn(j, v) = DecidedStatus(E)
    BY <1>4, <2>1, <2>2 DEF StatusIn
  <2>. QED BY <1>2, <1>4, <2>2, <2>3, <2>4 DEF Statuses
<1>5. CASE v # Head(MainClass(j)) /\ EntriesIn(r, v) = <<>>
  <2>1. StatusIn(j, v) = j.log[v + 1].status
    BY <1>1, <1>5 DEF StatusIn
  <2>. QED BY <1>2, <1>5, <2>1 DEF Statuses
<1>. QED BY <1>3, <1>4, <1>5

\* What the producer writes of a rollout has the fields of the schema.
LEMMA HonestIsWellFormed ==
  ASSUME NEW j \in JobDirectory, NEW r, Honest(j, r)
  PROVE  WellFormed(r)
<1>1. /\ r \in RecordType /\ RecordedVersions(r) = Snapshots(j)
      /\ r.final.class = MainClass(j) /\ r.reward = j.reward
  BY RecordTells
<1>2. /\ r.final.class # <<>> /\ Cardinality(ToSet(r.final.class)) = Len(r.final.class)
      /\ Matches(j) # {} /\ Matches(j) \subseteq Snapshots(j)
  BY <1>1, ClassTells
<1>3. r.reward \in Rewards
  BY <1>1 DEF Honest, SnapshotsFollow, Rewards
<1>4. ASSUME NEW v \in Snapshots(j) PROVE r.versions[v].status \in Statuses \cup {"provisional"}
  BY VersionTells, StatusTells
<1>5. ASSUME NEW v \in Snapshots(j), NEW k \in DOMAIN EntriesIn(r, v) PROVE EntryWellFormed(EntriesIn(r, v)[k])
  <2>1. PICK e : e = EntriesIn(r, v)[k]
    OBVIOUS
  <2>2. e \in AllEntries(r) /\ e \in EntryType
    BY <1>1, <2>1, EntriesAre
  <2>3. j.decisions # None
    BY <2>2, EntriesTell
  <2>4. PICK i \in DOMAIN j.decisions : e = Entry(j.decisions, i)
    BY <2>2, <2>3, EntriesTell
  <2>5. PICK l : l = j.decisions[i]
    OBVIOUS
  <2>6. l \in Line /\ l.sample = 2 /\ i \in Nat /\ i # 0
    <3>1. l \in Line /\ LineRests(j, l) /\ i \in 1 .. Len(j.decisions) /\ Len(j.decisions) \in Nat
      BY <2>3, <2>5, LineSays DEF Honest
    <3>. QED BY <3>1 DEF LineRests
  <2>7. e.body = Body(l) /\ e.line = i
    BY <2>4, <2>5 DEF Entry
  <2>8. e.body.verdict = l.verdict /\ e.body.disposition = l.disposition /\ e.body.sample = l.sample
    <3>1. \A f \in {"verdict", "disposition", "sample"} : Body(l)[f] = l[f]
      BY <2>6 DEF Body, Line
    <3>. QED BY <2>7, <3>1
  <2>9. e.kind \in {"screening", "confirmation"} /\ e.resolves \in Nat
    BY <2>2 DEF EntryType
  <2>10. l.verdict \in {"clears", "below", "inconclusive"} /\ l.disposition \in {"keep", "revert", "provisional"}
    BY <2>6 DEF Line
  <2>. QED BY <2>1, <2>6, <2>7, <2>8, <2>9, <2>10 DEF EntryWellFormed
<1>. QED BY <1>1, <1>2, <1>3, <1>4, <1>5 DEF WellFormed, EntriesIn

\* One root, and every other version after its parent.
LEMMA HonestLineage ==
  ASSUME NEW j \in JobDirectory, NEW r, Honest(j, r)
  PROVE  LineageErrors(r) = {}
<1>. DEFINE V == RecordedVersions(r)
<1>1. V = Snapshots(j) /\ V # {} /\ V = 0 .. (Len(j.log) - 1) /\ Len(j.log) \in Nat
  BY RecordTells, ClassTells, SnapshotsAreInOrder DEF Honest
<1>2. 0 \in V
  BY <1>1
<1>3. ASSUME NEW v \in V
      PROVE  /\ v \in Nat /\ r.versions[v].ordinal = v + 1 /\ r.versions[v].unsnapshotted = {}
             /\ v = 0 => r.versions[v].parents = {}
             /\ v # 0 => \E p \in V : r.versions[v].parents = {p} /\ p < v
  <2>0. v \in Snapshots(j)
    BY <1>1
  <2>1. /\ v \in Nat /\ r.versions[v].ordinal = v + 1 /\ r.versions[v].unsnapshotted = {}
        /\ r.versions[v].parents = Recorded(j, v)
    BY <2>0, VersionTells
  <2>2. /\ v = 0 => Recorded(j, v) = {}
        /\ v # 0 => \E p \in Snapshots(j) : Recorded(j, v) = {p} /\ p \in 0 .. (v - 1)
    BY <2>0, ParentsAreSnapshots DEF Honest
  <2>3. PICK parents : parents = r.versions[v].parents
    OBVIOUS
  <2>4. v = 0 => parents = {}
    BY <2>1, <2>2, <2>3
  <2>5. ASSUME v # 0 PROVE \E p \in V : parents = {p} /\ p < v
    <3>1. PICK p \in Snapshots(j) : Recorded(j, v) = {p} /\ p \in 0 .. (v - 1)
      BY <2>2, <2>5
    <3>2. p < v /\ parents = {p}
      BY <2>1, <2>3, <3>1
    <3>. QED BY <1>1, <3>2
  <2>. HIDE DEF V
  <2>. QED BY <2>1, <2>3, <2>4, <2>5
<1>. HIDE DEF V
<1>4. {v \in V : r.versions[v].parents = {}} = {0}
  BY <1>2, <1>3
<1>5. Cardinality({v \in V : r.versions[v].parents = {}}) = 1
  BY <1>4, FS_Singleton
<1>6. ASSUME NEW v \in V
      PROVE  LET parents == r.versions[v].parents IN
             /\ ~(\E w \in V \ {v} : r.versions[w].ordinal = r.versions[v].ordinal)
             /\ parents \subseteq V
             /\ ~(\E p \in parents \cap V : r.versions[p].ordinal >= r.versions[v].ordinal)
             /\ r.versions[v].unsnapshotted \cap (V \cup parents) = {}
  <2>1. ~(\E w \in V \ {v} : r.versions[w].ordinal = r.versions[v].ordinal)
    BY <1>3
  <2>2. CASE v = 0
    BY <1>3, <2>1, <2>2
  <2>3. CASE v # 0
    <3>1. PICK p \in V : r.versions[v].parents = {p} /\ p < v
      BY <1>3, <2>3
    <3>2. r.versions[p].ordinal < r.versions[v].ordinal /\ r.versions[p].ordinal \in Nat /\ r.versions[v].ordinal \in Nat
      BY <1>3, <3>1
    <3>. QED BY <1>3, <2>1, <3>1, <3>2
  <2>. QED BY <2>2, <2>3
<1>. QED BY <1>5, <1>6 DEF LineageErrors, V, If

\* The submission is the first of the versions that main/ is.
LEMMA HonestSubmission ==
  ASSUME NEW j \in JobDirectory, NEW r, Honest(j, r)
  PROVE  SubmissionErrors(r) = {}
<1>. DEFINE h == Head(MainClass(j))
            submitted == {v \in RecordedVersions(r) : r.versions[v].status = "submitted"}
<1>1. /\ RecordedVersions(r) = Snapshots(j) /\ r.final.class = MainClass(j) /\ r.final.version = h
      /\ r.final.method = MethodView(j.main)
  BY RecordTells
<1>2. h \in Matches(j) /\ Matches(j) \subseteq Snapshots(j)
  BY ClassTells
<1>3. \A v \in Snapshots(j) : /\ r.versions[v].status = "submitted" <=> v = h
                              /\ r.versions[v].method = MethodView(j.versions[v])
                              /\ r.versions[v].ordinal = v + 1 /\ Ordinal(j.log, v) = v + 1
  BY VersionTells, StatusTells, OrdinalIsTheNext DEF Honest
<1>4. submitted = {h}
  BY <1>1, <1>2, <1>3
<1>5. r.versions[h].method = r.final.method
  BY <1>1, <1>2, <1>3 DEF Matches
<1>6. RecordClass(r) = r.final.class
  <2>1. {v \in RecordedVersions(r) : r.versions[v].method = r.final.method} = Matches(j)
    BY <1>1, <1>3 DEF Matches
  <2>2. [v \in Matches(j) |-> r.versions[v].ordinal] = [v \in Matches(j) |-> Ordinal(j.log, v)]
    BY <1>2, <1>3
  <2>3. RecordClass(r) = InOrder(Matches(j), [v \in Matches(j) |-> r.versions[v].ordinal])
    BY <2>1 DEF RecordClass
  <2>. QED BY <1>1, <2>2, <2>3 DEF MainClass, ByOrdinal
<1>7. Cardinality(submitted) = 1
  BY <1>4, FS_Singleton
<1>. QED BY <1>1, <1>4, <1>5, <1>6, <1>7 DEF SubmissionErrors, If

\* The body of an entry is the line, but for its number and its unit.
LEMMA BodyCarries ==
  ASSUME NEW l \in Line
  PROVE  /\ Body(l).version = l.version /\ Body(l).verdict = l.verdict /\ Body(l).disposition = l.disposition
         /\ Body(l).estimate = l.estimate /\ Body(l).sample = l.sample /\ Body(l).plan = l.plan
         /\ Body(l).profile = l.profile /\ Body(l).suite = l.suite /\ Body(l).parentTree = l.parentTree
         /\ Body(l).tree = l.tree /\ Body(l).evidence = l.evidence
         /\ (Gated(Body(l)) <=> Gated(l))
<1>1. DOMAIN l = {"num", "unit", "version", "parent", "replicates", "estimate", "verdict", "disposition", "sample",
                  "profile", "plan", "suite", "look", "parentTree", "tree", "evidence"}
  BY DEF Line
<1>2. \A f \in {"version", "verdict", "disposition", "estimate", "sample", "plan", "profile", "suite", "parentTree",
                "tree", "evidence"} : Body(l)[f] = l[f]
  BY <1>1 DEF Body
<1>. QED BY <1>2, BodySays

\* No confirmation is smaller than what its screening planned.
LEMMA HonestRules ==
  ASSUME NEW j \in JobDirectory, NEW r, Honest(j, r), j.decisions # None
  PROVE  RuleErrors(AllEntries(r)) = {}
<1>1. PICK D : D = j.decisions
  OBVIOUS
<1>2. PICK all : all = {Entry(D, i) : i \in DOMAIN D}
  OBVIOUS
<1>3. D \in Seq(Line) /\ Converts(D) /\ AllEntries(r) = all
  BY <1>1, <1>2, EntriesTell
<1>4. ASSUME NEW e \in all
      PROVE  /\ e.body.sample = 2
             /\ e.body.plan # None => e.body.plan.size \in {1, 2}
  <2>1. PICK i \in DOMAIN D : e = Entry(D, i)
    BY <1>2
  <2>2. PICK l : l = D[i]
    OBVIOUS
  <2>3. l \in Line /\ l.sample = 2 /\ PlanFits(l)
    <3>1. l \in Line /\ LineRests(j, l)
      BY <1>1, <2>2, LineSays DEF Honest
    <3>2. PlanFits(l)
      BY <1>1, <2>2, LinePlans DEF Honest
    <3>. QED BY <3>1, <3>2 DEF LineRests
  <2>4. l.plan # None => l.plan.size \in {1, 2}
    <3>1. \A p \in Plans : p.size \in {1, 2}
      BY DEF Plans
    <3>. QED BY <2>3, <3>1 DEF PlanFits
  <2>5. e.body = Body(l)
    BY <2>1, <2>2 DEF Entry
  <2>6. e.body.sample = l.sample /\ e.body.plan = l.plan
    BY <2>3, <2>5, BodyCarries
  <2>. QED BY <2>3, <2>4, <2>6
<1>5. ASSUME NEW e \in all PROVE ~Reduced(all, e)
  <2>. SUFFICES ASSUME NEW f \in all, e.body.sample < (IF f.body.plan # None THEN f.body.plan.size ELSE f.body.sample)
                PROVE  FALSE
    BY DEF Reduced
  <2>1. CASE f.body.plan # None
    <3>1. \A s \in {1, 2} : ~(2 < s)
      OBVIOUS
    <3>. QED BY <1>4, <2>1, <3>1
  <2>2. CASE f.body.plan = None
    BY <1>4, <2>2
  <2>. QED BY <2>1, <2>2
<1>. QED BY <1>2, <1>3, <1>5, ConvertedFollowsTheRules

LEMMA ConsistencyFollows ==
  ASSUME NEW v, NEW E, NEW s, \A k \in DOMAIN E : EntryErrors(v, E, k) = {},
         DecidedStatus(E) \in {"kept", "reverted"}, s \in {"submitted", DecidedStatus(E)}
  PROVE  ConsistencyErrors(v, E, s) = {}
BY DEF ConsistencyErrors, If

\* The entries of each version are consistent with its status.
LEMMA HonestEntries ==
  ASSUME NEW j \in JobDirectory, NEW r, Honest(j, r), NEW v \in DecidedVersions(r)
  PROVE  ConsistencyErrors(v, r.versions[v].decisions, r.versions[v].status) = {}
<1>1. PICK E : E = EntriesIn(r, v)
  OBVIOUS
<1>2. v \in Snapshots(j) /\ E # <<>> /\ E = r.versions[v].decisions
  BY <1>1, RecordTells DEF DecidedVersions, EntriesIn
<1>3. j.decisions # None
  <2>1. v \in Snapshots(j)
    BY <1>2
  <2>2. EntriesIn(r, v) = IF j.decisions = None THEN <<>> ELSE EntriesOf(j.decisions, v)
    BY <2>1, VersionTells
  <2>. QED BY <1>1, <1>2, <2>2
<1>4. PICK D : D = j.decisions
  OBVIOUS
<1>5. D \in Seq(Line) /\ Converts(D) /\ E = EntriesOf(D, v)
  BY <1>1, <1>2, <1>3, <1>4, EntriesTell
<1>6. \A k \in DOMAIN E : EntryErrors(v, E, k) = {}
  BY <1>5, ConvertedIsConsistent
<1>7. DecidedStatus(E) \in {"kept", "reverted"}
  BY <1>1, <1>2, <1>3, LastEntrySays
<1>8. r.versions[v].status \in {"submitted", DecidedStatus(E)}
  <2>1. v \in Snapshots(j)
    BY <1>2
  <2>2. r.versions[v].status = StatusIn(j, v)
    BY <2>1, VersionTells
  <2>3. EntriesIn(r, v) # <<>>
    BY <1>1, <1>2
  <2>4. StatusIn(j, v) \in {"submitted", DecidedStatus(EntriesIn(r, v))}
    BY <2>1, <2>3, StatusTells
  <2>. QED BY <1>1, <2>2, <2>4
<1>9. PICK s : s = r.versions[v].status
  OBVIOUS
<1>10. ConsistencyErrors(v, E, s) = {}
  BY ONLY <1>2, <1>6, <1>7, <1>8, <1>9, ConsistencyFollows
<1>. QED BY <1>2, <1>9, <1>10

\* A conduct error is one of two, and there is none if the class is one version.
LEMMA HonestConduct ==
  ASSUME NEW j \in JobDirectory, NEW r, Honest(j, r), j.decisions # None
  PROVE  /\ ConductErrors(r) \subseteq BlamedOnTheClass
         /\ Len(r.final.class) = 1 => ConductErrors(r) = {}
<1>. DEFINE missing(v) == /\ r.versions[v].decisions = <<>>
                          /\ r.versions[v].parents # {} /\ r.versions[v].status \in {"kept", "submitted"}
            against(v) == /\ r.versions[v].decisions # <<>> /\ r.versions[v].status = "submitted"
                          /\ \E e \in ToSet(r.versions[v].decisions) :
                               /\ e.body.disposition = "revert"
                               /\ \A f \in ToSet(r.versions[v].decisions) : f.line <= e.line
            found(v) == If(missing(v), "decision:missing_for_kept_version")
                        \cup If(against(v), "protocol:kept_against_verdict")
<1>1. ConductErrors(r) = UNION {found(v) : v \in RecordedVersions(r)}
  BY DEF ConductErrors
<1>2. \A v \in RecordedVersions(r) : found(v) \subseteq BlamedOnTheClass
  BY DEF If, BlamedOnTheClass
<1>3. ASSUME Len(r.final.class) = 1, NEW v \in RecordedVersions(r) PROVE ~missing(v) /\ ~against(v)
  <2>1. v \in Snapshots(j) /\ r.final.class = MainClass(j)
    BY RecordTells
  <2>2. PICK h : h = Head(MainClass(j))
    OBVIOUS
  <2>3. h \in Standing(j)
    <3>1. Matches(j) = {h}
      BY <1>3, <2>1, <2>2, ClassTells
    <3>. QED BY <3>1, MainIsAVersion DEF Honest
  <2>4. /\ r.versions[v].status = StatusIn(j, v) /\ r.versions[v].parents = Recorded(j, v)
        /\ v = 0 => Recorded(j, v) = {}
        /\ BlockOf(j.log, v) = j.log[v + 1]
    BY <2>1, VersionTells, ParentsAreSnapshots DEF Honest
  <2>5. /\ StatusIn(j, v) = "submitted" <=> v = h
        /\ v # h => StatusIn(j, v) = j.log[v + 1].status
    BY <2>1, <2>2, StatusTells
  <2>6. v = h => j.log[v + 1].status \in {"baseline", "kept"}
    BY <2>3, <2>4 DEF Standing
  <2>7. v # 0 => j.log[v + 1].status # "baseline"
    <3>1. v # 0 => What(j.log[v + 1]) \in Decisions
      BY <2>1, ParentIsASnapshot DEF Honest
    <3>. QED BY <3>1 DEF What, Decisions
  <2>8. PICK E : E = EntriesIn(r, v)
    OBVIOUS
  <2>9. E = r.versions[v].decisions
    BY <2>8 DEF EntriesIn
  <2>10. ASSUME j.log[v + 1].status = "kept" PROVE E # <<>>
    <3>1. mode # "none"
      BY DEF Honest, DecisionsFollow
    <3>2. Decided(j, v)
      BY <2>1, <2>10, <3>1 DEF Honest, DecisionsFollow
    <3>3. LinesOf(j.decisions, v) # {}
      BY <3>2 DEF Decided, LinesOf
    <3>. QED BY <2>1, <2>8, <3>3, EntriesTell
  <2>11. ~missing(v)
    <3>. SUFFICES ASSUME missing(v) PROVE FALSE
      OBVIOUS
    <3>1. E = <<>> /\ v # 0 /\ StatusIn(j, v) \in {"kept", "submitted"}
      BY <2>4, <2>9
    <3>2. j.log[v + 1].status = "kept"
      BY <2>5, <2>6, <2>7, <3>1
    <3>. QED BY <2>10, <3>1, <3>2
  <2>12. ~against(v)
    <3>. SUFFICES ASSUME against(v) PROVE FALSE
      OBVIOUS
    <3>1. E # <<>> /\ v = h
      BY <2>4, <2>5, <2>9
    <3>2. PICK e \in ToSet(E) : e.body.disposition = "revert" /\ \A f \in ToSet(E) : f.line <= e.line
      BY <2>9
    <3>3. e = Last(E) /\ What(j.log[v + 1]) = Said[Last(E).body.disposition]
      BY <2>1, <2>8, <3>1, <3>2, LastEntrySays
    <3>4. What(j.log[v + 1]) = <<"reverted", "revert">>
      BY <3>2, <3>3 DEF Said
    <3>. QED BY <2>6, <3>1, <3>4 DEF What
  <2>. QED BY <2>11, <2>12
<1>. HIDE DEF missing, against
<1>4. Len(r.final.class) = 1 => \A v \in RecordedVersions(r) : found(v) = {}
  BY <1>3 DEF If
<1>. HIDE DEF found
<1>. QED BY <1>1, <1>2, <1>4

LEMMA HonestDecisions ==
  ASSUME NEW j \in JobDirectory, NEW r, Honest(j, r)
  PROVE  /\ DecisionErrors(r) \subseteq BlamedOnTheClass
         /\ Len(r.final.class) = 1 => DecisionErrors(r) = {}
<1>1. CASE AllEntries(r) = {}
  BY <1>1 DEF DecisionErrors
<1>2. CASE AllEntries(r) # {}
  <2>1. j.decisions # None
    BY <1>2, EntriesTell
  <2>2. RecordedVersions(r) = Snapshots(j) /\ r.decisionLog # None /\ r.unit = j.decisions[1].unit
    BY <2>1, RecordTells
  <2>3. r.unit # None
    <3>1. j.decisions \in Seq(Line) /\ Converts(j.decisions)
      BY <2>1, EntriesTell
    <3>2. 1 \in DOMAIN j.decisions
      BY <3>1 DEF Converts
    <3>3. j.decisions[1] \in Line
      BY <3>1, <3>2
    <3>4. j.decisions[1].unit \in {"unit", "other"}
      BY <3>3 DEF Line
    <3>. QED BY <2>2, <3>4, NoneIsApart
  <2>4. ~(\E v, w \in DecidedVersions(r) : v # w /\ \E e \in ToSet(r.versions[v].decisions),
            f \in ToSet(r.versions[w].decisions) : e.line = f.line)
    <3>1. ASSUME NEW v \in DecidedVersions(r), NEW e \in ToSet(r.versions[v].decisions)
          PROVE  e.line \in LinesOf(j.decisions, v)
      <4>1. PICK E : E = EntriesIn(r, v)
        OBVIOUS
      <4>2. v \in Snapshots(j) /\ E = r.versions[v].decisions
        BY <2>2, <4>1 DEF DecidedVersions, EntriesIn
      <4>3. j.decisions \in Seq(Line) /\ E = EntriesOf(j.decisions, v)
        BY <2>1, <4>1, <4>2, EntriesTell
      <4>4. PICK k \in DOMAIN E : e = E[k]
        BY <4>2 DEF ToSet
      <4>. QED BY <4>3, <4>4, EntryLines
    <3>. QED BY <3>1 DEF LinesOf
  <2>5. UNION {ConsistencyErrors(v, r.versions[v].decisions, r.versions[v].status) : v \in DecidedVersions(r)} = {}
    BY HonestEntries
  <2>6. RuleErrors(AllEntries(r)) = {}
    BY <2>1, HonestRules
  <2>7. DecisionErrors(r) = ConductErrors(r)
    BY <1>2, <2>2, <2>3, <2>4, <2>5, <2>6, <2>1, Zenon DEF DecisionErrors, If
  <2>. QED BY <2>1, <2>7, HonestConduct
<1>. QED BY <1>1, <1>2

\* A reference that names what is there, and a receipt that fits, is not
\* complained of.
LEMMA ReferenceHolds ==
  ASSUME NEW e, NEW role, NEW on, NEW ref, ref = e.body.evidence[role],
         NEW tree, tree = (IF role = "parent" THEN e.body.parentTree ELSE e.body.tree),
         NEW policy, NEW suite, NEW score, on # None, Receipted(on, policy, suite, score),
         ref.result = on.result,
         Gated(e.body) => /\ ref.receipt = on.receipt /\ tree = policy /\ e.body.profile = "profile"
                          /\ e.kind = "confirmation" => e.body.suite = suite,
         ~Gated(e.body) => ref.receipt = None
  PROVE  ReceiptErrors(e, role, on) = {} /\ EvidenceErrors(e, role, on) = {}
<1>1. PICK rc : rc = on.receipt
  OBVIOUS
<1>2. rc # None /\ rc.result = on.result /\ rc.profile = "profile" /\ rc.of = policy /\ rc.suite = suite
  BY <1>1 DEF Receipted
<1>3. CASE Gated(e.body)
  <2>1. ref.receipt = rc /\ tree = policy /\ e.body.profile = "profile" /\ (e.kind = "confirmation" => e.body.suite = suite)
    BY <1>1, <1>3
  <2>2. ReceiptErrors(e, role, on) = {}
    BY <1>1, <1>2, <2>1 DEF ReceiptErrors, If
  <2>3. EvidenceErrors(e, role, on) = {}
    BY <1>1, <1>2, <2>1 DEF EvidenceErrors, If
  <2>. QED BY <2>2, <2>3
<1>4. CASE ~Gated(e.body)
  <2>1. ref.receipt = None
    BY <1>4
  <2>2. ReceiptErrors(e, role, on) = {}
    BY <1>4, <2>1 DEF ReceiptErrors, If
  <2>3. EvidenceErrors(e, role, on) = {}
    BY <2>1 DEF EvidenceErrors, If
  <2>. QED BY <2>2, <2>3
<1>. QED BY <1>3, <1>4

\* What the entry of a line names of a result, and what is there.
EntryHolds(j, e, l, role, on) ==
  /\ e.body = Body(l)
  /\ on # None /\ on.result = e.body.evidence[role].result
  /\ ReceiptErrors(e, role, on) = {} /\ EvidenceErrors(e, role, on) = {}
  /\ Screening(l) => on.result.score = j.log[(IF role = "parent" THEN l.parent ELSE l.version) + 1].score
LEMMA EntryRests ==
  ASSUME NEW j \in JobDirectory, SnapshotsFollow(j), DecisionsFollow(j), j.decisions # None,
         NEW i \in DOMAIN j.decisions, NEW e, e = Entry(j.decisions, i), NEW role \in RoleSet,
         NEW l, l = j.decisions[i], NEW on, on = j.results[e.body.evidence[role].at]
  PROVE  EntryHolds(j, e, l, role, on)
<1>1. l \in Line /\ LineRests(j, l)
  BY LineSays
<1>2. Gated(l) <=> mode = "gated"
  BY LineHasItsShape
<1>3. e.body = Body(l) /\ (e.kind = "confirmation" <=> ~Screening(l))
  BY DEF Entry
<1>4. /\ e.body.profile = l.profile /\ e.body.suite = l.suite /\ e.body.parentTree = l.parentTree
      /\ e.body.tree = l.tree /\ e.body.evidence = l.evidence /\ (Gated(e.body) <=> Gated(l))
  BY <1>1, <1>3, BodyCarries
<1>5. PICK at : at = MeasuredAt(l)[role]
  OBVIOUS
<1>6. PICK ref : ref = e.body.evidence[role]
  OBVIOUS
<1>7. ref = [at |-> at, result |-> j.results[at].result, receipt |-> IF mode = "gated" THEN j.results[at].receipt ELSE None]
  <2>1. l.evidence = EvidenceAt(j.results, MeasuredAt(l), mode = "gated")
    BY <1>1 DEF LineRests
  <2>2. l.evidence = [rr \in RoleSet |-> [at |-> MeasuredAt(l)[rr], result |-> j.results[MeasuredAt(l)[rr]].result,
                                         receipt |-> IF mode = "gated" THEN j.results[MeasuredAt(l)[rr]].receipt ELSE None]]
    BY ONLY <2>1, Zenon DEF EvidenceAt
  <2>3. ref = l.evidence[role]
    BY SMTT(45), <1>4, <1>6
  <2>4. l.evidence[role] = [at |-> MeasuredAt(l)[role], result |-> j.results[MeasuredAt(l)[role]].result,
                            receipt |-> IF mode = "gated" THEN j.results[MeasuredAt(l)[role]].receipt ELSE None]
    BY <2>2
  <2>. QED BY ONLY <1>5, <2>3, <2>4
<1>8. ref.at = at /\ on = j.results[at] /\ ref.result = on.result /\ ref.receipt = IF mode = "gated" THEN on.receipt ELSE None
  BY <1>6, <1>7
<1>9. PICK w : w = (IF role = "parent" THEN l.parent ELSE l.version)
  OBVIOUS
<1>10. PICK policy : policy = MethodView(j.versions[w])
  BY SMTT(45)
<1>11. /\ on # None
       /\ \E suite, score :
            /\ Receipted(on, policy, suite, score)
            /\ ~Screening(l) => suite = (IF Gated(l) THEN l.suite ELSE SuiteNo(1))
            /\ Screening(l) => score = j.log[w + 1].score
  <2>1. on = j.results[MeasuredAt(l)[role]]
    BY <1>5, <1>8
  <2>2. /\ on # None
        /\ \E suite, score :
             /\ Receipted(on, MethodView(j.versions[w]), suite, score)
             /\ ~Screening(l) => suite = (IF Gated(l) THEN l.suite ELSE SuiteNo(1))
             /\ Screening(l) => score = j.log[w + 1].score
    BY SMTT(45), <1>9, <2>1, ResultsHaveReceipts
  <2>. QED BY ZenonT(60), <1>10, <2>2
<1>12. PICK suite, score :
         /\ Receipted(on, policy, suite, score)
         /\ ~Screening(l) => suite = (IF Gated(l) THEN l.suite ELSE SuiteNo(1))
         /\ Screening(l) => score = j.log[w + 1].score
  BY ZenonT(60), <1>11
<1>13. PICK tree : tree = (IF role = "parent" THEN e.body.parentTree ELSE e.body.tree)
  BY SMTT(45)
<1>14. Gated(e.body) => /\ ref.receipt = on.receipt /\ tree = policy /\ e.body.profile = "profile"
                        /\ e.kind = "confirmation" => e.body.suite = suite
  <2>. SUFFICES ASSUME Gated(e.body)
                PROVE  /\ ref.receipt = on.receipt /\ tree = policy /\ e.body.profile = "profile"
                       /\ e.kind = "confirmation" => e.body.suite = suite
    OBVIOUS
  <2>1. mode = "gated" /\ Gated(l)
    BY <1>2, <1>4
  <2>2. /\ l.profile = "profile"
        /\ l.parentTree = MethodView(j.versions[l.parent]) /\ l.tree = MethodView(j.versions[l.version])
    BY SMTT(45), <1>1, <2>1 DEF LineRests
  <2>. QED BY ZenonT(60), <1>3, <1>4, <1>8, <1>9, <1>10, <1>12, <1>13, <2>1, <2>2
<1>15. ~Gated(e.body) => ref.receipt = None
  BY <1>2, <1>4, <1>8
<1>16. ReceiptErrors(e, role, on) = {} /\ EvidenceErrors(e, role, on) = {}
  BY SMTT(45), <1>6, <1>8, <1>11, <1>12, <1>13, <1>14, <1>15, ReferenceHolds
<1>17. Screening(l) => on.result.score = j.log[w + 1].score
  BY ZenonT(60), <1>12 DEF Receipted
<1>. QED BY <1>3, <1>6, <1>8, <1>9, <1>11, <1>16, <1>17 DEF EntryHolds

LEMMA HonestMeasurement ==
  ASSUME NEW j \in JobDirectory, SnapshotsFollow(j), DecisionsFollow(j), j.decisions # None,
         NEW i \in DOMAIN j.decisions, NEW e, e = Entry(j.decisions, i)
  PROVE  MeasurementErrors(e, j) = {}
<1>1. PICK l : l = j.decisions[i]
  OBVIOUS
<1>. DEFINE on == [role \in RoleSet |-> j.results[e.body.evidence[role].at]]
<1>2. MeasurementErrors(e, j) =
        (UNION {ReceiptErrors(e, role, on[role]) : role \in RoleSet})
        \cup IF UNION {EvidenceErrors(e, role, on[role]) : role \in RoleSet} # {}
             THEN UNION {EvidenceErrors(e, role, on[role]) : role \in RoleSet}
             ELSE Reproduced(e, on["parent"], on["candidate"])
  BY DEF MeasurementErrors
<1>3. ASSUME NEW role \in RoleSet
      PROVE  /\ e.body = Body(l) /\ on[role].result = e.body.evidence[role].result
             /\ ReceiptErrors(e, role, on[role]) = {} /\ EvidenceErrors(e, role, on[role]) = {}
  <2>1. PICK o : o = j.results[e.body.evidence[role].at]
    OBVIOUS
  <2>2. on[role] = o
    BY <2>1
  <2>. HIDE DEF on
  <2>3. /\ e.body = Body(l) /\ o.result = e.body.evidence[role].result
        /\ ReceiptErrors(e, role, o) = {} /\ EvidenceErrors(e, role, o) = {}
    <3>1. EntryHolds(j, e, l, role, o)
      BY <1>1, <2>1, EntryRests
    <3>. QED BY <3>1 DEF EntryHolds
  <2>. QED BY <2>2, <2>3
<1>. HIDE DEF on
<1>4. "parent" \in RoleSet /\ "candidate" \in RoleSet
  BY DEF RoleSet
<1>5. e.body.estimate = e.body.evidence["candidate"].result.score - e.body.evidence["parent"].result.score
  <2>1. l \in Line /\ l.estimate = EstimateOf(l.evidence)
    BY <1>1, LineSays DEF LineRests
  <2>2. e.body = Body(l)
    BY <1>3, <1>4
  <2>3. e.body.estimate = l.estimate /\ e.body.evidence = l.evidence
    BY <2>1, <2>2, BodyCarries
  <2>. QED BY <2>1, <2>3 DEF EstimateOf
<1>6. Reproduced(e, on["parent"], on["candidate"]) = {}
  <2>1. /\ on["parent"].result = e.body.evidence["parent"].result
        /\ on["candidate"].result = e.body.evidence["candidate"].result
    BY <1>3, <1>4
  <2>2. e.body.estimate = on["candidate"].result.score - on["parent"].result.score
    BY <1>5, <2>1
  <2>. QED BY <2>2 DEF Reproduced, If
<1>7. /\ UNION {EvidenceErrors(e, role, on[role]) : role \in RoleSet} = {}
      /\ UNION {ReceiptErrors(e, role, on[role]) : role \in RoleSet} = {}
  BY <1>3
<1>. QED BY <1>2, <1>6, <1>7

LEMMA MatchFollows ==
  ASSUME NEW r, NEW j, NEW D, D = j.decisions, D # <<>>, r.unit = "unit", D[1].unit = "unit",
         \A i \in DOMAIN D : D[i].num = i /\ D[i].unit = "unit",
         \A i \in DOMAIN D : \E e \in AllEntries(r) : e.line = i,
         \A e \in AllEntries(r) : e.line \in DOMAIN D /\ SameDecision(e, D[e.line])
  PROVE  MatchErrors(r, j) = {}
BY DEF MatchErrors, If

LEMMA HonestMatch ==
  ASSUME NEW j \in JobDirectory, NEW r, Honest(j, r)
  PROVE  MatchErrors(r, j) = {}
<1>1. r.decisionLog = j.decisions
  BY RecordTells
<1>2. CASE j.decisions = None
  BY <1>2 DEF MatchErrors
<1>3. CASE j.decisions # None
  <2>1. PICK D : D = j.decisions
    OBVIOUS
  <2>2. D \in Seq(Line) /\ AllEntries(r) = {Entry(D, i) : i \in DOMAIN D} /\ D # <<>> /\ DOMAIN D = 1 .. Len(D)
    BY <1>3, <2>1, EntriesTell DEF Honest, DecisionsFollow
  <2>3. ASSUME NEW i \in DOMAIN D PROVE D[i].num = i /\ D[i].unit = "unit"
    <3>1. InPlace(D, i) /\ LineRests(j, D[i])
      BY <1>3, <2>1, LineSays DEF Honest
    <3>. QED BY <3>1 DEF InPlace, LineRests
  <2>4. 1 \in DOMAIN D
    BY <2>2
  <2>5. r.unit = "unit"
    BY <1>3, <2>1, <2>3, <2>4, RecordTells
  <2>6. \A i \in DOMAIN D : Entry(D, i).line = i /\ Entry(D, i).body = Body(D[i])
    BY DEF Entry
  <2>7. /\ \A i \in DOMAIN D : \E e \in AllEntries(r) : e.line = i
        /\ \A e \in AllEntries(r) : e.line \in DOMAIN D /\ SameDecision(e, D[e.line])
    BY <2>2, <2>6 DEF SameDecision
  <2>8. D[1].unit = "unit"
    BY SMTT(45), <2>3, <2>4
  <2>. QED BY <1>1, <1>3, <2>1, <2>2, <2>3, <2>5, <2>7, <2>8, MatchFollows
<1>. QED BY <1>2, <1>3

\* The score on a block is that of the version's visible result.
LEMMA HonestScores ==
  ASSUME NEW j \in JobDirectory, NEW r, Honest(j, r), NEW v \in Snapshots(j)
  PROVE  ScoreErrors(r, v, j) = {}
<1>1. PICK E : E = EntriesIn(r, v)
  OBVIOUS
<1>2. /\ r.versions[v].line = v + 1 /\ E = r.versions[v].decisions
      /\ E = (IF j.decisions = None THEN <<>> ELSE EntriesOf(j.decisions, v))
  BY SMTT(45), <1>1, VersionTells DEF EntriesIn
<1>3. ASSUME NEW k \in FirstScreening(E)
      PROVE  j.results[E[k].body.evidence["candidate"].at].result.score = j.log[v + 1].score
  <2>1. k \in DOMAIN E /\ E[k].kind = "screening"
    BY <1>3 DEF FirstScreening
  <2>2. j.decisions # None
    BY <1>2, <2>1
  <2>3. PICK D : D = j.decisions
    OBVIOUS
  <2>4. D \in Seq(Line) /\ E = EntriesOf(D, v)
    BY <1>2, <2>2, <2>3, EntriesTell
  <2>5. PICK i \in DOMAIN D : E[k] = Entry(D, i) /\ D[i].version = v
    BY <2>1, <2>4, EntryLines
  <2>6. PICK l : l = D[i]
    OBVIOUS
  <2>7. Screening(l) /\ l.version = v
    BY <2>1, <2>5, <2>6 DEF Entry
  <2>8. "candidate" \in RoleSet
    BY DEF RoleSet
  <2>9. PICK e : e = E[k]
    OBVIOUS
  <2>10. PICK on : on = j.results[e.body.evidence["candidate"].at]
    OBVIOUS
  <2>11. on.result.score = j.log[(IF "candidate" = "parent" THEN l.parent ELSE l.version) + 1].score
    <3>1. i \in DOMAIN j.decisions /\ e = Entry(j.decisions, i) /\ l = j.decisions[i]
      BY <2>3, <2>5, <2>6, <2>9
    <3>2. SnapshotsFollow(j) /\ DecisionsFollow(j)
      BY DEF Honest
    <3>3. EntryHolds(j, e, l, "candidate", on)
      BY <2>2, <2>8, <2>10, <3>1, <3>2, EntryRests
    <3>. QED BY <2>7, <3>3 DEF EntryHolds
  <2>. QED BY <2>7, <2>9, <2>10, <2>11
<1>. QED BY ZenonT(60), <1>2, <1>3 DEF ScoreErrors, If

\* What was done with a version is what was decided of it.
LEMMA HonestActions ==
  ASSUME NEW j \in JobDirectory, NEW r, Honest(j, r), NEW v \in Snapshots(j)
  PROVE  ActionErrors(r, v, j) = {}
<1>1. PICK E : E = EntriesIn(r, v)
  OBVIOUS
<1>2. r.versions[v].line = v + 1 /\ E = r.versions[v].decisions
  BY <1>1, VersionTells DEF EntriesIn
<1>3. CASE E = <<>>
  BY <1>2, <1>3 DEF ActionErrors
<1>4. CASE E # <<>>
  <2>1. j.decisions # None
    <3>1. EntriesIn(r, v) = IF j.decisions = None THEN <<>> ELSE EntriesOf(j.decisions, v)
      BY VersionTells
    <3>. QED BY <1>1, <1>4, <3>1
  <2>2. PICK d : d = Last(E).body.disposition
    OBVIOUS
  <2>3. d \in {"keep", "revert"} /\ What(j.log[v + 1]) = Said[d] /\ DecidedStatus(E) = j.log[v + 1].status
    BY <1>1, <1>4, <2>1, <2>2, LastEntrySays
  <2>4. <<DecidedStatus(E), j.log[v + 1].closing>> \in {<<"kept", "keep">>, <<"reverted", "revert">>}
    BY <2>3 DEF What, Said
  <2>. QED BY <1>2, <2>4 DEF ActionErrors, If
<1>. QED BY <1>3, <1>4

LEMMA HonestArtifacts ==
  ASSUME NEW j \in JobDirectory, NEW r, Honest(j, r), NEW v \in Snapshots(j)
  PROVE  ArtifactErrors(r, v, j) = {}
<1>1. r.versions[v].tree = j.versions[v] /\ r.versions[v].method = MethodView(j.versions[v])
  BY VersionTells
<1>2. j.versions[v] # None
  BY DEF Snapshots
<1>3. Digestible(j.versions[v])
  BY DEF Honest, ProducerRefuses, VersionRefused
<1>. QED BY <1>1, <1>2, <1>3 DEF ArtifactErrors, FullView, If

LEMMA HonestFinal ==
  ASSUME NEW j \in JobDirectory, NEW r, Honest(j, r)
  PROVE  FinalErrors(r, j) = {}
<1>1. j.main # None /\ Digestible(j.main) /\ StageableErrors(j.main) = {}
  BY MainIsAVersion DEF Honest
<1>2. r.final.tree = j.main /\ r.final.method = MethodView(j.main)
  BY RecordTells
<1>. QED BY <1>1, <1>2 DEF FinalErrors, FullView, If

LEMMA HonestLog ==
  ASSUME NEW j \in JobDirectory, NEW r, Honest(j, r)
  PROVE  LogErrors(r, j) = {}
<1>1. r.log = j.log /\ RecordedVersions(r) = Snapshots(j)
  BY RecordTells
<1>2. ASSUME NEW v \in Snapshots(j)
      PROVE  r.versions[v].line \in DOMAIN j.log /\ Mentions(j.log[r.versions[v].line], v)
  <2>1. r.versions[v].line = v + 1
    BY VersionTells
  <2>2. v + 1 \in DOMAIN j.log /\ j.log[v + 1].version = v
    BY SnapshotsAreInOrder DEF Honest
  <2>. QED BY <2>1, <2>2 DEF Mentions
<1>. QED BY <1>1, <1>2 DEF LogErrors, If

\* No check against the directory fails.
LEMMA HonestFiles ==
  ASSUME NEW j \in JobDirectory, NEW r, Honest(j, r)
  PROVE  FileErrors(r, j) = {}
<1>1. /\ RecordedVersions(r) = Snapshots(j) /\ r.decisionLog = j.decisions /\ r.reward = j.reward
  BY RecordTells
<1>2. UNION {MeasurementErrors(e, j) : e \in AllEntries(r)} = {}
  <2>. SUFFICES ASSUME NEW e \in AllEntries(r) PROVE MeasurementErrors(e, j) = {}
    OBVIOUS
  <2>1. j.decisions # None
    BY EntriesTell
  <2>2. PICK i \in DOMAIN j.decisions : e = Entry(j.decisions, i)
    BY <2>1, EntriesTell
  <2>. QED BY <2>1, <2>2, HonestMeasurement DEF Honest
<1>3. UNION {ScoreErrors(r, v, j) \cup ActionErrors(r, v, j) \cup ArtifactErrors(r, v, j) : v \in RecordedVersions(r)} = {}
  BY <1>1, HonestScores, HonestActions, HonestArtifacts
<1>4. ClassErrors(r, j) = {}
  BY <1>1 DEF ClassErrors, If
<1>5. RewardErrors(r, j) = {}
  BY <1>1 DEF RewardErrors, If
<1>6. If(r.decisionLog # None /\ j.decisions # r.decisionLog, "file:decision_log:digest_mismatch") = {}
  BY <1>1 DEF If
<1>7. LogErrors(r, j) = {} /\ MatchErrors(r, j) = {} /\ FinalErrors(r, j) = {}
  BY HonestLog, HonestMatch, HonestFinal
<1>. QED BY <1>2, <1>3, <1>4, <1>5, <1>6, <1>7 DEF FileErrors

\* What the verifier says of it.
LEMMA HonestVerdict ==
  ASSUME NEW j \in JobDirectory, NEW r, Honest(j, r)
  PROVE  /\ Verdict(r, j).complete /\ Verdict(r, j).errors \subseteq BlamedOnTheClass
         /\ Verdict(r, j).errors # {} => Len(r.final.class) > 1
<1>1. WellFormed(r) /\ Complete(r, j)
  BY HonestIsWellFormed, RecordTells DEF Complete
<1>2. Errors(r, j) = DecisionErrors(r)
  BY <1>1, HonestLineage, HonestSubmission, HonestFiles DEF Errors, SemanticErrors
<1>3. Len(r.final.class) \in Nat \ {0}
  BY RecordTells, ClassTells
<1>4. /\ DecisionErrors(r) \subseteq BlamedOnTheClass
      /\ Len(r.final.class) = 1 => DecisionErrors(r) = {}
  BY HonestDecisions
<1>5. Verdict(r, j) = [errors |-> DecisionErrors(r), complete |-> TRUE]
  <2>1. (WellFormed(r) /\ Complete(r, j)) = TRUE
    BY <1>1, Zenon
  <2>2. Verdict(r, j) = [errors |-> Errors(r, j), complete |-> WellFormed(r) /\ Complete(r, j)]
    BY DEF Verdict
  <2>. QED BY ONLY <1>2, <2>1, <2>2, Zenon
<1>6. Verdict(r, j).complete
  <2>1. Verdict(r, j).complete = TRUE
    BY ONLY <1>5
  <2>. QED BY ONLY <2>1, Zenon
<1>7. Verdict(r, j).errors = DecisionErrors(r)
  BY <1>5
<1>8. DecisionErrors(r) # {} => Len(r.final.class) > 1
  <2>1. PICK n : n = Len(r.final.class)
    OBVIOUS
  <2>2. n \in Nat \ {0} /\ (n = 1 => DecisionErrors(r) = {})
    BY ONLY <1>3, <1>4, <2>1
  <2>3. n = 1 \/ n > 1
    BY ONLY <2>2
  <2>. QED BY ONLY <2>1, <2>2, <2>3
<1>9. Verdict(r, j).errors \subseteq BlamedOnTheClass
  BY ONLY <1>4, <1>7
<1>10. Verdict(r, j).errors # {} => Len(r.final.class) > 1
  BY ONLY <1>7, <1>8
<1>. QED BY ONLY <1>6, <1>9, <1>10, Zenon

\* The producer, and then the verifier, take what an honest rollout leaves.
LEMMA VerifiesIfHonest == IInv /\ HonestInv => HonestRolloutsVerify
<1>. SUFFICES ASSUME IInv, HonestInv PROVE HonestRolloutsVerify
  OBVIOUS
<1>1. phase = "refused" /\ altered = 0 => Undecided(job)
  BY DEF HonestInv
<1>2. ASSUME phase = "verified", Untouched
      PROVE  /\ verdict.complete /\ verdict.errors \subseteq BlamedOnTheClass
             /\ verdict.errors # {} => Len(record.final.class) > 1
  <2>1. PICK j : j = job
    OBVIOUS
  <2>2. PICK r : r = record
    OBVIOUS
  <2>3. j \in JobDirectory /\ Honest(j, r)
    BY <1>2, <2>1, <2>2 DEF IInv, TypeOK, HonestInv, Untouched, Honest
  <2>4. verdict = Verdict(r, j)
    BY <1>2, <2>1, <2>2 DEF IInv, VerdictIsOfThese
  <2>. QED BY <2>2, <2>3, <2>4, HonestVerdict
<1>. QED BY <1>1, <1>2 DEF HonestRolloutsVerify

-----------------------------------------------------------------------------
(* The theorems.                                                           *)

\* In every reachable state the job directory, the record and the verdict are
\* of their types, whatever was altered by hand (the directory and the record
\* that src/profile/build_capsule.py and src/profile/verify_capsule.py read).
THEOREM Typed == Spec => []TypeOK
<1>1. IInv => TypeOK
  BY DEF IInv
<1>. QED BY Invariance, <1>1, PTL

\* An untouched record that the verifier accepts and finds complete is the one
\* the producer would write of the directory as it now is, and the results its
\* decisions rest on are what they were (verify_capsule against build_capsule).
THEOREM AcceptedIsRebuilt == Spec => []AcceptedRebuilds
BY Invariance, RebuildsIfAccepted, PTL

\* Whatever an accepted record claims, it carries each line of the log once,
\* under its version, resolving what it resolved, and every line follows from
\* the results on disk by the gate's rule (_check_decision_rules and
\* _check_decisions_match_log against get_verdict and get_disposition).
THEOREM AcceptedFollows == Spec => []AcceptedDecisionsFollow
BY Invariance, FollowIfAccepted, PTL

\* Whatever an accepted record claims, its class is every snapshot it lists
\* that main/ is, and what it submits or calls kept the gate kept, under a
\* profile by a confirmation (_check_semantics, _check_decision_rules).
THEOREM AcceptedStands == Spec => []SubmissionStands
BY Invariance, StandsIfAccepted, PTL

\* The converter takes every log of a rollout that nobody altered; and whatever
\* log it takes, the producer and the verifier read alike, but for a unit that
\* changes and for the size of a confirmation (get_decisions,
\* _check_decision_rules and trace_from_decisions, each with rules of its own).
THEOREM AllReadAlike == Spec => []ReadersAgree
<1>1. IInv /\ HonestInv => ReadersAgree
  BY AgreeIfHonest
<1>. QED BY <1>1, HonestInvariance, PTL

\* What a rollout under the protocol leaves, the producer records unless a
\* decision was left open, and the verifier accepts, whole; only when several
\* versions share main/'s method tree may the first of them be blamed for being
\* handed in (build_capsule, then verify_capsule).
THEOREM HonestIsAccepted == Spec => []HonestRolloutsVerify
BY HonestInvariance, VerifiesIfHonest, PTL
=============================================================================
