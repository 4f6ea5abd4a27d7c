--------------------------- MODULE GroupRunProofs ---------------------------
(***************************************************************************)
(* Proofs about many-to-one runs: that the groups of a set have every file *)
(* once and those of a PDF all that derives from it, and that a run of any *)
(* groups, consumers and deliveries gives each group of a PDF one output   *)
(* and is not done without any.  About the desk that shows them: its name  *)
(* stays its own, and what its page draws fits together.  And about the    *)
(* import that splits a PDF into the pages such runs combine again, for    *)
(* every number of pages, faults and restarts.                             *)
(***************************************************************************)
EXTENDS GroupRun, Desk, PdfImport, JobQueueProofs, Counting, SequenceTheorems

-----------------------------------------------------------------------------
(* The order of a set: Sorted meets every member once.                     *)

\* R puts the members of S in a row.
Orders(R, S) ==
  /\ \A d \in S : <<d, d>> \notin R
  /\ \A d, e \in S : d = e \/ <<d, e>> \in R \/ <<e, d>> \in R
  /\ \A d, e, f \in S : <<d, e>> \in R /\ <<e, f>> \in R => <<d, f>> \in R

\* Members have different ranks, below the size of the set.
LEMMA RankFacts ==
  ASSUME NEW S, IsFiniteSet(S), NEW R, Orders(R, S)
  PROVE  /\ \A e \in S : Rank(S, R, e) \in 0 .. (Cardinality(S) - 1)
         /\ \A d, e \in S : Rank(S, R, d) = Rank(S, R, e) => d = e
<1>1. ASSUME NEW e \in S, NEW T \in SUBSET S, e \in T, {d \in S : <<d, e>> \in R} \subseteq T
      PROVE  Rank(S, R, e) \in Nat /\ Rank(S, R, e) < Cardinality(T)
  <2>1. {d \in S : <<d, e>> \in R} \subseteq T \ {e}
    BY <1>1 DEF Orders
  <2>2. IsFiniteSet(T)
    BY FS_Subset
  <2>3. IsFiniteSet(T \ {e}) /\ Cardinality(T \ {e}) = Cardinality(T) - 1
    BY <1>1, <2>2, FS_RemoveElement
  <2>4. IsFiniteSet({d \in S : <<d, e>> \in R})
        /\ Cardinality({d \in S : <<d, e>> \in R}) <= Cardinality(T \ {e})
    BY <2>1, <2>3, FS_Subset
  <2>5. Cardinality({d \in S : <<d, e>> \in R}) \in Nat /\ Cardinality(T) \in Nat
    BY <2>2, <2>4, FS_CardinalityType
  <2>. QED  BY <2>3, <2>4, <2>5 DEF Rank
<1>2. \A e \in S : Rank(S, R, e) \in 0 .. (Cardinality(S) - 1)
  <2>. TAKE e \in S
  <2>1. Rank(S, R, e) \in Nat /\ Rank(S, R, e) < Cardinality(S)
    <3>1. S \in SUBSET S /\ {d \in S : <<d, e>> \in R} \subseteq S
      OBVIOUS
    <3>. QED  BY <1>1, <3>1
  <2>2. Cardinality(S) \in Nat
    BY FS_CardinalityType
  <2>. QED  BY <2>1, <2>2
<1>3. ASSUME NEW d \in S, NEW e \in S, <<d, e>> \in R
      PROVE  Rank(S, R, d) < Rank(S, R, e)
  <2>. DEFINE T == {c \in S : <<c, e>> \in R}
  <2>1. T \in SUBSET S /\ d \in T /\ {c \in S : <<c, d>> \in R} \subseteq T
    BY <1>3 DEF Orders
  <2>2. Rank(S, R, d) < Cardinality(T)
    BY <1>1, <2>1
  <2>. QED  BY <2>2 DEF Rank
<1>4. \A d, e \in S : Rank(S, R, d) = Rank(S, R, e) => d = e
  <2>. SUFFICES ASSUME NEW d \in S, NEW e \in S, Rank(S, R, d) = Rank(S, R, e)
                PROVE  d = e
    OBVIOUS
  <2>1. Rank(S, R, d) \in Int /\ Rank(S, R, e) \in Int
    BY <1>2
  <2>2. ~(Rank(S, R, d) < Rank(S, R, e)) /\ ~(Rank(S, R, e) < Rank(S, R, d))
    BY <2>1
  <2>3. <<d, e>> \notin R /\ <<e, d>> \notin R
    BY <1>3, <2>2
  <2>. QED  BY <2>3 DEF Orders
<1>. QED  BY <1>2, <1>4

\* Every place below the size of the set is taken.
LEMMA RankTaken ==
  ASSUME NEW S, IsFiniteSet(S), NEW R, Orders(R, S), NEW i \in 1 .. Cardinality(S)
  PROVE  \E e \in S : Rank(S, R, e) = i - 1
<1>. SUFFICES ASSUME \A e \in S : Rank(S, R, e) # i - 1
              PROVE  FALSE
  OBVIOUS
<1>. DEFINE n == Cardinality(S)
            T == (0 .. (n - 1)) \ {i - 1}
<1>. PICK r : r = [e \in S |-> Rank(S, R, e)]
  OBVIOUS
<1>1. n \in Nat
  BY FS_CardinalityType
<1>2. IsFiniteSet(0 .. (n - 1)) /\ Cardinality(0 .. (n - 1)) = n
  <2>1. 0 \in Int /\ n - 1 \in Int
    BY <1>1
  <2>2. IsFiniteSet(0 .. (n - 1)) /\ Cardinality(0 .. (n - 1)) = IF 0 > n - 1 THEN 0 ELSE (n - 1) - 0 + 1
    BY <2>1, FS_Interval
  <2>. QED  BY <1>1, <2>2
<1>3. i - 1 \in 0 .. (n - 1)
  BY <1>1
<1>4. IsFiniteSet(T) /\ Cardinality(T) = n - 1
  BY <1>2, <1>3, FS_RemoveElement
<1>5. \A e \in S : Rank(S, R, e) \in T
  BY RankFacts
<1>6. r \in [S -> T]
  BY <1>5
<1>7. Cardinality(T) < Cardinality(S)
  BY <1>1, <1>4
<1>8. \E d, e \in S : d # e /\ r[d] = r[e]
  BY <1>4, <1>6, <1>7, FS_PigeonHole
<1>9. \A d, e \in S : Rank(S, R, d) = Rank(S, R, e) => d = e
  BY RankFacts
<1>. QED  BY <1>8, <1>9

\* So Sorted is the members of S in a row, each once.
LEMMA SortedFacts ==
  ASSUME NEW S, IsFiniteSet(S), NEW R, Orders(R, S)
  PROVE  /\ Sorted(S, R) \in Seq(S) /\ Len(Sorted(S, R)) = Cardinality(S)
         /\ \A e \in S : \E i \in DOMAIN Sorted(S, R) : Sorted(S, R)[i] = e
         /\ \A i, j \in DOMAIN Sorted(S, R) : Sorted(S, R)[i] = Sorted(S, R)[j] => i = j
<1>. DEFINE n == Cardinality(S)
<1>1. n \in Nat
  BY FS_CardinalityType
<1>2. \A i \in 1 .. n : Sorted(S, R)[i] \in S /\ Rank(S, R, Sorted(S, R)[i]) = i - 1
  BY RankTaken DEF Sorted
<1>3. Sorted(S, R) \in [1 .. n -> S]
  BY <1>2 DEF Sorted
<1>4. Sorted(S, R) \in Seq(S) /\ Len(Sorted(S, R)) = n
  <2>1. Sorted(S, R) \in Seq(S)
    BY <1>1, <1>3, SeqDef
  <2>2. DOMAIN Sorted(S, R) = 1 .. n
    BY <1>3
  <2>. QED  BY <1>1, <2>1, <2>2, LenProperties
<1>5. \A e \in S : \E i \in 1 .. n : Sorted(S, R)[i] = e
  <2>. TAKE e \in S
  <2>. DEFINE i == Rank(S, R, e) + 1
  <2>1. Rank(S, R, e) \in 0 .. (n - 1)
    BY RankFacts
  <2>2. i \in 1 .. n /\ i - 1 = Rank(S, R, e)
    BY <1>1, <2>1
  <2>3. Sorted(S, R)[i] \in S /\ Rank(S, R, Sorted(S, R)[i]) = Rank(S, R, e)
    BY <1>2, <2>2
  <2>4. Sorted(S, R)[i] = e
    BY <2>3, RankFacts
  <2>. QED  BY <2>2, <2>4
<1>6. \A i, j \in 1 .. n : Sorted(S, R)[i] = Sorted(S, R)[j] => i = j
  <2>. TAKE i, j \in 1 .. n
  <2>1. i \in Int /\ j \in Int
    BY <1>1
  <2>2. Rank(S, R, Sorted(S, R)[i]) = i - 1 /\ Rank(S, R, Sorted(S, R)[j]) = j - 1
    BY <1>2
  <2>. QED  BY <2>1, <2>2
<1>7. DOMAIN Sorted(S, R) = 1 .. n
  BY <1>3
<1>. QED  BY <1>4, <1>5, <1>6, <1>7

-----------------------------------------------------------------------------
(* The groups of a set.                                                    *)

Group == [source : FileIds \cup {NoFile}, files : Seq(FileIds)]

\* A list of groups has every file at exactly one place.
HasOnce(groups, files) ==
  \A f \in files :
    /\ \E k \in DOMAIN groups : \E i \in DOMAIN groups[k].files : groups[k].files[i] = f
    /\ \A k, l \in DOMAIN groups : \A i \in DOMAIN groups[k].files, j \in DOMAIN groups[l].files :
         groups[k].files[i] = f /\ groups[l].files[j] = f => k = l /\ i = j

LEMMA FilesSorted ==
  ASSUME NEW desk \in Desks, NEW files \in SUBSET FileIds
  PROVE  /\ sortFiles(desk, files) \in Seq(FileIds)
         /\ \A i \in DOMAIN sortFiles(desk, files) : sortFiles(desk, files)[i] \in files
         /\ \A e \in files : \E i \in DOMAIN sortFiles(desk, files) : sortFiles(desk, files)[i] = e
         /\ \A i, j \in DOMAIN sortFiles(desk, files) :
              sortFiles(desk, files)[i] = sortFiles(desk, files)[j] => i = j
<1>. DEFINE R == {p \in files \X files : Before(desk, p[1], p[2])}
<1>1. IsFiniteSet(files)
  BY GroupingConstants, FS_Subset
<1>2. \A d, e \in files : <<d, e>> \in R <=> Before(desk, d, e)
  OBVIOUS
<1>3. \A d \in files : d \in Nat /\ desk.page[d] \in Nat
  <2>. TAKE d \in files
  <2>1. desk.page \in [FileIds -> FileIds \cup {0}]
    BY GroupingConstants
  <2>2. FileIds \subseteq Nat
    BY GroupingConstants
  <2>3. d \in FileIds /\ FileIds \cup {0} \subseteq Nat
    BY <2>2
  <2>4. desk.page[d] \in FileIds \cup {0}
    BY <2>1, <2>3, Zenon
  <2>. QED  BY <2>2, <2>3, <2>4, Zenon
<1>4. \A d \in files : ~Before(desk, d, d)
  BY <1>3 DEF Before
<1>5. \A d, e \in files : d = e \/ Before(desk, d, e) \/ Before(desk, e, d)
  BY <1>3 DEF Before
<1>6. \A d, e, f \in files : Before(desk, d, e) /\ Before(desk, e, f) => Before(desk, d, f)
  BY <1>3 DEF Before
<1>7. Orders(R, files)
  BY <1>2, <1>4, <1>5, <1>6 DEF Orders
<1>8. sortFiles(desk, files) = Sorted(files, R)
  BY DEF sortFiles
<1>9. Sorted(files, R) \in Seq(files)
  BY <1>1, <1>7, SortedFacts
<1>10. Sorted(files, R) \in Seq(FileIds)
  BY <1>9
<1>11. \A i \in DOMAIN Sorted(files, R) : Sorted(files, R)[i] \in files
  BY <1>9, LenProperties
<1>. HIDE DEF R
<1>. QED  BY <1>1, <1>7, <1>8, <1>10, <1>11, SortedFacts

LEMMA SourcesSorted ==
  ASSUME NEW sources \in SUBSET FileIds
  PROVE  LET order == Sorted(sources, {p \in sources \X sources : p[1] < p[2]}) IN
         /\ order \in Seq(sources)
         /\ \A e \in sources : \E i \in DOMAIN order : order[i] = e
         /\ \A i, j \in DOMAIN order : order[i] = order[j] => i = j
<1>. DEFINE R == {p \in sources \X sources : p[1] < p[2]}
<1>1. IsFiniteSet(sources)
  BY GroupingConstants, FS_Subset
<1>2. \A d, e \in sources : <<d, e>> \in R <=> d < e
  OBVIOUS
<1>3. \A d \in sources : d \in Nat
  BY GroupingConstants
<1>4. Orders(R, sources)
  BY <1>2, <1>3 DEF Orders
<1>. HIDE DEF R
<1>5. /\ Sorted(sources, R) \in Seq(sources)
      /\ \A e \in sources : \E i \in DOMAIN Sorted(sources, R) : Sorted(sources, R)[i] = e
      /\ \A i, j \in DOMAIN Sorted(sources, R) : Sorted(sources, R)[i] = Sorted(sources, R)[j] => i = j
  BY <1>1, <1>4, SortedFacts
<1>. QED  BY <1>5 DEF R

\* One group of all files.
LEMMA OneGroup ==
  ASSUME NEW desk \in Desks, NEW files \in SUBSET FileIds
  PROVE  /\ <<[source |-> NoFile, files |-> sortFiles(desk, files)]>> \in Seq(Group)
         /\ HasOnce(<<[source |-> NoFile, files |-> sortFiles(desk, files)]>>, files)
<1>. DEFINE g == [source |-> NoFile, files |-> sortFiles(desk, files)]
<1>1. g \in Group
  BY FilesSorted DEF Group
<1>2. <<g>> \in Seq(Group)
  BY <1>1
<1>3. DOMAIN <<g>> = {1} /\ <<g>>[1].files = sortFiles(desk, files)
  OBVIOUS
<1>. HIDE DEF g
<1>4. HasOnce(<<g>>, files)
  BY <1>3, FilesSorted DEF HasOnce
<1>. QED  BY <1>2, <1>4 DEF g

\* The groups of the sources, then the rest.
LEMMA GroupsAndRest ==
  ASSUME NEW desk \in Desks, NEW sources \in SUBSET FileIds
  PROVE  /\ GroupsOf(desk, sources) \o Rest(desk, sources) \in Seq(Group)
         /\ HasOnce(GroupsOf(desk, sources) \o Rest(desk, sources), desk.files)
<1>. DEFINE order == Sorted(sources, {p \in sources \X sources : p[1] < p[2]})
            of(s) == {f \in desk.files : RootSource(desk, f) = s}
            rest == {f \in desk.files : RootSource(desk, f) \notin sources}
            H == GroupsOf(desk, sources)
            T == Rest(desk, sources)
            A == H \o T
            n == Len(order)
<1>1. /\ order \in Seq(sources)
      /\ \A e \in sources : \E i \in DOMAIN order : order[i] = e
      /\ \A i, j \in DOMAIN order : order[i] = order[j] => i = j
  BY SourcesSorted
<1>2. desk.files \in SUBSET FileIds
  BY GroupingConstants
<1>3. n \in Nat /\ DOMAIN order = 1 .. n
  BY <1>1, LenProperties
<1>4. \A k \in 1 .. n : order[k] \in sources
  BY <1>1, <1>3
<1>. HIDE DEF order
<1>5. H = [k \in 1 .. n |-> [source |-> order[k], files |-> sortFiles(desk, of(order[k]))]]
  BY <1>3 DEF GroupsOf, order
<1>6. \A s : of(s) \in SUBSET FileIds
  BY <1>2
<1>7. rest \in SUBSET FileIds
  BY <1>2
<1>. HIDE DEF n
<1>8. \A k \in 1 .. n : H[k] \in Group
  <2>. TAKE k \in 1 .. n
  <2>1. sortFiles(desk, of(order[k])) \in Seq(FileIds)
    BY <1>6, FilesSorted
  <2>. QED  BY <1>4, <1>5, <2>1 DEF Group
<1>9. H \in Seq(Group) /\ Len(H) = n
  <2>1. H \in [1 .. n -> Group]
    BY <1>5, <1>8
  <2>2. H \in Seq(Group)
    BY <1>3, <2>1, SeqDef
  <2>. QED  BY <1>3, <2>1, <2>2, LenProperties
<1>10. /\ rest = {} => T = <<>>
       /\ rest # {} => T = <<[source |-> NoFile, files |-> sortFiles(desk, rest)]>>
  BY DEF Rest
<1>11. T \in Seq(Group)
  <2>1. CASE rest = {}
    BY <1>10, <2>1, EmptySeq
  <2>2. CASE rest # {}
    <3>1. <<[source |-> NoFile, files |-> sortFiles(desk, rest)]>> \in Seq(Group)
      BY <1>7, OneGroup
    <3>. QED  BY <1>10, <2>2, <3>1
  <2>. QED  BY <2>1, <2>2
<1>. HIDE DEF H, T
<1>12. /\ A \in Seq(Group) /\ Len(A) = n + Len(T)
       /\ \A k \in 1 .. n : A[k] = H[k]
       /\ \A k \in 1 .. Len(T) : A[n + k] = T[k]
  <2>1. H \o T \in Seq(Group) /\ Len(H \o T) = Len(H) + Len(T)
    BY <1>9, <1>11, ConcatProperties
  <2>2. Len(T) \in Nat
    BY <1>11, LenProperties
  <2>. QED  BY <1>3, <1>9, <1>11, <2>1, <2>2
<1>13. /\ rest = {} => Len(T) = 0
       /\ rest # {} => Len(T) = 1 /\ T[1].files = sortFiles(desk, rest)
  BY <1>10
<1>14. DOMAIN A = 1 .. (n + Len(T))
  BY <1>12, LenProperties
<1>. HIDE DEF A
<1>15. \A k \in 1 .. n : A[k].files = sortFiles(desk, of(order[k]))
  BY <1>5, <1>12
<1>16. rest # {} => n + 1 \in DOMAIN A /\ A[n + 1].files = sortFiles(desk, rest)
  BY <1>3, <1>12, <1>13, <1>14
<1>17. \A k \in DOMAIN A : k \in 1 .. n \/ (rest # {} /\ k = n + 1)
  <2>1. CASE rest = {}
    BY <1>3, <1>13, <1>14, <2>1
  <2>2. CASE rest # {}
    <3>1. DOMAIN A = 1 .. (n + 1)
      BY <1>13, <1>14, <2>2
    <3>2. \A k \in 1 .. (n + 1) : k \in 1 .. n \/ k = n + 1
      BY <1>3
    <3>. QED  BY <2>2, <3>1, <3>2
  <2>. QED  BY <2>1, <2>2
<1>18. 1 .. n \subseteq DOMAIN A
  <2>1. Len(T) \in {0, 1}
    BY <1>13
  <2>. QED  BY <1>3, <1>14, <2>1
\* Whatever a group has is a file of its source, or of the rest.
<1>19. \A k \in 1 .. n : \A i \in DOMAIN A[k].files :
         A[k].files[i] \in desk.files /\ RootSource(desk, A[k].files[i]) = order[k]
  <2>. TAKE k \in 1 .. n
  <2>. DEFINE s == sortFiles(desk, of(order[k]))
  <2>1. \A i \in DOMAIN s : s[i] \in of(order[k])
    BY <1>6, FilesSorted
  <2>. QED  BY <1>15, <2>1
<1>20. rest # {} => \A i \in DOMAIN A[n + 1].files :
         A[n + 1].files[i] \in desk.files /\ RootSource(desk, A[n + 1].files[i]) \notin sources
  <2>. DEFINE s == sortFiles(desk, rest)
  <2>1. \A i \in DOMAIN s : s[i] \in rest
    BY <1>7, FilesSorted
  <2>. QED  BY <1>16, <2>1
<1>21. ASSUME NEW f \in desk.files
       PROVE  \E k \in DOMAIN A : \E i \in DOMAIN A[k].files : A[k].files[i] = f
  <2>1. CASE RootSource(desk, f) \in sources
    <3>1. PICK k \in 1 .. n : order[k] = RootSource(desk, f)
      BY <1>1, <1>3, <2>1 DEF order
    <3>2. f \in of(order[k])
      BY <3>1
    <3>3. \E i \in DOMAIN sortFiles(desk, of(order[k])) : sortFiles(desk, of(order[k]))[i] = f
      BY <1>6, <3>2, FilesSorted
    <3>. QED  BY <1>15, <1>18, <3>1, <3>3
  <2>2. CASE RootSource(desk, f) \notin sources
    <3>1. f \in rest
      BY <2>2
    <3>2. \E i \in DOMAIN sortFiles(desk, rest) : sortFiles(desk, rest)[i] = f
      BY <1>7, <3>1, FilesSorted
    <3>. QED  BY <1>16, <3>1, <3>2
  <2>. QED  BY <2>1, <2>2
<1>22. ASSUME NEW f \in desk.files, NEW k \in DOMAIN A, NEW l \in DOMAIN A,
              NEW i \in DOMAIN A[k].files, NEW j \in DOMAIN A[l].files,
              A[k].files[i] = f, A[l].files[j] = f
       PROVE  k = l /\ i = j
  <2>1. k = l
    <3>1. CASE k \in 1 .. n /\ l \in 1 .. n
      <4>1. order[k] = order[l]
        BY <1>19, <1>22, <3>1
      <4>. QED  BY <1>1, <1>3, <3>1, <4>1 DEF order
    <3>2. CASE k \in 1 .. n /\ ~(l \in 1 .. n)
      <4>1. RootSource(desk, f) \in sources
        BY <1>4, <1>19, <1>22, <3>2
      <4>2. RootSource(desk, f) \notin sources
        BY <1>17, <1>20, <1>22, <3>2
      <4>. QED  BY <4>1, <4>2
    <3>3. CASE ~(k \in 1 .. n) /\ l \in 1 .. n
      <4>1. RootSource(desk, f) \in sources
        BY <1>4, <1>19, <1>22, <3>3
      <4>2. RootSource(desk, f) \notin sources
        BY <1>17, <1>20, <1>22, <3>3
      <4>. QED  BY <4>1, <4>2
    <3>4. CASE ~(k \in 1 .. n) /\ ~(l \in 1 .. n)
      BY <1>17, <3>4
    <3>. QED  BY <3>1, <3>2, <3>3, <3>4
  <2>2. PICK S \in SUBSET FileIds : A[k].files = sortFiles(desk, S)
    BY <1>6, <1>7, <1>15, <1>16, <1>17
  <2>. QED  BY <1>22, <2>1, <2>2, FilesSorted
<1>23. HasOnce(A, desk.files)
  BY <1>21, <1>22 DEF HasOnce
<1>. QED  BY <1>12, <1>23 DEF A, H, T

LEMMA GroupsFacts ==
  ASSUME NEW desk \in Desks
  PROVE  manyToOneGroups(desk) \in Seq(Group) /\ HasOnce(manyToOneGroups(desk), desk.files)
<1>. DEFINE inSet == groupByRootSource(desk) \cap desk.files
<1>1. desk.files \in SUBSET FileIds
  BY GroupingConstants
<1>2. inSet \in SUBSET FileIds
  BY <1>1
<1>3. \/ manyToOneGroups(desk) = <<[source |-> NoFile, files |-> sortFiles(desk, desk.files)]>>
      \/ manyToOneGroups(desk) = GroupsOf(desk, inSet) \o Rest(desk, inSet)
  BY Zenon DEF manyToOneGroups
<1>. QED  BY <1>1, <1>2, <1>3, OneGroup, GroupsAndRest

\* What is on record is a set with its groups.
GroupingInv ==
  grouping = <<>> \/ \E desk \in Desks : grouping = <<desk, manyToOneGroups(desk)>>

\* Every file of a set comes into one group and once, for any set, derivations
\* and page numbers (manyToOneGroups, grouping.ts:77-126).
THEOREM FilesComeOnce == GroupingSpec => []EveryFileOnce
<1>1. GroupingInit => GroupingInv
  BY DEF GroupingInit, GroupingInv
<1>2. GroupingInv /\ [GroupingNext]_grouping => GroupingInv'
  BY DEF GroupingInv, GroupingNext, GroupSet
<1>3. GroupingInv => EveryFileOnce
  <2>. SUFFICES ASSUME GroupingInv, grouping # <<>>
                PROVE  EveryFileOnce
    BY DEF EveryFileOnce
  <2>1. PICK desk \in Desks : grouping = <<desk, manyToOneGroups(desk)>>
    BY DEF GroupingInv
  <2>. DEFINE groups == manyToOneGroups(desk)
              placed == UNION {{<<k, i>> : i \in DOMAIN groups[k].files} : k \in DOMAIN groups}
  <2>2. HasOnce(groups, desk.files)
    BY GroupsFacts
  <2>. HIDE DEF groups
  <2>3. \A p \in placed : /\ p[1] \in DOMAIN groups /\ p[2] \in DOMAIN groups[p[1]].files
                          /\ p = <<p[1], p[2]>>
    OBVIOUS
  <2>4. \A k \in DOMAIN groups : \A i \in DOMAIN groups[k].files : <<k, i>> \in placed
    OBVIOUS
  <2>. HIDE DEF placed
  <2>5. ASSUME NEW f \in desk.files
        PROVE  \E p \in placed : \A q \in placed : (groups[q[1]].files[q[2]] = f) <=> q = p
    <3>1. PICK k \in DOMAIN groups : \E i \in DOMAIN groups[k].files : groups[k].files[i] = f
      BY <2>2 DEF HasOnce
    <3>2. PICK i \in DOMAIN groups[k].files : groups[k].files[i] = f
      BY <3>1
    <3>3. \A q \in placed : groups[q[1]].files[q[2]] = f => q[1] = k /\ q[2] = i
      BY <2>2, <2>3, <3>2 DEF HasOnce
    <3>4. <<k, i>> \in placed
      BY <2>4
    <3>5. \A q \in placed : (groups[q[1]].files[q[2]] = f) <=> q = <<k, i>>
      BY <2>3, <3>2, <3>3
    <3>. QED  BY <3>4, <3>5
  <2>6. grouping[1] = desk /\ grouping[2] = groups
    BY <2>1 DEF groups
  <2>. QED  BY <2>5, <2>6 DEF EveryFileOnce, placed
<1>. QED  BY <1>1, <1>2, <1>3, PTL DEF GroupingSpec

-----------------------------------------------------------------------------
(* What a file derives from, as the chain of its parents.  The walk up is   *)
(* cut off, but not before it has passed every file there is.               *)

Tops == FileIds \cup {NoFile}
StepUp(desk) == [x \in Tops |-> IF x = NoFile THEN NoFile ELSE desk.parent[x]]
\* Where n steps up lead from a file.
Anc(desk) == CHOOSE ways : Ways(ways, Tops, StepUp(desk))

LEMMA DeskFacts ==
  ASSUME NEW desk \in Desks
  PROVE  /\ desk.files \in SUBSET FileIds /\ desk.parent \in [FileIds -> Tops]
         /\ IsFiniteSet(FileIds) /\ NoFile \notin FileIds
         /\ MaxDepth \in Nat
<1>1. FileIds \subseteq Nat \ {0} /\ IsFiniteSet(FileIds) /\ NoFile \notin FileIds /\ MaxDepth \in Nat
  BY GroupingConstants
<1>2. desk.files \in SUBSET FileIds
  BY GroupingConstants
<1>3. desk.parent \in [FileIds -> FileIds \cup {NoFile}]
  BY GroupingConstants
<1>. QED  BY <1>1, <1>2, <1>3 DEF Tops

LEMMA StepUpIs ==
  ASSUME NEW desk \in Desks
  PROVE  /\ StepUp(desk) \in [Tops -> Tops] /\ StepUp(desk)[NoFile] = NoFile
         /\ \A x \in FileIds : StepUp(desk)[x] = desk.parent[x]
<1>1. desk.parent \in [FileIds -> Tops] /\ NoFile \notin FileIds
  BY DeskFacts
<1>. QED  BY <1>1 DEF StepUp, Tops

LEMMA AncIs ==
  ASSUME NEW desk \in Desks
  PROVE  Ways(Anc(desk), Tops, StepUp(desk))
<1>1. StepUp(desk) \in [Tops -> Tops]
  BY StepUpIs
<1>2. \E ways : Ways(ways, Tops, StepUp(desk))
  BY <1>1, WaysExist
<1>. QED  BY <1>2 DEF Anc

LEMMA AncFrom ==
  ASSUME NEW desk \in Desks, NEW f \in FileIds
  PROVE  /\ Anc(desk)[f] \in [Nat -> Tops] /\ Anc(desk)[f][0] = f
         /\ \A n \in Nat : Anc(desk)[f][n + 1] = StepUp(desk)[Anc(desk)[f][n]]
<1>1. Ways(Anc(desk), Tops, StepUp(desk)) /\ f \in Tops
  BY AncIs DEF Tops
<1>. QED  BY <1>1, WayFrom

\* From a file so far, then from there.
LEMMA AncJoins ==
  ASSUME NEW desk \in Desks, NEW f \in FileIds, NEW a \in Nat, NEW b \in Nat
  PROVE  Anc(desk)[f][a + b] = Anc(desk)[Anc(desk)[f][a]][b]
<1>1. Ways(Anc(desk), Tops, StepUp(desk)) /\ f \in Tops
  BY AncIs DEF Tops
<1>. QED  BY <1>1, WaysJoin

\* The code's walk is the beginning of that chain.
LEMMA AboveIs ==
  ASSUME NEW desk \in Desks, NEW f \in FileIds, NEW n \in 0 .. MaxDepth
  PROVE  Above(desk, f)[n] = Anc(desk)[f][n]
<1>. PICK w : w = Anc(desk)[f]
  OBVIOUS
<1>. PICK step : step = StepUp(desk)
  OBVIOUS
<1>. DEFINE Walk(up) == up = [m \in 0 .. MaxDepth |->
              IF m = 0 THEN f ELSE IF up[m - 1] = NoFile THEN NoFile ELSE desk.parent[up[m - 1]]]
<1>1. w \in [Nat -> Tops] /\ w[0] = f /\ \A m \in Nat : w[m + 1] = step[w[m]]
  BY AncFrom
<1>2. /\ MaxDepth \in Nat /\ step[NoFile] = NoFile /\ NoFile \notin FileIds
      /\ \A x \in FileIds : step[x] = desk.parent[x]
  BY DeskFacts, StepUpIs
<1>3. \A m \in Nat : w[m + 1] = IF w[m] = NoFile THEN NoFile ELSE desk.parent[w[m]]
  BY <1>1, <1>2 DEF Tops
<1>4. \E up : Walk(up)
  <2>. DEFINE up == [m \in 0 .. MaxDepth |-> w[m]]
  <2>1. ASSUME NEW m \in 0 .. MaxDepth
        PROVE  up[m] = IF m = 0 THEN f ELSE IF up[m - 1] = NoFile THEN NoFile ELSE desk.parent[up[m - 1]]
    <3>1. CASE m = 0
      BY <1>1, <3>1
    <3>2. CASE m # 0
      <4>1. m - 1 \in Nat /\ m - 1 \in 0 .. MaxDepth /\ (m - 1) + 1 = m
        BY <1>2, <3>2
      <4>2. up[m] = w[m] /\ up[m - 1] = w[m - 1]
        BY <4>1
      <4>3. w[(m - 1) + 1] = IF w[m - 1] = NoFile THEN NoFile ELSE desk.parent[w[m - 1]]
        BY <1>3, <4>1
      <4>. HIDE DEF up
      <4>. QED  BY <3>2, <4>1, <4>2, <4>3
    <3>. QED  BY <3>1, <3>2
  <2>2. up = [m \in 0 .. MaxDepth |-> up[m]]
    OBVIOUS
  <2>. HIDE DEF up
  <2>3. Walk(up)
    BY <2>1, <2>2
  <2>. QED  BY <2>3
<1>. PICK up : up = Above(desk, f)
  OBVIOUS
<1>5. Walk(up)
  <2>1. Above(desk, f) = CHOOSE u : Walk(u)
    BY DEF Above
  <2>. QED  BY <1>4, <2>1
<1>6. \A m \in 0 .. MaxDepth :
        up[m] = IF m = 0 THEN f ELSE IF up[m - 1] = NoFile THEN NoFile ELSE desk.parent[up[m - 1]]
  BY <1>5
<1>. HIDE DEF Walk
<1>. DEFINE N == {m \in 0 .. MaxDepth : up[m] # w[m]}
<1>. SUFFICES ASSUME N # {} PROVE FALSE
  OBVIOUS
<1>7. PICK m \in N : \A i \in N : m <= i
  <2>1. N \subseteq Nat
    BY <1>2
  <2>. HIDE DEF N
  <2>. QED  BY <2>1, LeastNumber
<1>8. m # 0
  BY <1>1, <1>6
<1>9. m - 1 \in Nat /\ m - 1 \in 0 .. MaxDepth /\ m - 1 \notin N /\ (m - 1) + 1 = m
  BY <1>2, <1>7, <1>8
<1>10. up[m - 1] = w[m - 1]
  BY <1>9
<1>11. w[(m - 1) + 1] = IF w[m - 1] = NoFile THEN NoFile ELSE desk.parent[w[m - 1]]
  BY <1>3, <1>9
<1>. QED  BY <1>6, <1>8, <1>9, <1>10, <1>11

\* The last file of a type: none, or the last of the chain that is one.
LEMMA LastIs ==
  ASSUME NEW desk \in Desks, NEW f \in FileIds, NEW types
  PROVE  \/ /\ LastOf(desk, f, types) = NoFile
            /\ \A n \in 0 .. MaxDepth : Anc(desk)[f][n] \in FileIds => desk.type[Anc(desk)[f][n]] \notin types
         \/ \E n \in 0 .. MaxDepth :
              /\ LastOf(desk, f, types) = Anc(desk)[f][n] /\ Anc(desk)[f][n] \in FileIds
              /\ desk.type[Anc(desk)[f][n]] \in types
              /\ \A m \in 0 .. MaxDepth : Anc(desk)[f][m] \in FileIds /\ desk.type[Anc(desk)[f][m]] \in types => m <= n
<1>. PICK w : w = Anc(desk)[f]
  OBVIOUS
<1>. PICK up : up = Above(desk, f)
  OBVIOUS
<1>. DEFINE hits == {n \in 0 .. MaxDepth : up[n] # NoFile /\ desk.type[up[n]] \in types}
<1>1. w \in [Nat -> Tops]
  BY AncFrom
<1>2. MaxDepth \in Nat /\ NoFile \notin FileIds
  BY DeskFacts
<1>3. \A n \in 0 .. MaxDepth : up[n] = w[n]
  BY AboveIs
<1>4. \A n \in 0 .. MaxDepth : n \in hits <=> w[n] \in FileIds /\ desk.type[w[n]] \in types
  BY <1>1, <1>2, <1>3 DEF Tops
<1>5. LastOf(desk, f, types) = IF hits = {} THEN NoFile ELSE up[Max(hits)]
  BY DEF LastOf
<1>6. hits \subseteq 0 .. MaxDepth /\ hits \subseteq Nat
  BY <1>2
<1>. HIDE DEF hits
<1>7. IsFiniteSet(hits)
  <2>1. IsFiniteSet(0 .. MaxDepth)
    BY <1>2, FS_Interval
  <2>. QED  BY <1>6, <2>1, FS_Subset
<1>8. CASE hits = {}
  BY <1>4, <1>5, <1>8
<1>9. CASE hits # {}
  <2>1. PICK n : n = Max(hits)
    OBVIOUS
  <2>2. n \in hits /\ \A m \in hits : m <= n
    BY <1>6, <1>7, <1>9, <2>1, GreatestIs
  <2>3. n \in 0 .. MaxDepth /\ LastOf(desk, f, types) = w[n]
    BY <1>3, <1>5, <1>6, <1>9, <2>1, <2>2
  <2>4. w[n] \in FileIds /\ desk.type[w[n]] \in types
    BY <1>4, <2>2, <2>3
  <2>5. \A m \in 0 .. MaxDepth : w[m] \in FileIds /\ desk.type[w[m]] \in types => m <= n
    BY <1>4, <2>2
  <2>. QED  BY <2>3, <2>4, <2>5
<1>. QED  BY <1>8, <1>9

\* What a file derives from lies above it in the chain.
LEMMA DerivedIs ==
  ASSUME NEW desk \in Desks, NEW f \in FileIds, NEW s \in FileIds
  PROVE  s \in DerivedFrom(desk, f) <=> \E n \in Nat : Anc(desk)[f][n + 1] = s
<1>. PICK w : w = Anc(desk)[f]
  OBVIOUS
<1>. DEFINE has(x, files) == desk.parent[x] \in files \cup {NoFile}
            Shut(files) == has(f, files) /\ \A x \in files : has(x, files)
<1>1. w \in [Nat -> Tops] /\ w[0] = f /\ \A n \in Nat : w[n + 1] = StepUp(desk)[w[n]]
  BY AncFrom
<1>2. NoFile \notin FileIds /\ StepUp(desk)[NoFile] = NoFile /\ \A x \in FileIds : StepUp(desk)[x] = desk.parent[x]
  BY DeskFacts, StepUpIs
<1>3. s \in DerivedFrom(desk, f) <=> \A files \in SUBSET FileIds : Shut(files) => s \in files
  BY DEF DerivedFrom
<1>4. ASSUME \A files \in SUBSET FileIds : Shut(files) => s \in files
      PROVE  \E n \in Nat : w[n + 1] = s
  <2>. DEFINE files == {x \in FileIds : \E n \in Nat : w[n + 1] = x}
  <2>1. \A n \in Nat : w[n + 1] \in files \cup {NoFile}
    <3>. TAKE n \in Nat
    <3>1. w[n + 1] \in Tops
      BY <1>1
    <3>. QED  BY <3>1 DEF Tops
  <2>2. has(f, files)
    <3>1. w[0 + 1] = desk.parent[f]
      BY <1>1, <1>2
    <3>. HIDE DEF files
    <3>. QED  BY <2>1, <3>1
  <2>3. ASSUME NEW x \in files PROVE has(x, files)
    <3>1. PICK n \in Nat : w[n + 1] = x
      OBVIOUS
    <3>2. n + 1 \in Nat /\ x \in FileIds
      OBVIOUS
    <3>3. w[(n + 1) + 1] = desk.parent[x]
      BY <1>1, <1>2, <3>1, <3>2
    <3>. HIDE DEF files
    <3>. QED  BY <2>1, <3>2, <3>3
  <2>4. Shut(files) /\ files \in SUBSET FileIds
    BY <2>2, <2>3
  <2>5. s \in files
    <3>. HIDE DEF files, Shut
    <3>. QED  BY <1>4, <2>4
  <2>. QED  BY <2>5
<1>5. ASSUME NEW n \in Nat, w[n + 1] = s, NEW files \in SUBSET FileIds, Shut(files)
      PROVE  s \in files
  <2>. DEFINE N == {m \in Nat : w[m + 1] \in FileIds /\ w[m + 1] \notin files}
  <2>. SUFFICES ASSUME N # {} PROVE FALSE
    BY <1>5
  <2>1. PICK m \in N : \A i \in N : m <= i
    <3>1. N \subseteq Nat
      OBVIOUS
    <3>. HIDE DEF N
    <3>. QED  BY <3>1, LeastNumber
  <2>2. w[m + 1] = StepUp(desk)[w[m]] /\ w[m + 1] \in FileIds /\ w[m + 1] \notin files
    BY <1>1
  <2>3. w[m] \in FileIds
    <3>1. w[m] \in Tops
      BY <1>1
    <3>. QED  BY <1>2, <2>2, <3>1 DEF Tops
  <2>4. w[m + 1] = desk.parent[w[m]]
    BY <1>2, <2>2, <2>3
  <2>5. CASE m = 0
    BY <1>1, <1>2, <1>5, <2>2, <2>4, <2>5
  <2>6. CASE m # 0
    <3>1. m - 1 \in Nat /\ m - 1 \notin N /\ (m - 1) + 1 = m
      BY <2>1, <2>6
    <3>2. w[m] \in files
      BY <2>3, <3>1
    <3>3. desk.parent[w[m]] \in files \cup {NoFile}
      BY <1>5, <3>2
    <3>. QED  BY <1>2, <2>2, <2>4, <3>3
  <2>. QED  BY <2>5, <2>6
<1>6. (\E n \in Nat : w[n + 1] = s) => \A files \in SUBSET FileIds : Shut(files) => s \in files
  <2>. HIDE DEF Shut
  <2>. QED  BY <1>5
<1>. HIDE DEF Shut
<1>. QED  BY <1>3, <1>4, <1>6

\* What a file derives from lies within the cut-off.
LEMMA AncSoon ==
  ASSUME NEW desk \in Desks, NEW f \in FileIds, NEW s \in FileIds, NEW n \in Nat, Anc(desk)[f][n] = s
  PROVE  \E m \in 0 .. MaxDepth : Anc(desk)[f][m] = s
<1>. PICK R : R = DerivedFrom(desk, f)
  OBVIOUS
<1>1. Ways(Anc(desk), FileIds \cup {NoFile}, StepUp(desk))
  BY AncIs DEF Tops
<1>2. NoFile \notin FileIds /\ StepUp(desk)[NoFile] = NoFile /\ MaxDepth \in Nat
  BY DeskFacts, StepUpIs
<1>3. IsFiniteSet(R) /\ Cardinality(R) \in Nat /\ Cardinality(R) <= MaxDepth
  <2>1. R \subseteq FileIds
    BY DEF DerivedFrom
  <2>2. IsFiniteSet(R)
    BY <2>1, DeskFacts, FS_Subset
  <2>3. Cardinality(DerivedFrom(desk, f)) <= MaxDepth
    BY ChainsFit, Zenon
  <2>4. Cardinality(R) \in Nat
    BY <2>2, FS_CardinalityType
  <2>. QED  BY <2>2, <2>3, <2>4
<1>4. CASE n = 0
  <2>1. 0 \in 0 .. MaxDepth
    BY <1>2
  <2>. QED  BY <1>4, <2>1
<1>5. CASE n # 0
  <2>1. n \in Nat \ {0}
    BY <1>5
  <2>2. ASSUME NEW i \in Nat \ {0}, Anc(desk)[f][i] \in FileIds
        PROVE  Anc(desk)[f][i] \in R
    <3>1. PICK t \in FileIds : t = Anc(desk)[f][i]
      BY <2>2
    <3>2. i - 1 \in Nat /\ (i - 1) + 1 = i
      OBVIOUS
    <3>3. \E k \in Nat : Anc(desk)[f][k + 1] = t
      BY <3>1, <3>2
    <3>. QED  BY <3>1, <3>3, DerivedIs
  <2>3. \E m \in 1 .. Cardinality(R) : Anc(desk)[f][m] = s
    <3>1. PICK ways : ways = Anc(desk)
      OBVIOUS
    <3>2. PICK step : step = StepUp(desk)
      OBVIOUS
    <3>3. Ways(ways, FileIds \cup {NoFile}, step) /\ step[NoFile] = NoFile /\ ways[f][n] = s
      BY <1>1, <1>2, <3>1, <3>2
    <3>4. \A i \in Nat \ {0} : ways[f][i] \in FileIds => ways[f][i] \in R
      BY <2>2, <3>1
    <3>5. \E m \in 1 .. Cardinality(R) : ways[f][m] = s
      <4>1. OnTheWay(ways, f, FileIds, R)
        BY <3>4 DEF OnTheWay
      <4>. QED  BY <1>2, <1>3, <2>1, <3>3, <4>1, SoonThere
    <3>. QED  BY <3>1, <3>5
  <2>4. 1 .. Cardinality(R) \subseteq 0 .. MaxDepth
    BY <1>2, <1>3
  <2>. QED  BY <2>3, <2>4
<1>. QED  BY <1>4, <1>5

\* A PDF no PDF lies above of.
TopPdf(desk, s) == s \in FileIds /\ desk.type[s] = "pdf" /\ \A t \in DerivedFrom(desk, s) : desk.type[t] # "pdf"

\* It is the source of itself and of what derives from it: the walk from such a
\* file passes it before the cut-off, and no PDF after it.
LEMMA RootIs ==
  ASSUME NEW desk \in Desks, NEW f \in FileIds, NEW s, TopPdf(desk, s)
  PROVE  RootSource(desk, f) = s <=> s \in {f} \cup DerivedFrom(desk, f)
<1>. PICK w : w = Anc(desk)[f]
  OBVIOUS
<1>1. w \in [Nat -> Tops] /\ w[0] = f
  BY AncFrom
<1>2. NoFile \notin FileIds /\ MaxDepth \in Nat
  BY DeskFacts
<1>3. s \in FileIds /\ desk.type[s] = "pdf"
  BY DEF TopPdf
<1>4. \A n \in Nat : w[n] = s => s \in {f} \cup DerivedFrom(desk, f)
  <2>. SUFFICES ASSUME NEW n \in Nat, w[n] = s PROVE s \in {f} \cup DerivedFrom(desk, f)
    OBVIOUS
  <2>1. CASE n = 0
    BY <1>1, <2>1
  <2>2. CASE n # 0
    <3>1. n - 1 \in Nat /\ (n - 1) + 1 = n
      BY <2>2
    <3>2. \E m \in Nat : w[m + 1] = s
      BY <3>1
    <3>. QED  BY <1>3, <3>2, DerivedIs
  <2>. QED  BY <2>1, <2>2
<1>5. s \in {f} \cup DerivedFrom(desk, f) => \E n \in 0 .. MaxDepth : w[n] = s
  <2>. SUFFICES ASSUME s \in {f} \cup DerivedFrom(desk, f) PROVE \E n \in 0 .. MaxDepth : w[n] = s
    OBVIOUS
  <2>1. \E n \in Nat : w[n] = s
    <3>1. CASE s = f
      BY <1>1, <3>1
    <3>2. CASE s \in DerivedFrom(desk, f)
      <4>1. PICK m \in Nat : w[m + 1] = s
        BY <1>3, <3>2, DerivedIs
      <4>. QED  BY <4>1
    <3>. QED  BY <3>1, <3>2
  <2>. QED  BY <1>3, <2>1, AncSoon
<1>6. ASSUME NEW n \in 0 .. MaxDepth, NEW m \in 0 .. MaxDepth, w[n] = s, n < m, w[m] \in FileIds
      PROVE  desk.type[w[m]] # "pdf"
  <2>1. n \in Nat /\ m - n \in Nat /\ (m - n) - 1 \in Nat /\ n + (m - n) = m /\ ((m - n) - 1) + 1 = m - n
    BY <1>2, <1>6
  <2>2. w[n + (m - n)] = Anc(desk)[w[n]][m - n]
    BY <2>1, AncJoins
  <2>3. PICK k \in Nat : k = (m - n) - 1
    BY <2>1
  <2>4. Anc(desk)[s][k + 1] = w[m]
    BY <1>6, <2>1, <2>2, <2>3
  <2>5. w[m] \in DerivedFrom(desk, s)
    <3>1. PICK t : t = w[m]
      OBVIOUS
    <3>2. t \in FileIds /\ \E j \in Nat : Anc(desk)[s][j + 1] = t
      BY <1>6, <2>4, <3>1
    <3>. QED  BY <1>3, <3>1, <3>2, DerivedIs
  <2>. QED  BY <2>5 DEF TopPdf
<1>7. PICK p : p = LastOf(desk, f, {"pdf"})
  OBVIOUS
<1>8. PICK a : a = LastOf(desk, f, {"pdf", "image"})
  OBVIOUS
<1>9. RootSource(desk, f) = IF p # NoFile THEN p ELSE IF a # NoFile THEN a ELSE f
  BY <1>7, <1>8 DEF RootSource
<1>10. \/ p = NoFile /\ \A n \in 0 .. MaxDepth : w[n] \in FileIds => desk.type[w[n]] # "pdf"
       \/ \E n \in 0 .. MaxDepth :
            /\ p = w[n] /\ w[n] \in FileIds /\ desk.type[w[n]] = "pdf"
            /\ \A m \in 0 .. MaxDepth : w[m] \in FileIds /\ desk.type[w[m]] = "pdf" => m <= n
  <2>. DEFINE types == {"pdf"}
  <2>1. \A x : x \in types <=> x = "pdf"
    OBVIOUS
  <2>2. p = LastOf(desk, f, types)
    BY <1>7
  <2>. HIDE DEF types
  <2>. QED  BY <2>1, <2>2, LastIs
<1>11. a = NoFile \/ \E n \in 0 .. MaxDepth : a = w[n]
  BY <1>8, LastIs
<1>12. ASSUME RootSource(desk, f) = s PROVE s \in {f} \cup DerivedFrom(desk, f)
  <2>1. s = f \/ \E n \in 0 .. MaxDepth : s = w[n]
    BY <1>9, <1>10, <1>11, <1>12
  <2>2. \A n \in 0 .. MaxDepth : n \in Nat
    BY <1>2
  <2>. QED  BY <1>4, <2>1, <2>2
<1>13. ASSUME s \in {f} \cup DerivedFrom(desk, f) PROVE RootSource(desk, f) = s
  <2>1. PICK n \in 0 .. MaxDepth : w[n] = s
    BY <1>5, <1>13
  <2>2. PICK m \in 0 .. MaxDepth : /\ p = w[m] /\ w[m] \in FileIds /\ desk.type[w[m]] = "pdf" /\ n <= m
    BY <1>3, <1>10, <2>1
  <2>3. ~(n < m)
    BY <1>6, <2>1, <2>2
  <2>4. n = m
    BY <1>2, <2>2, <2>3
  <2>. QED  BY <1>2, <1>3, <1>9, <2>1, <2>2, <2>4
<1>. QED  BY <1>12, <1>13

\* A group with a source has the files of that source.
LEMMA GroupsOfSources ==
  ASSUME NEW desk \in Desks, NEW sources \in SUBSET FileIds,
         NEW k \in DOMAIN (GroupsOf(desk, sources) \o Rest(desk, sources)),
         NEW g, g = (GroupsOf(desk, sources) \o Rest(desk, sources))[k], g.source \in FileIds
  PROVE  Range(g.files) = {f \in desk.files : RootSource(desk, f) = g.source}
<1>. DEFINE order == Sorted(sources, {p \in sources \X sources : p[1] < p[2]})
            of(s) == {f \in desk.files : RootSource(desk, f) = s}
            rest == {f \in desk.files : RootSource(desk, f) \notin sources}
            H == GroupsOf(desk, sources)
            T == Rest(desk, sources)
            A == H \o T
            n == Len(order)
<1>1. order \in Seq(sources)
  BY SourcesSorted
<1>2. desk.files \in SUBSET FileIds /\ NoFile \notin FileIds
  BY DeskFacts
<1>3. n \in Nat /\ DOMAIN order = 1 .. n
  BY <1>1, LenProperties
<1>. HIDE DEF order
<1>4. H = [i \in 1 .. n |-> [source |-> order[i], files |-> sortFiles(desk, of(order[i]))]]
  BY <1>3 DEF GroupsOf, order
<1>5. A \in Seq(Group)
  BY GroupsAndRest
<1>6. \/ T = <<>>
      \/ \E files : T = <<[source |-> NoFile, files |-> files]>>
  BY DEF Rest
<1>. HIDE DEF n
<1>7. H \in Seq(Group) /\ Len(H) = n
  <2>1. \A i \in 1 .. n : sortFiles(desk, of(order[i])) \in Seq(FileIds) /\ order[i] \in FileIds
    <3>. TAKE i \in 1 .. n
    <3>1. of(order[i]) \in SUBSET FileIds
      BY <1>2
    <3>2. sortFiles(desk, of(order[i])) \in Seq(FileIds)
      BY <3>1, FilesSorted
    <3>3. order[i] \in sources
      BY <1>1, <1>3
    <3>. QED  BY <3>2, <3>3
  <2>2. \A i \in 1 .. n : H[i] \in Group
    BY <1>4, <2>1 DEF Group
  <2>3. H \in [1 .. n -> Group]
    BY <1>4, <2>2
  <2>4. H \in Seq(Group)
    BY <1>3, <2>3, SeqDef
  <2>. QED  BY <1>3, <2>3, <2>4, LenProperties
<1>. HIDE DEF H, T
<1>8. \E U : T \in Seq(U)
  <2>1. CASE T = <<>>
    BY <2>1, EmptySeq
  <2>2. CASE \E files : T = <<[source |-> NoFile, files |-> files]>>
    <3>1. PICK files : T = <<[source |-> NoFile, files |-> files]>>
      BY <2>2
    <3>2. T \in Seq({[source |-> NoFile, files |-> files]})
      BY <3>1
    <3>. QED  BY <3>2
  <2>. QED  BY <1>6, <2>1, <2>2
<1>9. Len(T) \in Nat /\ \A i \in 1 .. Len(T) : T[i].source = NoFile
  BY <1>6
<1>10. /\ DOMAIN A = 1 .. (n + Len(T))
       /\ \A i \in 1 .. n : A[i] = H[i]
       /\ \A i \in 1 .. Len(T) : A[n + i] = T[i]
  <2>1. PICK U : T \in Seq(U)
    BY <1>8
  <2>. DEFINE V == Group \cup U
  <2>2. H \in Seq(V) /\ T \in Seq(V)
    BY <1>7, <2>1
  <2>. HIDE DEF V
  <2>3. H \o T \in Seq(V) /\ Len(H \o T) = Len(H) + Len(T)
    BY <2>2, ConcatProperties
  <2>4. DOMAIN A = 1 .. (n + Len(T))
    BY <1>7, <2>3, LenProperties
  <2>. QED  BY <1>3, <1>7, <1>9, <2>2, <2>3, <2>4
<1>11. k \in 1 .. (n + Len(T)) /\ A[k] = g
  BY <1>10 DEF A, H, T
<1>. HIDE DEF A
<1>12. k \in 1 .. n
  <2>. SUFFICES ASSUME ~(k <= n) PROVE FALSE
    BY <1>3, <1>9, <1>11
  <2>1. k - n \in 1 .. Len(T) /\ n + (k - n) = k
    BY <1>3, <1>9, <1>11
  <2>2. g = T[k - n]
    BY <1>10, <1>11, <2>1
  <2>. QED  BY <1>2, <1>9, <2>1, <2>2
<1>13. g = [source |-> order[k], files |-> sortFiles(desk, of(order[k]))]
  BY <1>4, <1>10, <1>11, <1>12
<1>14. g.source = order[k] /\ g.files = sortFiles(desk, of(g.source))
  BY <1>13
<1>15. of(g.source) \in SUBSET FileIds
  BY <1>2
<1>. DEFINE S == of(g.source)
            q == sortFiles(desk, S)
<1>16. Range(q) = S
  <2>0. S \in SUBSET FileIds
    BY <1>15
  <2>. HIDE DEF S
  <2>1. /\ \A i \in DOMAIN q : q[i] \in S
        /\ \A e \in S : \E i \in DOMAIN q : q[i] = e
    BY <2>0, FilesSorted
  <2>. QED  BY <2>1 DEF Range
<1>. QED  BY <1>14, <1>16

\* The group of a PDF that derives from no other has the files of the set that
\* are it or derive from it, whatever is derived from what: circles too, and
\* chains as long as the walk up (groupByRootSource, manyToOneGroups,
\* grouping.ts:35-126).
THEOREM GroupsStayWhole == GroupingSpec => []GroupsAreWhole
<1>1. GroupingInit => GroupingInv
  BY DEF GroupingInit, GroupingInv
<1>2. GroupingInv /\ [GroupingNext]_grouping => GroupingInv'
  BY DEF GroupingInv, GroupingNext, GroupSet
<1>3. GroupingInv => GroupsAreWhole
  <2>. SUFFICES ASSUME GroupingInv, grouping # <<>>
                PROVE  GroupsAreWhole
    BY DEF GroupsAreWhole
  <2>1. PICK desk \in Desks : grouping = <<desk, manyToOneGroups(desk)>>
    BY DEF GroupingInv
  <2>. DEFINE groups == manyToOneGroups(desk)
              inSet == groupByRootSource(desk) \cap desk.files
  <2>2. desk.files \in SUBSET FileIds /\ NoFile \notin FileIds
    BY DeskFacts
  <2>3. ASSUME NEW k \in DOMAIN groups, TopPdf(desk, groups[k].source)
        PROVE  Range(groups[k].files) = {f \in desk.files : groups[k].source \in {f} \cup DerivedFrom(desk, f)}
    <3>1. PICK g : g = groups[k]
      OBVIOUS
    <3>2. g.source \in FileIds
      BY <2>3, <3>1 DEF TopPdf
    <3>3. \/ groups = <<[source |-> NoFile, files |-> sortFiles(desk, desk.files)]>>
          \/ groups = GroupsOf(desk, inSet) \o Rest(desk, inSet)
      BY Zenon DEF manyToOneGroups
    <3>. HIDE DEF groups
    <3>4. groups # <<[source |-> NoFile, files |-> sortFiles(desk, desk.files)]>>
      BY <2>2, <2>3, <3>1, <3>2
    <3>5. inSet \in SUBSET FileIds
      BY <2>2
    <3>. HIDE DEF inSet
    <3>6. Range(g.files) = {f \in desk.files : RootSource(desk, f) = g.source}
      <4>1. groups = GroupsOf(desk, inSet) \o Rest(desk, inSet)
        BY <3>3, <3>4
      <4>2. k \in DOMAIN (GroupsOf(desk, inSet) \o Rest(desk, inSet)) /\ g = (GroupsOf(desk, inSet) \o Rest(desk, inSet))[k]
        BY <2>3, <3>1, <4>1
      <4>. QED  BY <3>2, <3>5, <4>2, GroupsOfSources
    <3>7. \A f \in desk.files : RootSource(desk, f) = g.source <=> g.source \in {f} \cup DerivedFrom(desk, f)
      BY <2>2, <2>3, <3>1, RootIs
    <3>8. {f \in desk.files : RootSource(desk, f) = g.source}
            = {f \in desk.files : g.source \in {f} \cup DerivedFrom(desk, f)}
      BY <3>7
    <3>. QED  BY <3>1, <3>6, <3>8
  <2>4. grouping[1] = desk /\ grouping[2] = groups
    BY <2>1
  <2>. HIDE DEF groups
  <2>. QED  BY <2>3, <2>4 DEF GroupsAreWhole, TopPdf
<1>. QED  BY <1>1, <1>2, <1>3, PTL DEF GroupingSpec

-----------------------------------------------------------------------------
(* The run: jobs, and who has them.                                        *)

Busy(c) == ~GroupAt(c, "idle")
OutputStages == {"files", "guard", "create", "notify", "count"}
BeforeCount == OutputStages \cup {"done"}
Delivery == [times : Nat, to : GroupWorkers \cup {AtRest}, over : BOOLEAN]
Work == [job : Nat \X Nat, at : BeforeCount \cup {"idle", "finish", "answered"}]

\* A job or a position is one of its group; the first there is in any case.
InGroup(j) == j[1] \in DOMAIN plan /\ (j[2] = 1 \/ j[2] <= plan[j[1]].n)

PlanInv ==
  /\ DOMAIN plan \subseteq Nat /\ \A k \in DOMAIN plan : plan[k].n \in Nat
  /\ plan = <<>> => position = <<1, 1>>
  /\ outputs \in [DOMAIN plan -> Nat]
  /\ run \in [status : {"none", "running", "paused", "done"}, processed : Nat]

\* What is published lies before the position, so nothing is published twice.
JobsInv ==
  /\ position \in Nat \X (Nat \ {0})
  /\ position[1] \in DOMAIN plan => InGroup(position)
  /\ \A j \in DOMAIN delivered :
       /\ j \in Nat \X (Nat \ {0}) /\ InGroup(j) /\ delivered[j] \in Delivery /\ delivered[j].times \in Nat
       /\ j[1] < position[1] \/ (j[1] = position[1] /\ j[2] < position[2])

\* A consumer has a job that was delivered to it; the last one of a group asks
\* for the output, and past the creation of the output there is one.
WorkInv ==
  /\ groupWork \in [GroupWorkers -> Work]
  /\ \A c \in GroupWorkers :
       /\ Busy(c) => JobOf(c) \in DOMAIN delivered /\ delivered[JobOf(c)].times >= 1
       /\ groupWork[c].at \in OutputStages => IsLastJob(JobOf(c))
       /\ GroupAt(c, "done") => ~IsLastJob(JobOf(c))
       /\ groupWork[c].at \in {"notify", "count"} => outputs[JobOf(c)[1]] >= 1

\* A job two consumers have was delivered twice.
TwiceInv ==
  \A c, d \in GroupWorkers :
    (c # d /\ Busy(c) /\ Busy(d) /\ JobOf(c) = JobOf(d)) => delivered[JobOf(c)].times >= 2

\* Is c about to create the output of group k?
Creates(c, k) == GroupAt(c, "create") /\ JobOf(c)[1] = k

\* The output of a PDF is created by one consumer, and when there is none yet.
OutputInv ==
  \A k \in DOMAIN plan : (plan[k].source # NoFile /\ k \notin overlapped) =>
    /\ outputs[k] <= 1
    /\ \A c \in GroupWorkers : Creates(c, k) =>
         outputs[k] = 0 /\ \A d \in GroupWorkers : Creates(d, k) => d = c

\* The jobs of a run of one group that may have been counted.
Counted ==
  {j \in DOMAIN delivered :
     /\ delivered[j].times >= 1
     /\ \A c \in GroupWorkers : groupWork[c].at \in BeforeCount => JobOf(c) # j
     /\ IsLastJob(j) => outputs[1] >= 1}

CountInv ==
  (DOMAIN plan = {1} /\ ~Redelivered) =>
    /\ run.processed <= Cardinality(Counted)
    /\ (run.status = "done" \/ \E c \in GroupWorkers : GroupAt(c, "finish")) => outputs[1] >= 1

RunInv == PlanInv /\ JobsInv /\ WorkInv /\ TwiceInv /\ OutputInv /\ CountInv

-----------------------------------------------------------------------------
(* The dispatch and the run as a whole.                                    *)

LEMMA FreshRun ==
  ASSUME NEW groups, RunInv, StartRun(groups), DOMAIN groups \subseteq Nat,
         \A k \in DOMAIN groups : groups[k].n \in Nat
  PROVE  RunInv'
<1>. USE DEF RunInv, StartRun
<1>1. DOMAIN delivered = {}
  <2>1. DOMAIN plan = {}
    BY SMT
  <2>2. \A j \in DOMAIN delivered : j[1] \in DOMAIN plan
    BY DEF JobsInv, InGroup
  <2>. QED  BY <2>1, <2>2
<1>2. \A c \in GroupWorkers : ~Busy(c)
  BY <1>1 DEF WorkInv
<1>3. \A c \in GroupWorkers : groupWork[c].at = "idle" /\ groupWork[c] \in Work
  BY <1>2 DEF Busy, GroupAt, WorkInv
<1>4. /\ plan' = groups /\ outputs' = [k \in DOMAIN groups |-> 0]
      /\ run' = [status |-> "running", processed |-> 0]
      /\ position = <<1, 1>>
      /\ UNCHANGED <<position, delivered, groupWork, overlapped>>
  BY DEF PlanInv
<1>5. PlanInv'
  BY <1>4 DEF PlanInv
<1>6. JobsInv'
  <2>1. position' \in Nat \X (Nat \ {0}) /\ position'[2] = 1
    BY <1>4
  <2>. QED  BY <1>1, <1>4, <2>1 DEF JobsInv, InGroup
<1>7. WorkInv'
  <2>1. groupWork' \in [GroupWorkers -> Work]
    BY <1>4 DEF WorkInv
  <2>2. \A c \in GroupWorkers : groupWork'[c].at = "idle"
    BY <1>3, <1>4
  <2>. QED  BY <2>1, <2>2 DEF WorkInv, Busy, GroupAt, OutputStages
<1>8. TwiceInv'
  BY <1>3, <1>4 DEF TwiceInv, Busy, GroupAt
<1>9. OutputInv'
  BY <1>3, <1>4 DEF OutputInv, Creates, GroupAt
<1>10. CountInv'
  <2>1. Counted' = {}
    BY <1>1, <1>4 DEF Counted
  <2>2. Cardinality(Counted') = 0
    BY <2>1, FS_EmptySet
  <2>3. run'.processed = 0 /\ run'.status = "running"
    BY <1>4
  <2>4. \A c \in GroupWorkers : ~(groupWork'[c].at = "finish")
    BY <1>3, <1>4
  <2>. QED  BY <2>2, <2>3, <2>4 DEF CountInv, GroupAt
<1>. QED  BY <1>5, <1>6, <1>7, <1>8, <1>9, <1>10

LEMMA SetQueued ==
  ASSUME NEW desk \in RunDesks, RunInv, queueSet(desk)
  PROVE  RunInv'
<1>. DEFINE made == manyToOneGroups(desk)
            groups == [k \in DOMAIN made |->
                         [source |-> made[k].source, n |-> Len(made[k].files), of |-> Cardinality(desk.files)]]
<1>1. desk \in Desks
  BY GroupRunConstants
<1>2. made \in Seq(Group)
  BY <1>1, GroupsFacts
<1>. HIDE DEF made
<1>3. DOMAIN made \subseteq Nat /\ \A k \in DOMAIN made : made[k] \in Group
  BY <1>2, LenProperties
<1>4. \A k \in DOMAIN made : Len(made[k].files) \in Nat
  BY <1>3, LenProperties DEF Group
<1>5. DOMAIN groups \subseteq Nat /\ \A k \in DOMAIN groups : groups[k].n \in Nat
  BY <1>3, <1>4
<1>6. StartRun(groups)
  BY DEF queueSet, made
<1>. HIDE DEF groups
<1>. QED  BY <1>5, <1>6, FreshRun

LEMMA WholeSetQueued ==
  ASSUME RunInv, dispatchWholeSet
  PROVE  RunInv'
<1>. DEFINE groups == <<[source |-> NoFile, n |-> 1, of |-> 1]>>
<1>1. DOMAIN groups \subseteq Nat /\ \A k \in DOMAIN groups : groups[k].n \in Nat
  OBVIOUS
<1>2. StartRun(groups)
  BY DEF dispatchWholeSet
<1>. HIDE DEF groups
<1>. QED  BY <1>1, <1>2, FreshRun

LEMMA JobPublished ==
  ASSUME RunInv, dispatchGroups
  PROVE  RunInv'
<1>. USE DEF RunInv
<1>1. UNCHANGED <<plan, groupWork, run, outputs, overlapped>> /\ position[1] \in DOMAIN plan
  BY DEF dispatchGroups
<1>2. CASE ~checked
  <2>1. UNCHANGED <<position, delivered>>
    BY <1>2 DEF dispatchGroups
  <2>. QED  BY <1>1, <2>1 DEF PlanInv, JobsInv, InGroup, WorkInv, Busy, GroupAt, JobOf, IsLastJob, GroupOf,
                               TwiceInv, OutputInv, Creates, CountInv, Counted, Redelivered
<1>3. CASE checked
  <2>. DEFINE new == [times |-> 0, to |-> AtRest, over |-> FALSE]
  <2>1. /\ position' = NextPosition
        /\ delivered' = [j \in DOMAIN delivered \cup {position} |-> IF j = position THEN new ELSE delivered[j]]
    BY <1>3 DEF dispatchGroups
  <2>2. /\ position \in Nat \X (Nat \ {0}) /\ InGroup(position)
        /\ plan[position[1]].n \in Nat
    BY <1>1 DEF JobsInv, PlanInv
  <2>3. position \notin DOMAIN delivered
    BY <2>2 DEF JobsInv
  <2>4. /\ DOMAIN delivered' = DOMAIN delivered \cup {position}
        /\ \A j \in DOMAIN delivered : delivered'[j] = delivered[j]
        /\ delivered'[position] \in Delivery /\ delivered'[position].times = 0
    BY <2>1, <2>3 DEF Delivery
  <2>5. /\ position' \in Nat \X (Nat \ {0})
        /\ position'[1] \in DOMAIN plan => position'[2] = 1 \/ position'[2] <= plan[position'[1]].n
        /\ position[1] < position'[1] \/ (position[1] = position'[1] /\ position[2] < position'[2])
    <3>1. CASE IsLastJob(position)
      <4>1. position' = <<position[1] + 1, 1>>
        BY <2>1, <3>1 DEF NextPosition
      <4>. QED  BY <2>2, <4>1
    <3>2. CASE ~IsLastJob(position)
      <4>1. position' = <<position[1], position[2] + 1>>
        BY <2>1, <3>2 DEF NextPosition
      <4>2. position[2] < plan[position[1]].n
        BY <2>2, <3>2 DEF IsLastJob, GroupOf
      <4>. QED  BY <2>2, <4>1, <4>2
    <3>. QED  BY <3>1, <3>2
  <2>6. PlanInv'
    <3>1. plan # <<>>
      BY <1>1
    <3>. QED  BY <1>1, <3>1 DEF PlanInv
  <2>7. JobsInv'
    <3>1. ASSUME NEW j \in DOMAIN delivered'
          PROVE  /\ j \in Nat \X (Nat \ {0}) /\ InGroup(j)' /\ delivered'[j] \in Delivery /\ delivered'[j].times \in Nat
                 /\ j[1] < position'[1] \/ (j[1] = position'[1] /\ j[2] < position'[2])
      <4>1. CASE j = position
        BY <1>1, <2>2, <2>4, <2>5, <4>1 DEF InGroup
      <4>2. CASE j \in DOMAIN delivered
        <5>1. /\ j \in Nat \X (Nat \ {0}) /\ InGroup(j) /\ delivered[j] \in Delivery /\ delivered[j].times \in Nat
              /\ j[1] < position[1] \/ (j[1] = position[1] /\ j[2] < position[2])
          BY <4>2 DEF JobsInv
        <5>2. InGroup(j)' /\ delivered'[j] \in Delivery /\ delivered'[j].times \in Nat
          BY <1>1, <2>4, <4>2, <5>1 DEF InGroup
        <5>3. j[1] < position'[1] \/ (j[1] = position'[1] /\ j[2] < position'[2])
          BY <2>2, <2>5, <5>1
        <5>. QED  BY <5>1, <5>2, <5>3
      <4>. QED  BY <2>4, <4>1, <4>2
    <3>2. position'[1] \in DOMAIN plan' => InGroup(position)'
      BY <1>1, <2>5 DEF InGroup
    <3>. QED  BY <2>5, <3>1, <3>2 DEF JobsInv
  <2>8. WorkInv'
    <3>1. groupWork' \in [GroupWorkers -> Work]
      BY <1>1 DEF WorkInv
    <3>2. \A c \in GroupWorkers : Busy(c)' =>
            JobOf(c)' \in DOMAIN delivered' /\ delivered'[JobOf(c)'].times >= 1
      BY <1>1, <2>4 DEF WorkInv, Busy, GroupAt, JobOf
    <3>. QED  BY <1>1, <3>1, <3>2 DEF WorkInv, Busy, GroupAt, JobOf, IsLastJob, GroupOf
  <2>9. TwiceInv'
    <3>1. \A c \in GroupWorkers : Busy(c) => JobOf(c) \in DOMAIN delivered
      BY DEF WorkInv
    <3>. QED  BY <1>1, <2>4, <3>1 DEF TwiceInv, Busy, GroupAt, JobOf
  <2>10. OutputInv'
    BY <1>1 DEF OutputInv, Creates, GroupAt, JobOf
  <2>11. CountInv'
    <3>1. Redelivered => Redelivered'
      BY <2>4 DEF Redelivered
    <3>2. Counted' = Counted
      <4>1. \A j : j \in Counted' <=> j \in Counted
        BY <1>1, <2>3, <2>4 DEF Counted, JobOf, IsLastJob, GroupOf
      <4>. QED  BY <4>1 DEF Counted
    <3>. QED  BY <1>1, <3>1, <3>2 DEF CountInv, GroupAt
  <2>. QED  BY <2>6, <2>7, <2>8, <2>9, <2>10, <2>11
<1>. QED  BY <1>2, <1>3

LEMMA RunPaused ==
  ASSUME RunInv, pauseRun
  PROVE  RunInv'
<1>. USE DEF RunInv
<1>1. /\ UNCHANGED <<plan, position, delivered, groupWork, outputs, overlapped>>
      /\ run' = [run EXCEPT !.status = "paused"]
  BY DEF pauseRun
<1>2. run \in [status : {"none", "running", "paused", "done"}, processed : Nat]
  BY DEF PlanInv
<1>3. run' \in [status : {"none", "running", "paused", "done"}, processed : Nat]
      /\ run'.status = "paused" /\ run'.processed = run.processed
  BY <1>1, <1>2
<1>4. PlanInv'
  BY <1>1, <1>3 DEF PlanInv
<1>5. JobsInv' /\ WorkInv' /\ TwiceInv' /\ OutputInv'
  BY <1>1 DEF JobsInv, InGroup, WorkInv, Busy, GroupAt, JobOf, IsLastJob, GroupOf, TwiceInv, OutputInv, Creates
<1>6. CountInv'
  <2>1. Counted' = Counted /\ Redelivered' = Redelivered
    BY <1>1 DEF Counted, Redelivered, JobOf, IsLastJob, GroupOf
  <2>. QED  BY <1>1, <1>3, <2>1 DEF CountInv, GroupAt
<1>. QED  BY <1>4, <1>5, <1>6

-----------------------------------------------------------------------------
(* The consumers.                                                          *)

\* Jobs of a run of one group are finitely many; those before its last one are
\* fewer than its files.
LEMMA JobsOfOneGroup ==
  ASSUME NEW n \in Nat, NEW S,
         \A j \in S : j \in Nat \X (Nat \ {0}) /\ j[1] = 1 /\ (j[2] = 1 \/ j[2] <= n)
  PROVE  /\ IsFiniteSet(S) /\ Cardinality(S) \in Nat
         /\ (S # {} /\ \A j \in S : j[2] < n) => Cardinality(S) < n
<1>. DEFINE Box(m) == {1} \X (1 .. m)
<1>1. ASSUME NEW m \in Nat
      PROVE  IsFiniteSet(Box(m)) /\ Cardinality(Box(m)) = m
  <2>1. IsFiniteSet(1 .. m) /\ Cardinality(1 .. m) = m
    <3>1. IsFiniteSet(1 .. m) /\ Cardinality(1 .. m) = IF 1 > m THEN 0 ELSE m - 1 + 1
      BY FS_Interval
    <3>. QED  BY <1>1, <3>1
  <2>2. IsFiniteSet({1}) /\ Cardinality({1}) = 1
    BY FS_Singleton
  <2>3. IsFiniteSet({1} \X (1 .. m))
        /\ Cardinality({1} \X (1 .. m)) = Cardinality({1}) * Cardinality(1 .. m)
    BY <2>1, <2>2, FS_Product
  <2>4. Cardinality({1}) * Cardinality(1 .. m) = m
    BY <1>1, <2>1, <2>2
  <2>. QED  BY <2>3, <2>4
<1>2. ASSUME NEW j \in S
      PROVE  j = <<j[1], j[2]>> /\ j[1] = 1 /\ j[2] \in Nat \ {0} /\ (j[2] = 1 \/ j[2] <= n)
  OBVIOUS
<1>3. S \subseteq Box(n + 1)
  <2>. SUFFICES ASSUME NEW j \in S
                PROVE  j \in Box(n + 1)
    OBVIOUS
  <2>1. j[2] \in 1 .. (n + 1)
    BY <1>2
  <2>. QED  BY <1>2, <2>1
<1>4. ASSUME S # {}, \A j \in S : j[2] < n
      PROVE  n - 1 \in Nat /\ S \subseteq Box(n - 1)
  <2>1. n - 1 \in Nat
    BY <1>2, <1>4
  <2>2. ASSUME NEW j \in S
        PROVE  j \in Box(n - 1)
    <3>1. j[2] \in 1 .. (n - 1)
      BY <1>2, <1>4
    <3>. QED  BY <1>2, <3>1
  <2>. QED  BY <2>1, <2>2
<1>. HIDE DEF Box
<1>5. IsFiniteSet(S) /\ Cardinality(S) \in Nat
  <2>1. n + 1 \in Nat
    OBVIOUS
  <2>2. IsFiniteSet(S)
    BY <1>1, <1>3, <2>1, FS_Subset
  <2>. QED  BY <2>2, FS_CardinalityType
<1>6. ASSUME S # {}, \A j \in S : j[2] < n
      PROVE  Cardinality(S) < n
  <2>1. IsFiniteSet(Box(n - 1)) /\ Cardinality(Box(n - 1)) = n - 1 /\ S \subseteq Box(n - 1)
    BY <1>1, <1>4, <1>6
  <2>2. Cardinality(S) <= n - 1
    BY <2>1, FS_Subset
  <2>. QED  BY <1>5, <2>2
<1>. QED  BY <1>5, <1>6

\* Where nothing is counted, CountInv only asks that Counted does not shrink
\* and that no output is taken away.
LEMMA CountStays ==
  ASSUME PlanInv, JobsInv, CountInv, PlanInv', JobsInv', UNCHANGED <<plan, run>>,
         Redelivered => Redelivered',
         DOMAIN plan = {1} => outputs'[1] >= outputs[1],
         DOMAIN plan = {1} /\ ~Redelivered' => Counted \subseteq Counted',
         \A c \in GroupWorkers : GroupAt(c, "finish")' => GroupAt(c, "finish")
  PROVE  CountInv'
<1>. SUFFICES ASSUME DOMAIN plan' = {1}, ~Redelivered'
              PROVE  /\ run'.processed <= Cardinality(Counted')
                     /\ (run'.status = "done" \/ \E c \in GroupWorkers : GroupAt(c, "finish")') => outputs'[1] >= 1
  BY DEF CountInv
<1>1. DOMAIN plan = {1} /\ ~Redelivered /\ Counted \subseteq Counted' /\ run' = run /\ plan' = plan
  OBVIOUS
<1>2. /\ run.processed <= Cardinality(Counted)
      /\ (run.status = "done" \/ \E c \in GroupWorkers : GroupAt(c, "finish")) => outputs[1] >= 1
  BY <1>1 DEF CountInv
<1>3. run.processed \in Nat /\ outputs[1] \in Nat /\ outputs'[1] \in Nat
  BY <1>1 DEF PlanInv
<1>4. IsFiniteSet(Counted') /\ Cardinality(Counted') \in Nat
  <2>1. plan'[1].n \in Nat
    <3>1. \A k \in DOMAIN plan' : plan'[k].n \in Nat
      BY DEF PlanInv
    <3>2. 1 \in DOMAIN plan'
      OBVIOUS
    <3>. QED  BY <3>1, <3>2
  <2>2. \A j \in Counted' : j \in Nat \X (Nat \ {0}) /\ j[1] = 1 /\ (j[2] = 1 \/ j[2] <= plan'[1].n)
    BY DEF JobsInv, InGroup, Counted
  <2>. QED  BY <2>1, <2>2, JobsOfOneGroup
<1>5. Cardinality(Counted) <= Cardinality(Counted') /\ Cardinality(Counted) \in Nat
  BY <1>1, <1>4, FS_Subset, FS_CardinalityType
<1>6. run'.processed <= Cardinality(Counted')
  BY <1>1, <1>2, <1>3, <1>4, <1>5
<1>7. ASSUME run'.status = "done" \/ \E c \in GroupWorkers : GroupAt(c, "finish")'
      PROVE  outputs'[1] >= 1
  <2>1. outputs[1] >= 1
    BY <1>1, <1>2, <1>7
  <2>. QED  BY <1>1, <1>3, <2>1
<1>. QED  BY <1>6, <1>7

\* A step of consumer c on its job: what it must say of where it goes.
LEMMA JobGoesOn ==
  ASSUME PlanInv, JobsInv, WorkInv, TwiceInv,
         NEW c \in GroupWorkers, NEW at, Busy(c), GroupGoto(c, at),
         at \in BeforeCount \cup {"finish", "answered"},
         UNCHANGED <<plan, position, delivered>>,
         outputs' \in [DOMAIN plan -> Nat], \A k \in DOMAIN plan : outputs'[k] >= outputs[k],
         run' \in [status : {"none", "running", "paused", "done"}, processed : Nat],
         at \in OutputStages => IsLastJob(JobOf(c)),
         at = "done" => ~IsLastJob(JobOf(c)),
         at \in {"notify", "count"} => outputs'[JobOf(c)[1]] >= 1
  PROVE  /\ PlanInv' /\ JobsInv' /\ WorkInv' /\ TwiceInv'
         /\ groupWork'[c].at = at /\ \A d \in GroupWorkers \ {c} : groupWork'[d] = groupWork[d]
         /\ \A d \in GroupWorkers : groupWork'[d].job = groupWork[d].job
<1>1. PlanInv' /\ JobsInv'
  BY DEF PlanInv, JobsInv, InGroup
<1>2. groupWork \in [GroupWorkers -> Work]
  BY DEF WorkInv
<1>3. groupWork[c] \in Work /\ [groupWork[c] EXCEPT !.at = at] \in Work
      /\ [groupWork[c] EXCEPT !.at = at].at = at /\ [groupWork[c] EXCEPT !.at = at].job = groupWork[c].job
  BY <1>2 DEF Work
<1>4. groupWork' = [groupWork EXCEPT ![c] = [groupWork[c] EXCEPT !.at = at]]
  BY DEF GroupGoto
<1>5. /\ groupWork' \in [GroupWorkers -> Work]
      /\ groupWork'[c].at = at /\ groupWork'[c].job = groupWork[c].job
      /\ \A d \in GroupWorkers \ {c} : groupWork'[d] = groupWork[d]
  BY <1>2, <1>3, <1>4
<1>6. \A d \in GroupWorkers : groupWork'[d].job = groupWork[d].job
  BY <1>5
<1>7. \A d \in GroupWorkers : groupWork'[d].at # "idle" => groupWork[d].at # "idle"
  BY <1>5 DEF Busy, GroupAt
<1>8. WorkInv'
  <2>1. ASSUME NEW d \in GroupWorkers
        PROVE  Busy(d)' => JobOf(d)' \in DOMAIN delivered' /\ delivered'[JobOf(d)'].times >= 1
    BY <1>6, <1>7 DEF WorkInv, Busy, GroupAt, JobOf
  <2>2. ASSUME NEW d \in GroupWorkers, d # c
        PROVE  /\ groupWork'[d].at \in OutputStages => IsLastJob(JobOf(d))'
               /\ GroupAt(d, "done")' => ~IsLastJob(JobOf(d))'
               /\ groupWork'[d].at \in {"notify", "count"} => outputs'[JobOf(d)'[1]] >= 1
    <3>1. groupWork'[d] = groupWork[d]
      BY <1>5, <2>2
    <3>2. groupWork'[d].at \in OutputStages => IsLastJob(JobOf(d))'
      BY <3>1 DEF WorkInv, JobOf, IsLastJob, GroupOf
    <3>3. GroupAt(d, "done")' => ~IsLastJob(JobOf(d))'
      BY <3>1 DEF WorkInv, JobOf, IsLastJob, GroupOf, GroupAt
    <3>4. ASSUME groupWork'[d].at \in {"notify", "count"}
          PROVE  outputs'[JobOf(d)'[1]] >= 1
      <4>1. Busy(d)
        BY <3>1, <3>4 DEF Busy, GroupAt
      <4>2. JobOf(d) \in DOMAIN delivered /\ outputs[JobOf(d)[1]] >= 1
        BY <3>1, <3>4, <4>1 DEF WorkInv
      <4>3. JobOf(d)[1] \in DOMAIN plan
        BY <4>2 DEF JobsInv, InGroup
      <4>4. outputs[JobOf(d)[1]] \in Nat /\ outputs'[JobOf(d)[1]] \in Nat
            /\ outputs'[JobOf(d)[1]] >= outputs[JobOf(d)[1]]
        BY <4>3 DEF PlanInv
      <4>5. JobOf(d)' = JobOf(d)
        BY <3>1 DEF JobOf
      <4>. QED  BY <4>2, <4>4, <4>5
    <3>. QED  BY <3>2, <3>3, <3>4
  <2>3. /\ groupWork'[c].at \in OutputStages => IsLastJob(JobOf(c))'
        /\ GroupAt(c, "done")' => ~IsLastJob(JobOf(c))'
        /\ groupWork'[c].at \in {"notify", "count"} => outputs'[JobOf(c)'[1]] >= 1
    BY <1>5 DEF JobOf, IsLastJob, GroupOf, GroupAt
  <2>. QED  BY <1>5, <2>1, <2>2, <2>3 DEF WorkInv
<1>9. TwiceInv'
  BY <1>6, <1>7 DEF TwiceInv, Busy, GroupAt, JobOf
<1>. QED  BY <1>1, <1>5, <1>6, <1>8, <1>9

\* Where no output is made and no one comes to make one, they stay right.
LEMMA OutputsStay ==
  ASSUME OutputInv, UNCHANGED <<plan, outputs>>, overlapped \subseteq overlapped',
         \A c \in GroupWorkers, k \in DOMAIN plan :
           (plan[k].source # NoFile /\ k \notin overlapped' /\ Creates(c, k)') => Creates(c, k)
  PROVE  OutputInv'
<1>. SUFFICES ASSUME NEW k \in DOMAIN plan', plan'[k].source # NoFile, k \notin overlapped'
              PROVE  /\ outputs'[k] <= 1
                     /\ \A c \in GroupWorkers : Creates(c, k)' =>
                          outputs'[k] = 0 /\ \A d \in GroupWorkers : Creates(d, k)' => d = c
  BY DEF OutputInv
<1>1. /\ outputs[k] <= 1
      /\ \A c \in GroupWorkers : Creates(c, k) =>
           outputs[k] = 0 /\ \A d \in GroupWorkers : Creates(d, k) => d = c
  BY DEF OutputInv
<1>2. \A c \in GroupWorkers : Creates(c, k)' => Creates(c, k)
  OBVIOUS
<1>3. outputs' = outputs
  OBVIOUS
<1>. QED  BY <1>1, <1>2, <1>3

\* What leaves Counted is a job that a consumer now has before its count.
LEMMA CountedStays ==
  ASSUME PlanInv, JobsInv, PlanInv', UNCHANGED <<plan, delivered>>, DOMAIN plan = {1},
         outputs'[1] >= outputs[1],
         \A c \in GroupWorkers : groupWork'[c].at \in BeforeCount =>
           groupWork[c].at \in BeforeCount /\ groupWork'[c].job = groupWork[c].job
  PROVE  Counted \subseteq Counted'
<1>. SUFFICES ASSUME NEW j \in Counted
              PROVE  j \in Counted'
  OBVIOUS
<1>1. j \in DOMAIN delivered' /\ delivered'[j].times >= 1
  BY DEF Counted
<1>2. \A c \in GroupWorkers : groupWork'[c].at \in BeforeCount => groupWork'[c].job # j
  BY DEF Counted, JobOf
<1>3. outputs[1] \in Nat /\ outputs'[1] \in Nat
  BY DEF PlanInv
<1>4. IsLastJob(j) => outputs[1] >= 1
  BY DEF Counted
<1>5. IsLastJob(j)' => outputs'[1] >= 1
  BY <1>3, <1>4 DEF IsLastJob, GroupOf
<1>. QED  BY <1>1, <1>2, <1>5 DEF Counted, JobOf

\* A job is delivered: it was not counted before, and is not yet.
LEMMA JobDelivered ==
  ASSUME RunInv, NEW c \in GroupWorkers, Deliver(c)
  PROVE  RunInv'
<1>. USE DEF RunInv
<1>1. PICK j \in DOMAIN delivered :
        /\ delivered' = [delivered EXCEPT ![j] = [times |-> delivered[j].times + 1, to |-> c, over |-> FALSE]]
        /\ groupWork' = [groupWork EXCEPT ![c] = [job |-> j, at |-> IF IsLastJob(j) THEN "files" ELSE "done"]]
  BY DEF Deliver
<1>2. UNCHANGED <<plan, position, run, outputs, overlapped>> /\ groupWork[c].at = "idle"
  BY DEF Deliver, GroupAt
<1>. DEFINE at == IF IsLastJob(j) THEN "files" ELSE "done"
<1>3. j \in Nat \X (Nat \ {0}) /\ InGroup(j) /\ delivered[j].times \in Nat
  BY DEF JobsInv
<1>4. /\ DOMAIN delivered' = DOMAIN delivered
      /\ delivered'[j].times = delivered[j].times + 1
      /\ delivered'[j] \in Delivery
      /\ \A i \in DOMAIN delivered : i # j => delivered'[i] = delivered[i]
  <2>1. delivered[j].times + 1 \in Nat
    BY <1>3
  <2>2. [times |-> delivered[j].times + 1, to |-> c, over |-> FALSE] \in Delivery
    BY <2>1 DEF Delivery
  <2>. QED  BY <1>1, <2>2
<1>5. \A i \in DOMAIN delivered : delivered'[i].times \in Nat /\ delivered'[i].times >= delivered[i].times
  <2>. TAKE i \in DOMAIN delivered
  <2>1. delivered[i].times \in Nat
    BY DEF JobsInv
  <2>. QED  BY <1>3, <1>4, <2>1
<1>6. at \in {"files", "done"} /\ (at = "files" => IsLastJob(j)) /\ (at = "done" => ~IsLastJob(j))
  OBVIOUS
<1>. HIDE DEF at
<1>7. [job |-> j, at |-> at] \in Work
  BY <1>3, <1>6 DEF Work, BeforeCount, OutputStages
<1>8. groupWork \in [GroupWorkers -> Work]
  BY DEF WorkInv
<1>9. /\ groupWork' \in [GroupWorkers -> Work]
      /\ groupWork'[c].job = j /\ groupWork'[c].at = at
      /\ \A d \in GroupWorkers \ {c} : groupWork'[d] = groupWork[d]
  BY <1>1, <1>7, <1>8 DEF at
<1>10. PlanInv' /\ JobsInv'
  <2>1. PlanInv'
    BY <1>2 DEF PlanInv
  <2>2. ASSUME NEW i \in DOMAIN delivered'
        PROVE  /\ i \in Nat \X (Nat \ {0}) /\ InGroup(i)' /\ delivered'[i] \in Delivery /\ delivered'[i].times \in Nat
               /\ i[1] < position'[1] \/ (i[1] = position'[1] /\ i[2] < position'[2])
    BY <1>2, <1>4, <1>5 DEF JobsInv, InGroup
  <2>. QED  BY <1>2, <2>1, <2>2 DEF JobsInv, InGroup
<1>11. WorkInv'
  <2>1. ASSUME NEW d \in GroupWorkers, d # c
        PROVE  /\ Busy(d)' => JobOf(d)' \in DOMAIN delivered' /\ delivered'[JobOf(d)'].times >= 1
               /\ groupWork'[d].at \in OutputStages => IsLastJob(JobOf(d))'
               /\ GroupAt(d, "done")' => ~IsLastJob(JobOf(d))'
               /\ groupWork'[d].at \in {"notify", "count"} => outputs'[JobOf(d)'[1]] >= 1
    <3>1. groupWork'[d] = groupWork[d]
      BY <1>9, <2>1
    <3>2. ASSUME groupWork[d].at # "idle"
          PROVE  groupWork[d].job \in DOMAIN delivered' /\ delivered'[groupWork[d].job].times >= 1
      <4>1. groupWork[d].job \in DOMAIN delivered /\ delivered[groupWork[d].job].times >= 1
        BY <3>2 DEF WorkInv, Busy, GroupAt, JobOf
      <4>2. delivered[groupWork[d].job].times \in Nat
        BY <4>1 DEF JobsInv
      <4>. QED  BY <1>4, <1>5, <4>1, <4>2
    <3>3. Busy(d)' => JobOf(d)' \in DOMAIN delivered' /\ delivered'[JobOf(d)'].times >= 1
      BY <3>1, <3>2 DEF Busy, GroupAt, JobOf
    <3>4. /\ groupWork'[d].at \in OutputStages => IsLastJob(JobOf(d))'
          /\ GroupAt(d, "done")' => ~IsLastJob(JobOf(d))'
          /\ groupWork'[d].at \in {"notify", "count"} => outputs'[JobOf(d)'[1]] >= 1
      BY <1>2, <3>1 DEF WorkInv, JobOf, IsLastJob, GroupOf, GroupAt
    <3>. QED  BY <3>3, <3>4
  <2>2. /\ JobOf(c)' \in DOMAIN delivered' /\ delivered'[JobOf(c)'].times >= 1
        /\ groupWork'[c].at \in OutputStages => IsLastJob(JobOf(c))'
        /\ GroupAt(c, "done")' => ~IsLastJob(JobOf(c))'
        /\ ~(groupWork'[c].at \in {"notify", "count"})
    <3>1. delivered'[j].times >= 1
      BY <1>3, <1>4
    <3>2. JobOf(c)' = j
      BY <1>9 DEF JobOf
    <3>. QED  BY <1>2, <1>4, <1>6, <1>9, <3>1, <3>2 DEF IsLastJob, GroupOf, GroupAt, OutputStages
  <2>. QED  BY <1>9, <2>1, <2>2 DEF WorkInv
<1>12. TwiceInv'
  <2>1. ASSUME NEW d \in GroupWorkers, d # c, Busy(d)', groupWork'[d].job = j
        PROVE  delivered'[j].times >= 2
    <3>1. delivered[j].times >= 1
      BY <1>9, <2>1 DEF WorkInv, Busy, GroupAt, JobOf
    <3>. QED  BY <1>3, <1>4, <3>1
  <2>2. ASSUME NEW d \in GroupWorkers, NEW e \in GroupWorkers, d # c, e # c, d # e, Busy(d)', Busy(e)',
               groupWork'[d].job = groupWork'[e].job
        PROVE  delivered'[groupWork'[d].job].times >= 2
    <3>1. groupWork'[d] = groupWork[d] /\ groupWork'[e] = groupWork[e]
      BY <1>9, <2>2
    <3>2. Busy(d) /\ Busy(e) /\ JobOf(d) = JobOf(e)
      BY <2>2, <3>1 DEF Busy, GroupAt, JobOf
    <3>3. delivered[JobOf(d)].times >= 2 /\ JobOf(d) \in DOMAIN delivered
      BY <2>2, <3>2 DEF TwiceInv, WorkInv
    <3>4. delivered[JobOf(d)].times \in Nat
      BY <3>3 DEF JobsInv
    <3>5. groupWork'[d].job = JobOf(d)
      BY <3>1 DEF JobOf
    <3>. QED  BY <1>5, <3>3, <3>4, <3>5
  <2>. QED  BY <1>9, <2>1, <2>2 DEF TwiceInv, JobOf
<1>13. OutputInv'
  <2>1. \A d \in GroupWorkers, k \in DOMAIN plan : Creates(d, k)' => Creates(d, k)
    BY <1>6, <1>9 DEF Creates, GroupAt, JobOf
  <2>. QED  BY <1>2, <2>1, OutputsStay
<1>14. CountInv'
  <2>1. Redelivered => Redelivered'
    <3>. SUFFICES ASSUME NEW i \in DOMAIN delivered, delivered[i].times > 1
                  PROVE  Redelivered'
      BY DEF Redelivered
    <3>1. delivered[i].times \in Nat
      BY DEF JobsInv
    <3>2. delivered'[i].times > 1
      BY <1>5, <3>1
    <3>. QED  BY <1>4, <3>2 DEF Redelivered
  <2>2. ASSUME ~Redelivered'
        PROVE  Counted \subseteq Counted'
    <3>. SUFFICES ASSUME NEW i \in Counted
                  PROVE  i \in Counted'
      OBVIOUS
    <3>1. delivered'[j].times <= 1
      BY <1>4, <1>5, <2>2 DEF Redelivered
    <3>2. ~(delivered[j].times >= 1)
      BY <1>3, <1>4, <3>1
    <3>3. i # j /\ i \in DOMAIN delivered
      BY <3>2 DEF Counted
    <3>4. i \in DOMAIN delivered' /\ delivered'[i].times >= 1
      BY <1>4, <3>3 DEF Counted
    <3>5. \A d \in GroupWorkers : groupWork'[d].at \in BeforeCount => groupWork'[d].job # i
      BY <1>9, <3>3 DEF Counted, JobOf
    <3>6. IsLastJob(i)' => outputs'[1] >= 1
      BY <1>2 DEF Counted, IsLastJob, GroupOf
    <3>. QED  BY <3>4, <3>5, <3>6 DEF Counted, JobOf
  <2>3. \A d \in GroupWorkers : GroupAt(d, "finish")' => GroupAt(d, "finish")
    BY <1>6, <1>9 DEF GroupAt
  <2>4. DOMAIN plan = {1} => outputs'[1] >= outputs[1]
    BY <1>2 DEF PlanInv
  <2>. QED  BY <1>2, <1>10, <2>1, <2>2, <2>3, <2>4, CountStays
<1>. QED  BY <1>10, <1>11, <1>12, <1>13, <1>14

\* A consumer ends its job, or is gone before its answer or its call.
LEMMA JobLeft ==
  ASSUME RunInv, NEW c \in GroupWorkers, completeGroupJob(c) \/ LoseConsumer(c)
  PROVE  RunInv'
<1>. USE DEF RunInv
<1>1. UNCHANGED <<plan, position, run, outputs, overlapped>> /\ groupWork' = [groupWork EXCEPT ![c] = AtRest]
      /\ groupWork[c].at \in {"done", "files", "answered"}
  BY DEF completeGroupJob, LoseConsumer, GroupAt
<1>2. groupWork \in [GroupWorkers -> Work] /\ AtRest \in Work
  BY DEF WorkInv, AtRest, NoJobYet, Work
<1>3. /\ groupWork' \in [GroupWorkers -> Work] /\ groupWork'[c].at = "idle"
      /\ \A d \in GroupWorkers \ {c} : groupWork'[d] = groupWork[d]
  <2>1. AtRest.at = "idle"
    BY DEF AtRest
  <2>. HIDE DEF AtRest
  <2>. QED  BY <1>1, <1>2, <2>1
<1>4. /\ DOMAIN delivered' = DOMAIN delivered
      /\ \A i \in DOMAIN delivered : delivered'[i] \in Delivery /\ delivered'[i].times = delivered[i].times
  <2>1. \A i \in DOMAIN delivered : delivered[i] \in Delivery
    BY DEF JobsInv
  <2>2. \/ delivered' = delivered
        \/ delivered' = [delivered EXCEPT ![JobOf(c)].over = TRUE]
    <3>1. CASE completeGroupJob(c)
      BY <3>1 DEF completeGroupJob
    <3>2. CASE LoseConsumer(c)
      BY <3>2 DEF LoseConsumer
    <3>. QED  BY <3>1, <3>2
  <2>3. ASSUME NEW i \in DOMAIN delivered
        PROVE  [delivered[i] EXCEPT !.over = TRUE] \in Delivery
               /\ [delivered[i] EXCEPT !.over = TRUE].times = delivered[i].times
    BY <2>1 DEF Delivery
  <2>. QED  BY <2>1, <2>2, <2>3
<1>5. PlanInv' /\ JobsInv'
  <2>1. PlanInv'
    BY <1>1 DEF PlanInv
  <2>2. ASSUME NEW i \in DOMAIN delivered'
        PROVE  /\ i \in Nat \X (Nat \ {0}) /\ InGroup(i)' /\ delivered'[i] \in Delivery /\ delivered'[i].times \in Nat
               /\ i[1] < position'[1] \/ (i[1] = position'[1] /\ i[2] < position'[2])
    BY <1>1, <1>4 DEF JobsInv, InGroup
  <2>. QED  BY <1>1, <2>1, <2>2 DEF JobsInv, InGroup
<1>6. \A d \in GroupWorkers : groupWork'[d].at # "idle" => groupWork'[d] = groupWork[d]
  BY <1>3
<1>7. WorkInv'
  <2>1. ASSUME NEW d \in GroupWorkers
        PROVE  /\ Busy(d)' => JobOf(d)' \in DOMAIN delivered' /\ delivered'[JobOf(d)'].times >= 1
               /\ groupWork'[d].at \in OutputStages => IsLastJob(JobOf(d))'
               /\ GroupAt(d, "done")' => ~IsLastJob(JobOf(d))'
               /\ groupWork'[d].at \in {"notify", "count"} => outputs'[JobOf(d)'[1]] >= 1
    <3>1. CASE d = c
      BY <1>3, <3>1 DEF Busy, GroupAt, OutputStages
    <3>2. CASE d # c
      BY <1>1, <1>3, <1>4, <3>2 DEF WorkInv, Busy, GroupAt, JobOf, IsLastJob, GroupOf
    <3>. QED  BY <3>1, <3>2
  <2>. QED  BY <1>3, <2>1 DEF WorkInv
<1>8. TwiceInv'
  <2>1. \A d \in GroupWorkers : Busy(d)' => Busy(d) /\ JobOf(d)' = JobOf(d) /\ JobOf(d) \in DOMAIN delivered
    BY <1>6 DEF WorkInv, Busy, GroupAt, JobOf
  <2>. QED  BY <1>4, <2>1 DEF TwiceInv
<1>9. OutputInv'
  <2>1. \A d \in GroupWorkers, k \in DOMAIN plan : Creates(d, k)' => Creates(d, k)
    BY <1>6 DEF Creates, GroupAt, JobOf
  <2>. QED  BY <1>1, <2>1, OutputsStay
<1>10. CountInv'
  <2>1. Redelivered => Redelivered'
    BY <1>4 DEF Redelivered
  <2>2. Counted \subseteq Counted'
    <3>. SUFFICES ASSUME NEW i \in Counted
                  PROVE  i \in Counted'
      OBVIOUS
    <3>1. i \in DOMAIN delivered' /\ delivered'[i].times >= 1
      BY <1>4 DEF Counted
    <3>2. \A d \in GroupWorkers : groupWork'[d].at \in BeforeCount => groupWork'[d].job # i
      BY <1>6 DEF Counted, JobOf, BeforeCount, OutputStages
    <3>3. IsLastJob(i)' => outputs'[1] >= 1
      BY <1>1 DEF Counted, IsLastJob, GroupOf
    <3>. QED  BY <3>1, <3>2, <3>3 DEF Counted, JobOf
  <2>3. \A d \in GroupWorkers : GroupAt(d, "finish")' => GroupAt(d, "finish")
    BY <1>6 DEF GroupAt
  <2>4. DOMAIN plan = {1} => outputs'[1] >= outputs[1]
    BY <1>1 DEF PlanInv
  <2>. QED  BY <1>1, <1>5, <2>1, <2>2, <2>3, <2>4, CountStays
<1>. QED  BY <1>5, <1>7, <1>8, <1>9, <1>10

\* A step that counts no input and makes no output: it goes on.
LEMMA StepTaken ==
  ASSUME RunInv, NEW c \in GroupWorkers, NEW at, Busy(c), GroupGoto(c, at), at \in BeforeCount \cup {"answered"},
         UNCHANGED <<plan, position, delivered, run, outputs>>, overlapped \subseteq overlapped',
         at \in BeforeCount => groupWork[c].at \in BeforeCount,
         at \in OutputStages => IsLastJob(JobOf(c)),
         at # "done", at \in {"notify", "count"} => outputs[JobOf(c)[1]] >= 1,
         OutputInv'
  PROVE  RunInv'
<1>. USE DEF RunInv
<1>1. outputs' \in [DOMAIN plan -> Nat] /\ \A k \in DOMAIN plan : outputs'[k] >= outputs[k]
  BY DEF PlanInv
<1>2. run' \in [status : {"none", "running", "paused", "done"}, processed : Nat]
  BY DEF PlanInv
<1>3. at \in BeforeCount \cup {"finish", "answered"}
  OBVIOUS
<1>4. at \in {"notify", "count"} => outputs'[JobOf(c)[1]] >= 1
  OBVIOUS
<1>5. /\ PlanInv' /\ JobsInv' /\ WorkInv' /\ TwiceInv'
      /\ groupWork'[c].at = at /\ \A d \in GroupWorkers \ {c} : groupWork'[d] = groupWork[d]
      /\ \A d \in GroupWorkers : groupWork'[d].job = groupWork[d].job
  BY <1>1, <1>2, <1>3, <1>4, JobGoesOn
<1>6. \A d \in GroupWorkers : groupWork'[d].at \in BeforeCount =>
        groupWork[d].at \in BeforeCount /\ groupWork'[d].job = groupWork[d].job
  BY <1>5
<1>7. DOMAIN plan = {1} /\ ~Redelivered' => Counted \subseteq Counted'
  <2>1. ASSUME DOMAIN plan = {1}
        PROVE  Counted \subseteq Counted'
    <3>1. outputs'[1] >= outputs[1]
      BY <1>1, <2>1
    <3>. QED  BY <1>5, <1>6, <2>1, <3>1, CountedStays
  <2>. QED  BY <2>1
<1>8. \A d \in GroupWorkers : GroupAt(d, "finish")' => GroupAt(d, "finish")
  BY <1>5 DEF GroupAt, BeforeCount, OutputStages
<1>9. Redelivered => Redelivered'
  BY DEF Redelivered
<1>10. DOMAIN plan = {1} => outputs'[1] >= outputs[1]
  BY <1>1
<1>11. CountInv'
  BY <1>5, <1>7, <1>8, <1>9, <1>10, CountStays
<1>. QED  BY <1>5, <1>11

\* handleOutput: a stopped run takes no output; only a group without a source
\* comes to its output without the guard.
LEMMA OutputChecked ==
  ASSUME RunInv, NEW c \in GroupWorkers, outputCheck(c)
  PROVE  RunInv'
<1>. DEFINE at == IF run.status \in GroupRunStopped THEN "answered"
                  ELSE IF GroupAtWork(c).source = NoFile THEN "create" ELSE "guard"
<1>1. /\ groupWork[c].at = "files" /\ GroupGoto(c, at)
      /\ UNCHANGED <<plan, position, delivered, run, outputs, overlapped>>
  BY DEF outputCheck, GroupAt
<1>2. at \in {"answered", "create", "guard"} /\ (at = "create" => plan[JobOf(c)[1]].source = NoFile)
  BY DEF GroupAtWork, GroupOf
<1>. HIDE DEF at
<1>3. Busy(c) /\ IsLastJob(JobOf(c))
  BY <1>1 DEF RunInv, WorkInv, Busy, GroupAt, OutputStages
<1>4. groupWork' = [groupWork EXCEPT ![c].at = at] /\ groupWork \in [GroupWorkers -> Work]
  BY <1>1 DEF GroupGoto, RunInv, WorkInv
<1>5. groupWork'[c].at = at /\ groupWork'[c].job = groupWork[c].job
      /\ \A d \in GroupWorkers \ {c} : groupWork'[d] = groupWork[d]
  BY <1>4 DEF Work
<1>6. \A d \in GroupWorkers, k \in DOMAIN plan :
        (plan[k].source # NoFile /\ k \notin overlapped' /\ Creates(d, k)') => Creates(d, k)
  BY <1>2, <1>5 DEF Creates, GroupAt, JobOf
<1>7. OutputInv'
  BY <1>1, <1>6, OutputsStay DEF RunInv
<1>8. at \in BeforeCount \cup {"answered"} /\ at # "done" /\ ~(at \in {"notify", "count"})
      /\ groupWork[c].at \in BeforeCount
  BY <1>1, <1>2 DEF BeforeCount, OutputStages
<1>. QED  BY <1>1, <1>3, <1>7, <1>8, StepTaken

\* The last job of a group is one.
LEMMA LastJobsAgree ==
  ASSUME RunInv, NEW c \in GroupWorkers, NEW d \in GroupWorkers, Busy(c), Busy(d),
         IsLastJob(JobOf(c)), IsLastJob(JobOf(d)), JobOf(c)[1] = JobOf(d)[1]
  PROVE  JobOf(c) = JobOf(d)
<1>1. JobOf(c) \in DOMAIN delivered /\ JobOf(d) \in DOMAIN delivered
  BY DEF RunInv, WorkInv
<1>2. ASSUME NEW j \in DOMAIN delivered, IsLastJob(j)
      PROVE  /\ j = <<j[1], j[2]>> /\ j[2] \in Nat \ {0} /\ plan[j[1]].n \in Nat
             /\ j[2] = 1 \/ j[2] <= plan[j[1]].n
             /\ j[2] >= plan[j[1]].n
  BY <1>2 DEF RunInv, JobsInv, InGroup, PlanInv, IsLastJob, GroupOf
<1>3. JobOf(c)[2] = JobOf(d)[2]
  <2>. DEFINE n == plan[JobOf(c)[1]].n
  <2>1. /\ JobOf(c)[2] \in Nat \ {0} /\ JobOf(d)[2] \in Nat \ {0} /\ n \in Nat
        /\ JobOf(c)[2] = 1 \/ JobOf(c)[2] <= n
        /\ JobOf(d)[2] = 1 \/ JobOf(d)[2] <= n
        /\ JobOf(c)[2] >= n /\ JobOf(d)[2] >= n
    BY <1>1, <1>2
  <2>. HIDE DEF n
  <2>. QED  BY <2>1
<1>. QED  BY <1>1, <1>2, <1>3

\* The guard: whoever passes it is the only one about to create the output.
LEMMA OutputGuarded ==
  ASSUME RunInv, NEW c \in GroupWorkers, outputGuard(c)
  PROVE  RunInv'
<1>. DEFINE at == IF OutputFor(c) THEN "answered" ELSE "create"
<1>1. /\ groupWork[c].at = "guard" /\ GroupGoto(c, at)
      /\ overlapped' = overlapped \cup
           {JobOf(d)[1] : d \in {x \in GroupWorkers \ {c} : GroupAt(x, "create") /\ JobOf(x) = JobOf(c)}}
      /\ UNCHANGED <<plan, position, delivered, run, outputs>>
  BY DEF outputGuard, GroupAt
<1>2. at \in {"answered", "create"} /\ (at = "create" => ~(outputs[JobOf(c)[1]] > 0))
  BY DEF OutputFor
<1>. HIDE DEF at
<1>3. Busy(c) /\ IsLastJob(JobOf(c))
  BY <1>1 DEF RunInv, WorkInv, Busy, GroupAt, OutputStages
<1>4. groupWork' = [groupWork EXCEPT ![c].at = at] /\ groupWork \in [GroupWorkers -> Work]
  BY <1>1 DEF GroupGoto, RunInv, WorkInv
<1>5. groupWork'[c].at = at /\ groupWork'[c].job = groupWork[c].job
      /\ \A d \in GroupWorkers \ {c} : groupWork'[d] = groupWork[d]
  BY <1>4 DEF Work
<1>6. \A d \in GroupWorkers \ {c} : GroupAt(d, "create") /\ JobOf(d)[1] = JobOf(c)[1] => JobOf(c)[1] \in overlapped'
  <2>. SUFFICES ASSUME NEW d \in GroupWorkers \ {c}, GroupAt(d, "create"), JobOf(d)[1] = JobOf(c)[1]
                PROVE  JobOf(c)[1] \in overlapped'
    OBVIOUS
  <2>1. Busy(d) /\ IsLastJob(JobOf(d))
    BY DEF RunInv, WorkInv, Busy, GroupAt, OutputStages
  <2>2. JobOf(d) = JobOf(c)
    BY <1>3, <2>1, LastJobsAgree
  <2>. QED  BY <1>1, <2>2
<1>7. \A d \in GroupWorkers, k \in DOMAIN plan : d # c => (Creates(d, k)' <=> Creates(d, k))
  BY <1>5 DEF Creates, GroupAt, JobOf
<1>8. OutputInv'
  <2>. SUFFICES ASSUME NEW k \in DOMAIN plan, plan[k].source # NoFile, k \notin overlapped'
                PROVE  /\ outputs[k] <= 1
                       /\ \A d \in GroupWorkers : Creates(d, k)' =>
                            outputs[k] = 0 /\ \A e \in GroupWorkers : Creates(e, k)' => e = d
    BY <1>1 DEF OutputInv
  <2>1. /\ outputs[k] <= 1
        /\ \A d \in GroupWorkers : Creates(d, k) =>
             outputs[k] = 0 /\ \A e \in GroupWorkers : Creates(e, k) => e = d
    BY <1>1 DEF RunInv, OutputInv
  <2>2. CASE Creates(c, k)'
    <3>1. at = "create" /\ JobOf(c)[1] = k
      BY <1>5, <2>2 DEF Creates, GroupAt, JobOf
    <3>2. outputs[k] \in Nat
      BY DEF RunInv, PlanInv
    <3>3. outputs[k] = 0
      BY <1>2, <3>1, <3>2
    <3>4. \A d \in GroupWorkers : d # c => ~Creates(d, k)'
      BY <1>6, <1>7, <3>1 DEF Creates
    <3>. QED  BY <2>1, <3>3, <3>4
  <2>3. CASE ~Creates(c, k)'
    <3>1. \A d \in GroupWorkers : Creates(d, k)' => Creates(d, k)
      BY <1>7, <2>3
    <3>. QED  BY <2>1, <3>1
  <2>. QED  BY <2>2, <2>3
<1>9. at \in BeforeCount \cup {"answered"} /\ at # "done" /\ ~(at \in {"notify", "count"})
      /\ groupWork[c].at \in BeforeCount
  BY <1>1, <1>2 DEF BeforeCount, OutputStages
<1>. QED  BY <1>1, <1>3, <1>8, <1>9, StepTaken

\* The output is created: the first of its group, or two met.
LEMMA OutputCreated ==
  ASSUME RunInv, NEW c \in GroupWorkers, createOutput(c)
  PROVE  RunInv'
<1>. USE DEF RunInv
<1>. DEFINE g == JobOf(c)[1]
<1>1. /\ groupWork[c].at = "create" /\ GroupGoto(c, "notify")
      /\ outputs' = [outputs EXCEPT ![g] = outputs[g] + 1]
      /\ UNCHANGED <<plan, position, delivered, run, overlapped>>
  BY DEF createOutput, GroupAt
<1>2. Busy(c) /\ IsLastJob(JobOf(c)) /\ JobOf(c) \in DOMAIN delivered
  BY <1>1 DEF WorkInv, Busy, GroupAt, OutputStages
<1>3. g \in DOMAIN plan
  BY <1>2 DEF JobsInv, InGroup
<1>. HIDE DEF g
<1>4. outputs \in [DOMAIN plan -> Nat] /\ outputs[g] \in Nat
  BY <1>3 DEF PlanInv
<1>5. /\ outputs' \in [DOMAIN plan -> Nat] /\ outputs'[g] = outputs[g] + 1
      /\ \A k \in DOMAIN plan : k # g => outputs'[k] = outputs[k]
  BY <1>1, <1>3, <1>4
<1>6. \A k \in DOMAIN plan : outputs'[k] >= outputs[k] /\ outputs[k] \in Nat /\ outputs'[k] \in Nat
  BY <1>4, <1>5
<1>7. outputs'[g] >= 1
  BY <1>4, <1>5
<1>8. run' \in [status : {"none", "running", "paused", "done"}, processed : Nat]
  BY <1>1 DEF PlanInv
<1>9. /\ PlanInv' /\ JobsInv' /\ WorkInv' /\ TwiceInv'
      /\ groupWork'[c].at = "notify" /\ \A d \in GroupWorkers \ {c} : groupWork'[d] = groupWork[d]
      /\ \A d \in GroupWorkers : groupWork'[d].job = groupWork[d].job
  <2>1. "notify" \in BeforeCount \cup {"finish", "answered"} /\ "notify" # "done"
    BY DEF BeforeCount, OutputStages
  <2>2. outputs'[JobOf(c)[1]] >= 1
    BY <1>7 DEF g
  <2>. QED  BY <1>1, <1>2, <1>5, <1>6, <1>8, <2>1, <2>2, JobGoesOn
<1>10. OutputInv'
  <2>. SUFFICES ASSUME NEW k \in DOMAIN plan, plan[k].source # NoFile, k \notin overlapped
                PROVE  /\ outputs'[k] <= 1
                       /\ \A d \in GroupWorkers : Creates(d, k)' =>
                            outputs'[k] = 0 /\ \A e \in GroupWorkers : Creates(e, k)' => e = d
    BY <1>1 DEF OutputInv
  <2>1. /\ outputs[k] <= 1
        /\ \A d \in GroupWorkers : Creates(d, k) =>
             outputs[k] = 0 /\ \A e \in GroupWorkers : Creates(e, k) => e = d
    BY DEF OutputInv
  <2>2. \A d \in GroupWorkers : Creates(d, k)' => Creates(d, k) /\ d # c
    BY <1>9 DEF Creates, GroupAt, JobOf
  <2>3. CASE k = g
    <3>1. Creates(c, k)
      BY <1>1, <2>3 DEF Creates, GroupAt, g
    <3>2. outputs[k] = 0 /\ \A d \in GroupWorkers : ~Creates(d, k)'
      BY <2>1, <2>2, <3>1
    <3>. QED  BY <1>5, <2>3, <3>2
  <2>4. CASE k # g
    <3>1. outputs'[k] = outputs[k]
      BY <1>5, <2>4
    <3>. QED  BY <2>1, <2>2, <3>1
  <2>. QED  BY <2>3, <2>4
<1>11. CountInv'
  <2>1. \A d \in GroupWorkers : groupWork'[d].at \in BeforeCount =>
          groupWork[d].at \in BeforeCount /\ groupWork'[d].job = groupWork[d].job
    BY <1>1, <1>9 DEF BeforeCount, OutputStages
  <2>2. ASSUME DOMAIN plan = {1}
        PROVE  Counted \subseteq Counted' /\ outputs'[1] >= outputs[1]
    <3>1. outputs'[1] >= outputs[1]
      BY <1>6, <2>2
    <3>. QED  BY <1>1, <1>9, <2>1, <2>2, <3>1, CountedStays
  <2>3. \A d \in GroupWorkers : GroupAt(d, "finish")' => GroupAt(d, "finish")
    BY <1>9 DEF GroupAt
  <2>4. Redelivered => Redelivered'
    BY <1>1 DEF Redelivered
  <2>. QED  BY <1>1, <1>9, <2>2, <2>3, <2>4, CountStays
<1>. QED  BY <1>9, <1>10, <1>11

\* A count that is not the last one, or comes to the end: the job was not
\* among the counted ones and now is.
LEMMA InputCounted ==
  ASSUME RunInv, NEW c \in GroupWorkers, NEW at \in {"finish", "answered"}, Count(c, at),
         groupWork[c].at \in {"done", "count"},
         at = "finish" =>
           groupWork[c].at = "count" \/ run.processed + 1 >= plan[JobOf(c)[1]].n
  PROVE  RunInv'
<1>. USE DEF RunInv
<1>1. /\ run' = [run EXCEPT !.processed = run.processed + 1] /\ GroupGoto(c, at)
      /\ UNCHANGED <<plan, position, delivered, outputs, overlapped>>
  BY DEF Count
<1>2. Busy(c) /\ JobOf(c) \in DOMAIN delivered /\ delivered[JobOf(c)].times >= 1
  BY DEF WorkInv, Busy, GroupAt
<1>3. outputs' \in [DOMAIN plan -> Nat] /\ \A k \in DOMAIN plan : outputs'[k] >= outputs[k]
  BY <1>1 DEF PlanInv
<1>4. /\ run' \in [status : {"none", "running", "paused", "done"}, processed : Nat]
      /\ run'.status = run.status /\ run'.processed = run.processed + 1 /\ run.processed \in Nat
  <2>1. run \in [status : {"none", "running", "paused", "done"}, processed : Nat]
    BY DEF PlanInv
  <2>. QED  BY <1>1, <2>1
<1>5. /\ PlanInv' /\ JobsInv' /\ WorkInv' /\ TwiceInv'
      /\ groupWork'[c].at = at /\ \A d \in GroupWorkers \ {c} : groupWork'[d] = groupWork[d]
      /\ \A d \in GroupWorkers : groupWork'[d].job = groupWork[d].job
  <2>1. at \in BeforeCount \cup {"finish", "answered"} /\ at # "done" /\ at \notin OutputStages
        /\ at \notin {"notify", "count"}
    BY DEF BeforeCount, OutputStages
  <2>. QED  BY <1>1, <1>2, <1>3, <1>4, <2>1, JobGoesOn
<1>6. OutputInv'
  <2>1. \A d \in GroupWorkers, k \in DOMAIN plan : Creates(d, k)' => Creates(d, k)
    BY <1>5 DEF Creates, GroupAt, JobOf
  <2>. QED  BY <1>1, <2>1, OutputsStay
<1>7. CountInv'
  <2>. SUFFICES ASSUME DOMAIN plan = {1}, ~Redelivered
                PROVE  /\ run'.processed <= Cardinality(Counted')
                       /\ (run'.status = "done" \/ \E d \in GroupWorkers : GroupAt(d, "finish")') => outputs[1] >= 1
    BY <1>1 DEF CountInv, Redelivered
  <2>. DEFINE n == plan[1].n
  <2>. PICK j : j = JobOf(c)
    OBVIOUS
  <2>1. n \in Nat /\ outputs[1] \in Nat
    BY DEF PlanInv
  <2>2. \A i \in DOMAIN delivered :
          i \in Nat \X (Nat \ {0}) /\ i[1] = 1 /\ (i[2] = 1 \/ i[2] <= n) /\ (IsLastJob(i) <=> i[2] >= n)
    BY DEF JobsInv, InGroup, IsLastJob, GroupOf
  <2>. HIDE DEF n
  <2>3. j \notin Counted
    BY DEF Counted, BeforeCount, OutputStages
  <2>4. IsLastJob(j) => outputs[1] >= 1
    <3>1. groupWork[c].at = "done" => ~IsLastJob(j)
      BY DEF WorkInv, GroupAt
    <3>2. groupWork[c].at = "count" => outputs[j[1]] >= 1
      BY DEF WorkInv
    <3>3. j[1] = 1
      BY <1>2, <2>2
    <3>. QED  BY <3>1, <3>2, <3>3
  <2>5. \A d \in GroupWorkers \ {c} : Busy(d) => JobOf(d) # j
    <3>. SUFFICES ASSUME NEW d \in GroupWorkers \ {c}, Busy(d), JobOf(d) = j
                  PROVE  FALSE
      OBVIOUS
    <3>1. delivered[j].times >= 2
      BY <1>2 DEF TwiceInv
    <3>2. delivered[j].times \in Nat /\ ~(delivered[j].times > 1)
      BY <1>2 DEF JobsInv, Redelivered
    <3>. QED  BY <3>1, <3>2
  <2>6. Counted \cup {j} \subseteq Counted'
    <3>1. j \in Counted'
      <4>1. \A d \in GroupWorkers : groupWork'[d].at \in BeforeCount => groupWork'[d].job # j
        <5>. SUFFICES ASSUME NEW d \in GroupWorkers, groupWork'[d].at \in BeforeCount
                      PROVE  groupWork'[d].job # j
          OBVIOUS
        <5>1. d # c
          BY <1>5 DEF BeforeCount, OutputStages
        <5>2. groupWork'[d] = groupWork[d]
          BY <1>5, <5>1
        <5>3. Busy(d)
          BY <5>2 DEF Busy, GroupAt, BeforeCount, OutputStages
        <5>. QED  BY <2>5, <5>1, <5>2, <5>3 DEF JobOf
      <4>2. IsLastJob(j)' => outputs'[1] >= 1
        BY <1>1, <1>5, <2>4 DEF IsLastJob, GroupOf, JobOf
      <4>. QED  BY <1>1, <1>2, <4>1, <4>2 DEF Counted, JobOf
    <3>2. Counted \subseteq Counted'
      <4>1. \A d \in GroupWorkers : groupWork'[d].at \in BeforeCount =>
              groupWork[d].at \in BeforeCount /\ groupWork'[d].job = groupWork[d].job
        BY <1>5 DEF BeforeCount, OutputStages
      <4>2. outputs'[1] >= outputs[1]
        BY <1>3
      <4>. QED  BY <1>1, <1>5, <4>1, <4>2, CountedStays
    <3>. QED  BY <3>1, <3>2
  <2>7. IsFiniteSet(Counted') /\ Cardinality(Counted') \in Nat
        /\ ((Counted' # {} /\ \A i \in Counted' : i[2] < n) => Cardinality(Counted') < n)
    <3>1. \A i \in Counted' : i \in DOMAIN delivered
      BY <1>1 DEF Counted
    <3>2. \A i \in Counted' : i \in Nat \X (Nat \ {0}) /\ i[1] = 1 /\ (i[2] = 1 \/ i[2] <= n)
      BY <2>2, <3>1
    <3>. QED  BY <2>1, <3>2, JobsOfOneGroup
  <2>8. Cardinality(Counted) + 1 <= Cardinality(Counted') /\ Cardinality(Counted) \in Nat
    <3>1. IsFiniteSet(Counted) /\ IsFiniteSet(Counted \cup {j})
          /\ Cardinality(Counted \cup {j}) <= Cardinality(Counted')
      BY <2>6, <2>7, FS_Subset
    <3>2. Cardinality(Counted \cup {j}) = Cardinality(Counted) + 1
      BY <2>3, <3>1, FS_AddElement
    <3>3. Cardinality(Counted) \in Nat
      BY <3>1, FS_CardinalityType
    <3>. QED  BY <3>1, <3>2, <3>3
  <2>9. run.processed <= Cardinality(Counted)
    BY DEF CountInv
  <2>10. run'.processed <= Cardinality(Counted')
    BY <1>4, <2>7, <2>8, <2>9
  <2>11. ASSUME at = "finish"
         PROVE  outputs[1] >= 1
    <3>1. CASE groupWork[c].at = "count"
      <4>1. outputs[j[1]] >= 1
        BY <3>1 DEF WorkInv
      <4>2. j[1] = 1
        BY <1>2, <2>2
      <4>. QED  BY <4>1, <4>2
    <3>2. CASE run.processed + 1 >= plan[j[1]].n
      <4>1. run'.processed >= n
        BY <1>2, <1>4, <2>2, <3>2 DEF n
      <4>2. ~(Cardinality(Counted') < n)
        BY <1>4, <2>1, <2>7, <2>10, <4>1
      <4>3. PICK i \in Counted' : ~(i[2] < n)
        BY <2>6, <2>7, <4>2
      <4>4. i \in DOMAIN delivered /\ (IsLastJob(i)' => outputs[1] >= 1)
        BY <1>1 DEF Counted
      <4>5. IsLastJob(i)
        BY <2>1, <2>2, <4>3, <4>4
      <4>6. IsLastJob(i)'
        BY <1>1, <4>5 DEF IsLastJob, GroupOf
      <4>. QED  BY <4>4, <4>6
    <3>. QED  BY <2>11, <3>1, <3>2
  <2>12. (run'.status = "done" \/ \E d \in GroupWorkers : GroupAt(d, "finish")') => outputs[1] >= 1
    <3>1. (run.status = "done" \/ \E d \in GroupWorkers : GroupAt(d, "finish")) => outputs[1] >= 1
      BY DEF CountInv
    <3>2. \A d \in GroupWorkers : GroupAt(d, "finish")' => GroupAt(d, "finish") \/ at = "finish"
      BY <1>5 DEF GroupAt
    <3>. QED  BY <1>4, <2>11, <3>1, <3>2
  <2>. QED  BY <2>10, <2>12
<1>. QED  BY <1>5, <1>6, <1>7

\* The statement that marks the run done.
LEMMA RunMarked ==
  ASSUME RunInv, NEW c \in GroupWorkers, GroupAt(c, "finish"), MarkDone(c)
  PROVE  RunInv'
<1>. USE DEF RunInv
<1>1. /\ run' = [run EXCEPT !.status = "done"] /\ GroupGoto(c, "answered")
      /\ UNCHANGED <<plan, position, delivered, outputs, overlapped>>
  BY DEF MarkDone
<1>2. Busy(c)
  BY DEF Busy, GroupAt
<1>3. outputs' \in [DOMAIN plan -> Nat] /\ \A k \in DOMAIN plan : outputs'[k] >= outputs[k]
  BY <1>1 DEF PlanInv
<1>4. /\ run' \in [status : {"none", "running", "paused", "done"}, processed : Nat]
      /\ run'.processed = run.processed
  <2>1. run \in [status : {"none", "running", "paused", "done"}, processed : Nat]
    BY DEF PlanInv
  <2>. QED  BY <1>1, <2>1
<1>5. /\ PlanInv' /\ JobsInv' /\ WorkInv' /\ TwiceInv'
      /\ groupWork'[c].at = "answered" /\ \A d \in GroupWorkers \ {c} : groupWork'[d] = groupWork[d]
      /\ \A d \in GroupWorkers : groupWork'[d].job = groupWork[d].job
  <2>1. "answered" \in BeforeCount \cup {"finish", "answered"} /\ "answered" # "done"
        /\ "answered" \notin OutputStages /\ "answered" \notin {"notify", "count"}
    BY DEF BeforeCount, OutputStages
  <2>. QED  BY <1>1, <1>2, <1>3, <1>4, <2>1, JobGoesOn
<1>6. OutputInv'
  <2>1. \A d \in GroupWorkers, k \in DOMAIN plan : Creates(d, k)' => Creates(d, k)
    BY <1>5 DEF Creates, GroupAt, JobOf
  <2>. QED  BY <1>1, <2>1, OutputsStay
<1>7. CountInv'
  <2>. SUFFICES ASSUME DOMAIN plan = {1}, ~Redelivered
                PROVE  run'.processed <= Cardinality(Counted') /\ outputs'[1] >= 1
    BY <1>1 DEF CountInv, Redelivered
  <2>1. outputs[1] >= 1 /\ run.processed <= Cardinality(Counted)
    BY DEF CountInv
  <2>2. Counted' = Counted
    <3>1. \A d \in GroupWorkers : groupWork'[d].at \in BeforeCount <=> groupWork[d].at \in BeforeCount
      BY <1>5 DEF GroupAt, BeforeCount, OutputStages
    <3>. QED  BY <1>1, <1>5, <3>1 DEF Counted, IsLastJob, GroupOf, JobOf
  <2>. QED  BY <1>1, <1>4, <2>1, <2>2
<1>. QED  BY <1>5, <1>6, <1>7

\* /done counts with the number of files its message has.
LEMMA DoneHandled ==
  ASSUME RunInv, NEW c \in GroupWorkers, handleDone(c)
  PROVE  RunInv'
<1>1. CASE GroupAt(c, "done") /\ Count(c, IF run.processed + 1 >= TotalForDone(c) THEN "finish" ELSE "answered")
  <2>. DEFINE at == IF run.processed + 1 >= TotalForDone(c) THEN "finish" ELSE "answered"
  <2>1. at \in {"finish", "answered"} /\ (at = "finish" => run.processed + 1 >= plan[JobOf(c)[1]].n)
    BY DEF TotalForDone, GroupAtWork, GroupOf
  <2>2. Count(c, at) /\ groupWork[c].at \in {"done", "count"}
    BY <1>1 DEF GroupAt
  <2>. HIDE DEF at
  <2>. QED  BY <2>1, <2>2, InputCounted
<1>2. CASE GroupAt(c, "finish") /\ MarkDone(c)
  BY <1>2, RunMarked
<1>. QED  BY <1>1, <1>2 DEF handleDone

\* What follows an output counts only once the output is there.
LEMMA OutputNotified ==
  ASSUME RunInv, NEW c \in GroupWorkers, notifyOutput(c)
  PROVE  RunInv'
<1>. DEFINE next == IF run.status \in GroupRunStopped THEN "answered" ELSE "count"
            at == IF run.processed + 1 >= GroupAtWork(c).of THEN "finish" ELSE "answered"
<1>1. CASE /\ GroupAt(c, "notify") /\ GroupGoto(c, next)
           /\ UNCHANGED <<grouping, plan, position, checked, delivered, run, outputs, overlapped>>
  <2>1. next \in {"answered", "count"}
    OBVIOUS
  <2>. HIDE DEF next
  <2>2. groupWork[c].at = "notify"
    BY <1>1 DEF GroupAt
  <2>3. Busy(c) /\ IsLastJob(JobOf(c)) /\ outputs[JobOf(c)[1]] >= 1
    BY <2>2 DEF RunInv, WorkInv, Busy, GroupAt, OutputStages
  <2>4. next \in BeforeCount \cup {"answered"} /\ next # "done" /\ groupWork[c].at \in BeforeCount
    BY <2>1, <2>2 DEF BeforeCount, OutputStages
  <2>5. OutputInv'
    <3>1. groupWork' = [groupWork EXCEPT ![c].at = next] /\ groupWork \in [GroupWorkers -> Work]
      BY <1>1 DEF GroupGoto, RunInv, WorkInv
    <3>2. groupWork'[c].at = next /\ \A d \in GroupWorkers \ {c} : groupWork'[d] = groupWork[d]
      BY <3>1 DEF Work
    <3>3. \A d \in GroupWorkers, k \in DOMAIN plan : Creates(d, k)' => Creates(d, k)
      BY <2>1, <3>2 DEF Creates, GroupAt, JobOf
    <3>. QED  BY <1>1, <3>3, OutputsStay DEF RunInv
  <2>. QED  BY <1>1, <2>3, <2>4, <2>5, StepTaken
<1>2. CASE GroupAt(c, "count") /\ Count(c, at)
  <2>1. at \in {"finish", "answered"}
    OBVIOUS
  <2>2. Count(c, at) /\ groupWork[c].at = "count"
    BY <1>2 DEF GroupAt
  <2>. HIDE DEF at
  <2>. QED  BY <2>1, <2>2, InputCounted
<1>. QED  BY <1>1, <1>2 DEF notifyOutput

-----------------------------------------------------------------------------
(* The theorem.                                                            *)

LEMMA RunStarts == GroupRunInit => RunInv
<1>. SUFFICES ASSUME GroupRunInit
              PROVE  RunInv
  OBVIOUS
<1>1. /\ plan = <<>> /\ position = <<1, 1>> /\ delivered = <<>> /\ outputs = <<>>
      /\ run = [status |-> "none", processed |-> 0]
      /\ groupWork = [c \in GroupWorkers |-> AtRest]
  BY DEF GroupRunInit
<1>2. DOMAIN plan = {} /\ DOMAIN delivered = {} /\ DOMAIN outputs = {}
  BY <1>1, SMT
<1>3. AtRest \in Work /\ AtRest.at = "idle"
  BY DEF AtRest, NoJobYet, Work
<1>4. groupWork \in [GroupWorkers -> Work] /\ \A c \in GroupWorkers : groupWork[c].at = "idle"
  BY <1>1, <1>3
<1>5. PlanInv
  <2>1. outputs \in [DOMAIN plan -> Nat]
    BY <1>1, <1>2
  <2>. QED  BY <1>1, <1>2, <2>1 DEF PlanInv
<1>6. JobsInv
  BY <1>1, <1>2 DEF JobsInv
<1>7. WorkInv
  BY <1>4 DEF WorkInv, Busy, GroupAt, OutputStages
<1>8. TwiceInv
  BY <1>4 DEF TwiceInv, Busy, GroupAt
<1>9. OutputInv
  BY <1>2 DEF OutputInv
<1>10. CountInv
  BY <1>2 DEF CountInv
<1>. QED  BY <1>5, <1>6, <1>7, <1>8, <1>9, <1>10 DEF RunInv

LEMMA RunStays == RunInv /\ [GroupRunNext]_groupRunVars => RunInv'
<1>. SUFFICES ASSUME RunInv, [GroupRunNext]_groupRunVars
              PROVE  RunInv'
  OBVIOUS
<1>1. CASE \E desk \in RunDesks : queueSet(desk)
  BY <1>1, SetQueued
<1>2. CASE dispatchWholeSet
  BY <1>2, WholeSetQueued
<1>3. CASE dispatchGroups
  BY <1>3, JobPublished
<1>4. CASE pauseRun
  BY <1>4, RunPaused
<1>5. ASSUME NEW c \in GroupWorkers, Deliver(c)
      PROVE  RunInv'
  BY <1>5, JobDelivered
<1>6. ASSUME NEW c \in GroupWorkers, completeGroupJob(c) \/ LoseConsumer(c)
      PROVE  RunInv'
  BY <1>6, JobLeft
<1>7. ASSUME NEW c \in GroupWorkers, handleDone(c)
      PROVE  RunInv'
  BY <1>7, DoneHandled
<1>8. ASSUME NEW c \in GroupWorkers, outputCheck(c)
      PROVE  RunInv'
  BY <1>8, OutputChecked
<1>9. ASSUME NEW c \in GroupWorkers, outputGuard(c)
      PROVE  RunInv'
  BY <1>9, OutputGuarded
<1>10. ASSUME NEW c \in GroupWorkers, createOutput(c)
       PROVE  RunInv'
  BY <1>10, OutputCreated
<1>11. ASSUME NEW c \in GroupWorkers, notifyOutput(c)
       PROVE  RunInv'
  BY <1>11, OutputNotified
<1>12. CASE UNCHANGED groupRunVars
  BY <1>12 DEF groupRunVars, RunInv, PlanInv, JobsInv, InGroup, WorkInv, Busy, GroupAt, JobOf, IsLastJob, GroupOf,
               TwiceInv, OutputInv, Creates, CountInv, Counted, Redelivered
<1>. QED  BY <1>1, <1>2, <1>3, <1>4, <1>5, <1>6, <1>7, <1>8, <1>9, <1>10, <1>11, <1>12 DEF GroupRunNext

\* For any set, groups, consumers and deliveries: a PDF gets one output unless
\* two answers of its group met, and a run of one group is not done without
\* its output unless a job came twice (results.ts:249-300, batch-state.ts:53-79).
THEOREM RunsGiveOutputs == GroupRunSpec => []GroupsGetOutputs
<1>1. RunInv => GroupsGetOutputs
  <2>. SUFFICES ASSUME RunInv
                PROVE  OneOutputPerGroup /\ DoneHasOutput
    BY DEF GroupsGetOutputs
  <2>1. DOMAIN outputs = DOMAIN plan
    BY DEF RunInv, PlanInv
  <2>2. OneOutputPerGroup
    BY <2>1 DEF RunInv, OutputInv, OneOutputPerGroup
  <2>3. DoneHasOutput
    BY <2>1 DEF RunInv, CountInv, DoneHasOutput
  <2>. QED  BY <2>2, <2>3
<1>. QED  BY <1>1, RunStarts, RunStays, PTL DEF GroupRunSpec

-----------------------------------------------------------------------------
(* The desks of a user.                                                    *)

Project == [label: Labels, owned: BOOLEAN, deleting: BOOLEAN]
DeskCall == [at: {"idle", "vertex", "owner"}, label: Labels \cup {"none"}, desk: Nat]

DesksTypeOK ==
  /\ projects \in Seq(Project) /\ deskCall \in [DeskCalls -> DeskCall]
  /\ \A c \in DeskCalls : deskCall[c].at # "idle" => deskCall[c].label \in Labels

\* A desk that waits for its owner is its call's alone.
OwnersComing ==
  \A c \in DeskCalls : deskCall[c].at = "owner" =>
    /\ deskCall[c].desk \in DOMAIN projects /\ ~projects[deskCall[c].desk].owned
    /\ projects[deskCall[c].desk].label = deskCall[c].label
    /\ \A d \in DeskCalls : deskCall[d].at = "owner" /\ deskCall[d].desk = deskCall[c].desk => c = d

\* A name is one desk's, or one call's that is about to make the desk.
NameTaken ==
  \A label \in Labels \ together :
    /\ \A i, j \in Owned : projects[i].label = label /\ projects[j].label = label => i = j
    /\ \A c, d \in Naming(label) : c = d
    /\ \A i \in Owned, c \in Naming(label) : projects[i].label # label

DesksInv == DesksTypeOK /\ OwnersComing /\ NameTaken

LEMMA DesksBegin == DeskInit => DesksInv
<1> SUFFICES ASSUME DeskInit PROVE DesksInv
  OBVIOUS
<1>1. projects = <<>> /\ deskCall = [c \in DeskCalls |-> FreeDeskCall]
  BY DEF DeskInit
<1>2. projects \in Seq(Project) /\ DOMAIN projects = {}
  BY <1>1
<1>3. FreeDeskCall \in DeskCall /\ FreeDeskCall.at = "idle"
  BY DEF FreeDeskCall, DeskCall
<1>4. \A c \in DeskCalls : deskCall[c].at = "idle"
  BY <1>1, <1>3
<1>5. DesksTypeOK
  BY <1>1, <1>2, <1>3, <1>4 DEF DesksTypeOK
<1>6. OwnersComing
  BY <1>4 DEF OwnersComing
<1>7. NameTaken
  BY <1>2, <1>4 DEF NameTaken, Owned, Naming
<1> QED
  BY <1>5, <1>6, <1>7 DEF DesksInv

LEMMA DesksQuiet ==
  ASSUME DesksInv, UNCHANGED projectVars
  PROVE  DesksInv'
BY DEF DesksInv, DesksTypeOK, OwnersComing, NameTaken, Owned, Naming, projectVars

\* A name nobody has is counted as none.
LEMMA NoneCounted ==
  ASSUME DesksInv, NEW label, countByLabel(label) = 0
  PROVE  \A i \in Owned : projects[i].label # label
<1> DEFINE S == {i \in Owned : projects[i].label = label}
<1>1. DOMAIN projects = 1 .. Len(projects) /\ Len(projects) \in Nat
  BY DEF DesksInv, DesksTypeOK
<1>2. IsFiniteSet(1 .. Len(projects))
  BY <1>1, FS_Interval
<1>3. IsFiniteSet(S)
  BY <1>1, <1>2, FS_Subset DEF Owned
<1>4. S = {}
  BY <1>3, FS_EmptySet DEF countByLabel
<1> QED
  BY <1>4

LEMMA CreateDeskKeeps ==
  ASSUME DesksInv, NEW c \in DeskCalls, NEW label \in Labels, create(c, label)
  PROVE  DesksInv'
<1>1. /\ deskCall[c].at = "idle" /\ countByLabel(label) = 0 /\ projects' = projects
      /\ together' = together \cup (IF Naming(label) = {} THEN {} ELSE {label})
  BY DEF create
<1>2. PICK k : k = [at |-> "vertex", label |-> label, desk |-> 0]
  OBVIOUS
<1>3. k \in DeskCall /\ k.at = "vertex" /\ k.label = label
  BY <1>2 DEF DeskCall
<1>4. deskCall' = [deskCall EXCEPT ![c] = k]
  BY <1>2 DEF create
<1>5. deskCall'[c] = k /\ \A d \in DeskCalls : d # c => deskCall'[d] = deskCall[d]
  BY <1>4 DEF DesksInv, DesksTypeOK
<1>6. DesksTypeOK'
  BY <1>1, <1>3, <1>4, <1>5 DEF DesksInv, DesksTypeOK
<1>7. OwnersComing'
  BY <1>1, <1>3, <1>5 DEF DesksInv, OwnersComing
<1>8. \A i \in Owned : projects[i].label # label
  BY <1>1, NoneCounted
<1>9. NameTaken'
  <2> SUFFICES ASSUME NEW l \in Labels \ together'
               PROVE  /\ \A i, j \in Owned' : projects'[i].label = l /\ projects'[j].label = l => i = j
                      /\ \A a, b \in Naming(l)' : a = b
                      /\ \A i \in Owned', a \in Naming(l)' : projects'[i].label # l
    BY DEF NameTaken
  <2>1. l \in Labels \ together /\ Owned' = Owned
    BY <1>1 DEF Owned
  <2>2. CASE l # label
    <3>1. Naming(l)' = Naming(l)
      BY <1>1, <1>3, <1>5, <2>2 DEF Naming
    <3> QED
      BY <1>1, <2>1, <3>1 DEF DesksInv, NameTaken
  <2>3. CASE l = label
    <3>1. Naming(label) = {}
      BY <1>1, <2>1, <2>3
    <3>2. Naming(l)' \subseteq {c}
      BY <1>5, <2>3, <3>1 DEF Naming
    <3> QED
      BY <1>1, <1>8, <2>1, <2>3, <3>2 DEF DesksInv, NameTaken
  <2> QED
    BY <2>2, <2>3
<1> QED
  BY <1>6, <1>7, <1>9 DEF DesksInv

LEMMA CreateVertexKeeps ==
  ASSUME DesksInv, NEW c \in DeskCalls, createVertex(c)
  PROVE  DesksInv'
<1>1. /\ deskCall[c].at = "vertex" /\ together' = together
  BY DEF createVertex
<1>2. PICK p : p = [label |-> deskCall[c].label, owned |-> FALSE, deleting |-> FALSE]
  OBVIOUS
<1>3. p \in Project /\ p.label = deskCall[c].label /\ ~p.owned
  BY <1>1, <1>2 DEF DesksInv, DesksTypeOK, Project
<1>4. projects' = Append(projects, p) /\ projects \in Seq(Project)
  BY <1>2 DEF createVertex, DesksInv, DesksTypeOK
<1>5. /\ projects' \in Seq(Project) /\ Len(projects') = Len(projects) + 1 /\ Len(projects) \in Nat
      /\ DOMAIN projects = 1 .. Len(projects) /\ DOMAIN projects' = 1 .. Len(projects) + 1
      /\ \A i \in DOMAIN projects : projects'[i] = projects[i]
      /\ projects'[Len(projects) + 1] = p
  BY <1>3, <1>4
<1>6. PICK k : k = [at |-> "owner", label |-> deskCall[c].label, desk |-> Len(projects')]
  OBVIOUS
<1>7. k \in DeskCall /\ k.at = "owner" /\ k.label = deskCall[c].label /\ k.desk = Len(projects) + 1
  BY <1>5, <1>6 DEF DesksInv, DesksTypeOK, DeskCall
<1>8. deskCall' = [deskCall EXCEPT ![c] = k]
  BY <1>6 DEF createVertex
<1>9. deskCall'[c] = k /\ \A d \in DeskCalls : d # c => deskCall'[d] = deskCall[d]
  BY <1>8 DEF DesksInv, DesksTypeOK
<1>10. DesksTypeOK'
  BY <1>1, <1>5, <1>7, <1>8, <1>9 DEF DesksInv, DesksTypeOK
<1>11. Owned' = Owned
  BY <1>3, <1>5 DEF Owned
<1>12. \A l \in Labels : Naming(l)' = Naming(l)
  BY <1>1, <1>7, <1>9 DEF Naming
<1>13. NameTaken'
  <2>1. \A i \in Owned : projects'[i] = projects[i]
    BY <1>5 DEF Owned
  <2> QED
    BY <1>1, <1>11, <1>12, <2>1 DEF DesksInv, NameTaken
<1>14. OwnersComing'
  <2>1. ASSUME NEW d \in DeskCalls, d # c, deskCall[d].at = "owner"
        PROVE  deskCall[d].desk \in DOMAIN projects /\ deskCall[d].desk # Len(projects) + 1
    BY <1>5, <2>1 DEF DesksInv, OwnersComing
  <2> SUFFICES ASSUME NEW d \in DeskCalls, deskCall'[d].at = "owner"
               PROVE  /\ deskCall'[d].desk \in DOMAIN projects' /\ ~projects'[deskCall'[d].desk].owned
                      /\ projects'[deskCall'[d].desk].label = deskCall'[d].label
                      /\ \A b \in DeskCalls : deskCall'[b].at = "owner" /\ deskCall'[b].desk = deskCall'[d].desk => d = b
    BY DEF OwnersComing
  <2>2. CASE d = c
    BY <1>3, <1>5, <1>7, <1>9, <2>1, <2>2
  <2>3. CASE d # c
    BY <1>5, <1>7, <1>9, <2>1, <2>3 DEF DesksInv, OwnersComing
  <2> QED
    BY <2>2, <2>3
<1> QED
  BY <1>10, <1>13, <1>14 DEF DesksInv

LEMMA ConnectOwnerKeeps ==
  ASSUME DesksInv, NEW c \in DeskCalls, connectOwner(c)
  PROVE  DesksInv'
<1>1. /\ deskCall[c].at = "owner" /\ together' = together /\ deskCall' = [deskCall EXCEPT ![c] = FreeDeskCall]
  BY DEF connectOwner
<1>2. PICK i : i = deskCall[c].desk
  OBVIOUS
<1>3. i \in DOMAIN projects /\ ~projects[i].owned /\ projects[i].label = deskCall[c].label
  BY <1>1, <1>2 DEF DesksInv, OwnersComing
<1>4. PICK p : p = [projects[i] EXCEPT !.owned = TRUE]
  OBVIOUS
<1>5. projects' = [projects EXCEPT ![i] = p] /\ projects \in Seq(Project) /\ projects[i] \in Project
  BY <1>2, <1>3, <1>4 DEF connectOwner, DesksInv, DesksTypeOK
<1>6. p \in Project /\ p.label = projects[i].label /\ p.owned
  BY <1>4, <1>5 DEF Project
<1>7. /\ projects' \in Seq(Project) /\ DOMAIN projects' = DOMAIN projects /\ projects'[i] = p
      /\ \A j \in DOMAIN projects : j # i => projects'[j] = projects[j]
  BY <1>3, <1>5, <1>6
<1>8. deskCall'[c].at = "idle" /\ \A d \in DeskCalls : d # c => deskCall'[d] = deskCall[d]
  BY <1>1 DEF DesksInv, DesksTypeOK, FreeDeskCall
<1>9. DesksTypeOK'
  <2>1. FreeDeskCall \in DeskCall
    BY DEF FreeDeskCall, DeskCall
  <2> QED
    BY <1>1, <1>7, <1>8, <2>1 DEF DesksInv, DesksTypeOK
<1>10. OwnersComing'
  BY <1>1, <1>2, <1>7, <1>8 DEF DesksInv, OwnersComing
<1>11. Owned' = Owned \cup {i}
  BY <1>3, <1>6, <1>7 DEF Owned
<1>12. NameTaken'
  <2> SUFFICES ASSUME NEW l \in Labels \ together
               PROVE  /\ \A a, b \in Owned' : projects'[a].label = l /\ projects'[b].label = l => a = b
                      /\ \A a, b \in Naming(l)' : a = b
                      /\ \A a \in Owned', b \in Naming(l)' : projects'[a].label # l
    BY <1>1 DEF NameTaken
  <2>1. \A a \in Owned' : a \in DOMAIN projects /\ projects'[a].label = projects[a].label /\ (a \in Owned \/ a = i)
    BY <1>3, <1>6, <1>7, <1>11 DEF Owned
  <2>2. Naming(l)' = Naming(l) \ {c}
    BY <1>8 DEF Naming
  <2>3. projects[i].label = l => c \in Naming(l)
    BY <1>1, <1>3 DEF Naming
  <2> QED
    BY <2>1, <2>2, <2>3 DEF DesksInv, NameTaken
<1> QED
  BY <1>9, <1>10, <1>12 DEF DesksInv

\* A change of one desk that is owned: a new name, the mark, or its end.
LEMMA DeskChangeKeeps ==
  ASSUME DesksInv, NEW i \in Owned, NEW p \in Project, projects' = [projects EXCEPT ![i] = p], deskCall' = deskCall,
         together \subseteq together', p.owned => p.label = projects[i].label \/ p.label \in together'
  PROVE  DesksInv'
<1>1. projects \in Seq(Project) /\ i \in DOMAIN projects /\ projects[i].owned
  BY DEF DesksInv, DesksTypeOK, Owned
<1>2. /\ projects' \in Seq(Project) /\ DOMAIN projects' = DOMAIN projects /\ projects'[i] = p
      /\ \A j \in DOMAIN projects : j # i => projects'[j] = projects[j]
  BY <1>1
<1>3. DesksTypeOK'
  BY <1>2 DEF DesksInv, DesksTypeOK
<1>4. OwnersComing'
  BY <1>1, <1>2 DEF DesksInv, OwnersComing
<1>5. NameTaken'
  <2> SUFFICES ASSUME NEW l \in Labels \ together'
               PROVE  /\ \A a, b \in Owned' : projects'[a].label = l /\ projects'[b].label = l => a = b
                      /\ \A a, b \in Naming(l)' : a = b
                      /\ \A a \in Owned', b \in Naming(l)' : projects'[a].label # l
    BY DEF NameTaken
  <2>1. \A a \in Owned' : a \in Owned /\ (projects'[a].label = l => projects[a].label = l)
    BY <1>1, <1>2 DEF Owned
  <2>2. Naming(l)' = Naming(l) /\ l \in Labels \ together
    BY DEF Naming
  <2> QED
    BY <2>1, <2>2 DEF DesksInv, NameTaken
<1> QED
  BY <1>3, <1>4, <1>5 DEF DesksInv

LEMMA ProjectStepsKeep ==
  ASSUME DesksInv, ProjectSteps
  PROVE  DesksInv'
<1>1. ASSUME NEW i \in DOMAIN projects, NEW label \in Labels, setAttribute(i, label) PROVE DesksInv'
  <2>1. i \in Owned /\ projects[i] \in Project /\ together' = together \cup {label} /\ deskCall' = deskCall
    BY <1>1 DEF setAttribute, ListedDesks, DesksInv, DesksTypeOK
  <2>2. PICK p : p = [projects[i] EXCEPT !.label = label]
    OBVIOUS
  <2>3. p \in Project /\ p.label = label /\ projects' = [projects EXCEPT ![i] = p]
    BY <1>1, <2>1, <2>2 DEF setAttribute, Project
  <2> QED
    BY <2>1, <2>3, DeskChangeKeeps
<1>2. ASSUME NEW i \in DOMAIN projects, deleteDesk(i) PROVE DesksInv'
  <2>1. i \in Owned /\ projects[i] \in Project /\ together' = together /\ deskCall' = deskCall
    BY <1>2 DEF deleteDesk, ListedDesks, DesksInv, DesksTypeOK
  <2>2. PICK p : p = [projects[i] EXCEPT !.deleting = TRUE]
    OBVIOUS
  <2>3. p \in Project /\ p.label = projects[i].label /\ projects' = [projects EXCEPT ![i] = p]
    BY <1>2, <2>1, <2>2 DEF deleteDesk, Project
  <2> QED
    BY <2>1, <2>3, DeskChangeKeeps
<1>3. ASSUME NEW i \in DOMAIN projects, deskGoes(i) PROVE DesksInv'
  <2>1. i \in Owned /\ projects[i] \in Project /\ together' = together /\ deskCall' = deskCall
    BY <1>3 DEF deskGoes, DesksInv, DesksTypeOK
  <2>2. PICK p : p = [projects[i] EXCEPT !.owned = FALSE]
    OBVIOUS
  <2>3. p \in Project /\ ~p.owned /\ projects' = [projects EXCEPT ![i] = p]
    BY <1>3, <2>1, <2>2 DEF deskGoes, Project
  <2> QED
    BY <2>1, <2>3, DeskChangeKeeps
<1> QED
  BY <1>1, <1>2, <1>3, CreateDeskKeeps, CreateVertexKeeps, ConnectOwnerKeeps DEF ProjectSteps

LEMMA AtMostOne ==
  ASSUME NEW S, \A a, b \in S : a = b
  PROVE  Cardinality(S) <= 1
<1>1. CASE S = {}
  <2>1. Cardinality(S) = 0
    BY <1>1, FS_EmptySet
  <2> QED
    BY <2>1
<1>2. CASE S # {}
  <2>1. PICK i \in S : S = {i}
    BY <1>2
  <2>2. Cardinality({i}) = 1
    BY FS_Singleton
  <2> QED
    BY <2>1, <2>2
<1> QED
  BY <1>1, <1>2

\* A name nobody made twice at a time is one desk's.
LEMMA DesksHaveNames == DesksInv => OneDeskPerName
<1> SUFFICES ASSUME DesksInv, NEW label \in Labels \ together
             PROVE  Cardinality({i \in Owned : projects[i].label = label}) <= 1
  BY DEF OneDeskPerName
<1>1. \A a, b \in {i \in Owned : projects[i].label = label} : a = b
  BY DEF DesksInv, NameTaken
<1> QED
  BY <1>1, AtMostOne

-----------------------------------------------------------------------------
(* The nodes of a desk.                                                    *)

Entire(n) == stage[n] = Len(Statements(n))

StagesTypeOK ==
  /\ stage \in [Nodes -> Nat]
  /\ \A n \in Nodes : stage[n] <= Len(Statements(n))

\* What the statements of a node are.
LEMMA StatementsAre ==
  ASSUME NEW n \in Nodes
  PROVE  /\ Lineage[n].of = Top /\ Lineage[n].set = Nothing => Statements(n) = <<"vertex", "edge">>
         /\ Lineage[n].of = Top /\ Lineage[n].set # Nothing => Statements(n) = <<"vertex", "edge", "member">>
         /\ Lineage[n].of # Top /\ Lineage[n].set = Nothing => Statements(n) = <<"vertex", "edge", "tell">>
         /\ Lineage[n].of # Top /\ Lineage[n].set # Nothing => Statements(n) = <<"vertex", "member", "edge", "tell">>
BY DEF Statements

LEMMA StatementsEnd ==
  ASSUME NEW n \in Nodes
  PROVE  Len(Statements(n)) \in Nat
BY StatementsAre

\* A derived node whose edge is there is a member of its set; with all its
\* statements it has told its process, and only with all of them.
LEMMA DerivedNode ==
  ASSUME StagesTypeOK, NEW n \in Nodes, Lineage[n].of # Top
  PROVE  /\ Has(n, "edge") /\ Lineage[n].set # Nothing => Has(n, "member")
         /\ Has(n, "tell") => Entire(n)
         /\ Entire(n) /\ n \notin taken => Has(n, "edge") /\ Has(n, "tell")
<1>1. stage[n] \in Nat
  BY DEF StagesTypeOK
<1>2. CASE Lineage[n].set = Nothing
  <2>1. PICK s : s = Statements(n)
    OBVIOUS
  <2>2. s = <<"vertex", "edge", "tell">>
    BY <1>2, <2>1, StatementsAre
  <2>3. Len(s) = 3 /\ s[1] = "vertex" /\ s[2] = "edge" /\ s[3] = "tell" /\ stage[n] <= 3
    <3>1. Len(s) = 3 /\ s[1] = "vertex" /\ s[2] = "edge" /\ s[3] = "tell"
      BY <2>2
    <3> QED
      BY <2>1, <3>1 DEF StagesTypeOK
  <2>4. Has(n, "tell") => stage[n] = 3
    BY <1>1, <2>1, <2>3 DEF Has
  <2>5. stage[n] = 3 => 2 \in 1 .. stage[n] /\ 3 \in 1 .. stage[n]
    BY <1>1
  <2> QED
    BY <1>2, <2>1, <2>3, <2>4, <2>5 DEF Has, Entire
<1>3. CASE Lineage[n].set # Nothing
  <2>1. PICK s : s = Statements(n)
    OBVIOUS
  <2>2. s = <<"vertex", "member", "edge", "tell">>
    BY <1>3, <2>1, StatementsAre
  <2>3. /\ Len(s) = 4 /\ s[1] = "vertex" /\ s[2] = "member" /\ s[3] = "edge" /\ s[4] = "tell"
        /\ stage[n] <= 4
    <3>1. Len(s) = 4 /\ s[1] = "vertex" /\ s[2] = "member" /\ s[3] = "edge" /\ s[4] = "tell"
      BY <2>2
    <3> QED
      BY <2>1, <3>1 DEF StagesTypeOK
  <2>4. (Has(n, "tell") => stage[n] = 4) /\ (Has(n, "edge") => stage[n] >= 3)
    BY <1>1, <2>1, <2>3 DEF Has
  <2>5. stage[n] >= 3 => 2 \in 1 .. stage[n]
    BY <1>1
  <2>6. stage[n] = 4 => 3 \in 1 .. stage[n] /\ 4 \in 1 .. stage[n]
    BY <1>1
  <2>7. Has(n, "edge") => Has(n, "member")
    BY <1>1, <2>1, <2>3, <2>4, <2>5 DEF Has
  <2> QED
    BY <2>1, <2>3, <2>4, <2>6, <2>7 DEF Has, Entire
<1> QED
  BY <1>2, <1>3

\* Only what has a set is a member.
LEMMA MemberHasSet ==
  ASSUME StagesTypeOK, NEW n \in Nodes, Has(n, "member")
  PROVE  Lineage[n].set # Nothing
<1> SUFFICES ASSUME Lineage[n].set = Nothing PROVE FALSE
  OBVIOUS
<1>1. PICK s : s = Statements(n)
  OBVIOUS
<1>2. stage[n] \in Nat /\ stage[n] <= Len(s)
  BY <1>1 DEF StagesTypeOK
<1>3. s = <<"vertex", "edge">> \/ s = <<"vertex", "edge", "tell">>
  BY <1>1, StatementsAre
<1>4. PICK i \in 1 .. stage[n] : s[i] = "member"
  BY <1>1 DEF Has
<1>5. CASE s = <<"vertex", "edge">>
  BY <1>2, <1>4, <1>5
<1>6. CASE s = <<"vertex", "edge", "tell">>
  BY <1>2, <1>4, <1>6
<1> QED
  BY <1>3, <1>5, <1>6

\* What is on the desk has its edge, and what it is derived from is on the desk.
LEMMA InputOnDesk ==
  ASSUME NEW n \in OnDesk
  PROVE  n \in Nodes /\ Has(n, "edge") /\ (Lineage[n].of # Top => Lineage[n].of \in OnDesk)
<1>1. n \in Nodes /\ \A m \in WayTo[n] : Has(m, "edge")
  BY DEF OnDesk
<1>2. WayTo[n] = {m \in Nodes : \A nodes \in SUBSET Nodes : n \in nodes /\ GoesUp(nodes) => m \in nodes}
  BY <1>1 DEF WayTo
<1>3. n \in WayTo[n]
  BY <1>1, <1>2
<1>4. ASSUME Lineage[n].of # Top PROVE Lineage[n].of \in OnDesk
  <2>1. PICK u : u = Lineage[n].of
    OBVIOUS
  <2>2. u \in Nodes
    BY <1>1, <1>4, <2>1, DeskConstants
  <2>3. WayTo[u] = {m \in Nodes : \A nodes \in SUBSET Nodes : u \in nodes /\ GoesUp(nodes) => m \in nodes}
    BY <2>2 DEF WayTo
  <2>4. ASSUME NEW m \in WayTo[u] PROVE m \in WayTo[n]
    <3>1. m \in Nodes
      BY <2>3, <2>4
    <3>2. ASSUME NEW nodes \in SUBSET Nodes, n \in nodes, GoesUp(nodes) PROVE m \in nodes
      <4>1. u \in nodes
        BY <1>4, <2>1, <3>2 DEF GoesUp
      <4> QED
        BY <2>3, <2>4, <3>2, <4>1
    <3> QED
      BY <1>2, <3>1, <3>2
  <2> QED
    BY <1>1, <2>1, <2>2, <2>4 DEF OnDesk
<1> QED
  BY <1>1, <1>3, <1>4

-----------------------------------------------------------------------------
(* The page, which is read in pieces.                                      *)

PageEdge == [from: Nodes, process: Nodes \cup {Nothing}]
Page ==
  [at: {"idle", "edges", "sets", "done"}, nodes: SUBSET Nodes, edges: SUBSET PageEdge, locks: SUBSET Nodes]

\* The nodes that were read: no members but uploads, and their inputs with them.
NodesRead ==
  \A n \in page.nodes :
    /\ Lineage[n].set # Nothing => Lineage[n].of = Top
    /\ Lineage[n].of # Top =>
         Lineage[n].of \in page.nodes \/ Lineage[n].of \in hidden \/ Lineage[Lineage[n].of].set # Nothing

\* An edge that was read with its process is of a node with all its statements.
EdgesRead ==
  \A e \in page.edges :
    e.from \in page.nodes /\ Lineage[e.from].of # Top /\ (e.process # Nothing => Entire(e.from))

\* The sets that were read as processed have an output with all its statements,
\* and the sets drawn with one are among them unless the output has gone since.
LocksRead ==
  /\ \A s \in page.locks : \E n \in Nodes : Lineage[n].of = s /\ Entire(n)
  /\ page.at = "done" =>
       \A e \in page.edges :
         e.process # Nothing /\ Lineage[e.from].of \in page.nodes /\ Lineage[Lineage[e.from].of].type = "Set" =>
           e.from \in taken \/ Lineage[e.from].of \in page.locks

PageInv == StagesTypeOK /\ page \in Page /\ NodesRead /\ EdgesRead /\ LocksRead

LEMMA PageBegins == DeskInit => PageInv
<1> SUFFICES ASSUME DeskInit PROVE PageInv
  OBVIOUS
<1>1. /\ stage = [n \in Nodes |-> 0] /\ page \in Page
      /\ page.nodes = {} /\ page.edges = {} /\ page.locks = {} /\ page.at = "idle"
  BY DEF DeskInit, NoPage, Page
<1>2. StagesTypeOK
  BY <1>1, StatementsEnd DEF StagesTypeOK
<1> QED
  BY <1>1, <1>2 DEF PageInv, NodesRead, EdgesRead, LocksRead

\* While the page stays, nodes get on, are hidden and go, and nothing is undone.
LEMMA PageStays ==
  ASSUME PageInv, StagesTypeOK', page' = page, hidden \subseteq hidden', taken \subseteq taken',
         \A n \in Nodes : Entire(n) => Entire(n)'
  PROVE  PageInv'
<1>1. page' \in Page
  BY DEF PageInv
<1>2. NodesRead'
  BY DEF PageInv, NodesRead
<1>3. EdgesRead'
  BY DEF PageInv, EdgesRead, Page, PageEdge
<1>4. LocksRead'
  BY DEF PageInv, LocksRead
<1> QED
  BY <1>1, <1>2, <1>3, <1>4 DEF PageInv, Page

LEMMA NodeStatementKeeps ==
  ASSUME PageInv, NEW n \in Nodes, nodeStatement(n)
  PROVE  PageInv'
<1>1. /\ n \notin taken /\ stage[n] # Len(Statements(n)) /\ stage' = [stage EXCEPT ![n] = stage[n] + 1]
      /\ hidden' = hidden /\ taken' = taken /\ page' = page
  BY DEF nodeStatement, Whole
<1>2. stage'[n] = stage[n] + 1 /\ \A m \in Nodes : m # n => stage'[m] = stage[m]
  BY <1>1 DEF PageInv, StagesTypeOK
<1>3. StagesTypeOK'
  <2>1. stage[n] \in Nat /\ Len(Statements(n)) \in Nat /\ stage[n] <= Len(Statements(n))
    BY StatementsEnd DEF PageInv, StagesTypeOK
  <2>2. stage[n] + 1 <= Len(Statements(n)) /\ stage[n] + 1 \in Nat
    BY <1>1, <2>1
  <2>3. stage' \in [Nodes -> Nat]
    BY <1>1, <2>2 DEF PageInv, StagesTypeOK
  <2> QED
    BY <1>2, <2>2, <2>3 DEF PageInv, StagesTypeOK, Statements
<1>4. \A m \in Nodes : Entire(m) => Entire(m)'
  BY <1>1, <1>2 DEF Entire, Statements
<1> QED
  BY <1>1, <1>3, <1>4, PageStays

LEMMA NodesGoKeeps ==
  ASSUME PageInv, NEW n \in Nodes, hide(n) \/ nodeGoes(n)
  PROVE  PageInv'
<1>1. stage' = stage /\ page' = page /\ hidden \subseteq hidden' /\ taken \subseteq taken'
  BY DEF hide, nodeGoes
<1>2. StagesTypeOK'
  BY <1>1 DEF PageInv, StagesTypeOK, Statements
<1>3. \A m \in Nodes : Entire(m) => Entire(m)'
  BY <1>1 DEF Entire, Statements
<1> QED
  BY <1>1, <1>2, <1>3, PageStays

\* The nodes are read with their inputs.
LEMMA ForProjectKeeps ==
  ASSUME PageInv, forProject
  PROVE  PageInv'
<1>1. /\ page' = [at |-> "edges", nodes |-> DeskNodes, edges |-> {}, locks |-> {}]
      /\ stage' = stage /\ hidden' = hidden /\ taken' = taken
  BY DEF forProject, nodeVars
<1>2. StagesTypeOK'
  BY <1>1 DEF PageInv, StagesTypeOK, Statements
<1>3. DeskNodes \subseteq OnDesk /\ OnDesk \subseteq Nodes
  BY DEF DeskNodes, OnDesk
<1>4. NodesRead'
  <2> SUFFICES ASSUME NEW n \in DeskNodes
               PROVE  /\ Lineage[n].set # Nothing => Lineage[n].of = Top
                      /\ Lineage[n].of # Top =>
                           Lineage[n].of \in DeskNodes \/ Lineage[n].of \in hidden \/ Lineage[Lineage[n].of].set # Nothing
    BY <1>1 DEF NodesRead
  <2>1. n \in OnDesk /\ n \in Nodes /\ ~Has(n, "member") /\ StagesTypeOK
    BY <1>3 DEF DeskNodes, PageInv
  <2>2. Has(n, "edge") /\ (Lineage[n].of # Top => Lineage[n].of \in OnDesk)
    BY <2>1, InputOnDesk
  <2>3. Lineage[n].set # Nothing => Lineage[n].of = Top
    BY <2>1, <2>2, DerivedNode
  <2>4. ASSUME Lineage[n].of # Top, Lineage[n].of \notin hidden, Lineage[Lineage[n].of].set = Nothing
        PROVE  Lineage[n].of \in DeskNodes
    <3>1. PICK u : u = Lineage[n].of
      OBVIOUS
    <3>2. u \in OnDesk /\ u \in Nodes
      BY <1>3, <2>2, <2>4, <3>1
    <3>3. Lineage[u].type # "Process"
      BY <2>1, <3>1, <3>2, DeskConstants
    <3>4. ~Has(u, "member")
      BY <2>1, <2>4, <3>1, <3>2, MemberHasSet
    <3> QED
      BY <2>4, <3>1, <3>2, <3>3, <3>4 DEF DeskNodes
  <2> QED
    BY <2>3, <2>4
<1>5. page' \in Page
  BY <1>1, <1>3 DEF Page
<1> QED
  BY <1>1, <1>2, <1>4, <1>5 DEF PageInv, EdgesRead, LocksRead

LEMMA EdgesOfKeeps ==
  ASSUME PageInv, edgesOf
  PROVE  PageInv'
<1>1. PICK E : E = {[from |-> n, process |-> IF Has(n, "tell") THEN Lineage[n].process ELSE Nothing] :
                      n \in {m \in page.nodes : Lineage[m].of # Top /\ Has(m, "edge")}}
  OBVIOUS
<1>2. page' = [page EXCEPT !.at = "sets", !.edges = E] /\ stage' = stage /\ hidden' = hidden /\ taken' = taken
  BY <1>1 DEF edgesOf, nodeVars
<1>3. \A e \in E : e \in PageEdge /\ e.from \in page.nodes /\ Lineage[e.from].of # Top /\ (e.process # Nothing => Entire(e.from))
  <2> SUFFICES ASSUME NEW n \in page.nodes, Lineage[n].of # Top, Has(n, "edge"),
                      NEW e, e = [from |-> n, process |-> IF Has(n, "tell") THEN Lineage[n].process ELSE Nothing]
               PROVE  e \in PageEdge /\ e.from = n /\ (e.process # Nothing => Entire(n))
    BY <1>1
  <2>1. n \in Nodes /\ StagesTypeOK
    BY DEF PageInv, Page
  <2>2. Lineage[n].process \in Nodes \cup {Nothing}
    BY <2>1, DeskConstants
  <2>3. Has(n, "tell") => Entire(n)
    BY <2>1, DerivedNode
  <2> QED
    BY <2>1, <2>2, <2>3 DEF PageEdge
<1>4. page' \in Page /\ page'.at = "sets" /\ page'.edges = E /\ page'.nodes = page.nodes /\ page'.locks = page.locks
  BY <1>2, <1>3 DEF PageInv, Page
<1>5. StagesTypeOK' /\ \A n : Entire(n)' = Entire(n)
  BY <1>2 DEF PageInv, StagesTypeOK, Entire, Statements
<1>6. NodesRead'
  BY <1>2, <1>4 DEF PageInv, NodesRead
<1>7. EdgesRead'
  BY <1>3, <1>4, <1>5 DEF EdgesRead
<1>8. LocksRead'
  BY <1>4, <1>5 DEF PageInv, LocksRead
<1> QED
  BY <1>4, <1>5, <1>6, <1>7, <1>8 DEF PageInv

LEMMA DecorateSetsKeeps ==
  ASSUME PageInv, decorateSets
  PROVE  PageInv'
<1>1. PICK L : L = processedSetRids({n \in page.nodes : Lineage[n].type = "Set"})
  OBVIOUS
<1>2. page' = [page EXCEPT !.at = "done", !.locks = L] /\ stage' = stage /\ hidden' = hidden /\ taken' = taken
  BY <1>1 DEF decorateSets, nodeVars
<1>3. L \subseteq page.nodes /\ page.nodes \subseteq Nodes /\ StagesTypeOK
  BY <1>1 DEF processedSetRids, PageInv, Page
<1>4. page' \in Page /\ page'.at = "done" /\ page'.edges = page.edges /\ page'.nodes = page.nodes /\ page'.locks = L
  BY <1>2, <1>3 DEF PageInv, Page
<1>5. StagesTypeOK' /\ \A n : Entire(n)' = Entire(n)
  BY <1>2 DEF PageInv, StagesTypeOK, Entire, Statements
<1>6. NodesRead'
  BY <1>2, <1>4 DEF PageInv, NodesRead
<1>7. EdgesRead'
  BY <1>4, <1>5 DEF PageInv, EdgesRead
<1>8. \A s \in L : \E n \in Nodes : Lineage[n].of = s /\ Entire(n)
  <2> SUFFICES ASSUME NEW s \in L
               PROVE  \E n \in Nodes : Lineage[n].of = s /\ Entire(n)
    OBVIOUS
  <2>1. PICK n \in Outputs(s) : Has(n, "tell")
    BY <1>1 DEF processedSetRids
  <2>2. n \in Nodes /\ Lineage[n].of = s /\ s # Top
    BY <1>3, <2>1, DeskConstants DEF Outputs
  <2>3. Entire(n)
    BY <1>3, <2>1, <2>2, DerivedNode
  <2> QED
    BY <2>2, <2>3
<1>9. ASSUME NEW e \in page.edges, e.process # Nothing, Lineage[e.from].of \in page.nodes,
             Lineage[Lineage[e.from].of].type = "Set", e.from \notin taken
      PROVE  Lineage[e.from].of \in L
  <2>1. e.from \in Nodes /\ Lineage[e.from].of # Top /\ Entire(e.from)
    BY <1>3, <1>9 DEF PageInv, EdgesRead
  <2>2. Has(e.from, "edge") /\ Has(e.from, "tell")
    BY <1>3, <1>9, <2>1, DerivedNode
  <2>3. e.from \in Outputs(Lineage[e.from].of)
    BY <2>1, <2>2 DEF Outputs
  <2> QED
    BY <1>1, <1>9, <2>2, <2>3 DEF processedSetRids
<1>10. LocksRead'
  BY <1>2, <1>4, <1>5, <1>8, <1>9 DEF LocksRead
<1> QED
  BY <1>4, <1>5, <1>6, <1>7, <1>10 DEF PageInv

\* What was read in pieces fits together.
LEMMA PageFits == PageInv => PageFitsTogether
<1> SUFFICES ASSUME PageInv, page.at = "done"
             PROVE  PageFitsTogether
  BY DEF PageFitsTogether
<1>1. ASSUME NEW f \in toVueFlow.edges
      PROVE  f[1] \in toVueFlow.nodes \/ f[1] \in hidden \/ Lineage[f[1]].set # Nothing
  <2>1. PICK e \in page.edges : f = <<Lineage[e.from].of, e.process>> \/ f = <<e.process, e.from>>
    BY <1>1 DEF toVueFlow
  <2>2. e.process \in toVueFlow.nodes /\ page.nodes \subseteq toVueFlow.nodes
    BY DEF toVueFlow
  <2>3. e.from \in page.nodes /\ Lineage[e.from].of # Top
    BY DEF PageInv, EdgesRead
  <2>4. \/ Lineage[e.from].of \in page.nodes \/ Lineage[e.from].of \in hidden
        \/ Lineage[Lineage[e.from].of].set # Nothing
    BY <2>3 DEF PageInv, NodesRead
  <2>5. f[1] = Lineage[e.from].of \/ f[1] = e.process
    BY <2>1
  <2> QED
    BY <2>2, <2>4, <2>5
<1>2. \A n \in page.nodes : Lineage[n].set # Nothing => Lineage[n].of = Top
  BY DEF PageInv, NodesRead
<1>3. \A s \in page.locks : \E n \in Nodes : Lineage[n].of = s /\ stage[n] = Len(Statements(n))
  BY DEF PageInv, LocksRead, Entire
<1>4. \A e \in page.edges :
        e.process # Nothing /\ Lineage[e.from].of \in page.nodes
          /\ Lineage[Lineage[e.from].of].type = "Set" /\ Has(e.from, "tell") => Lineage[e.from].of \in page.locks
  BY DEF PageInv, LocksRead, Has
<1> QED
  BY <1>1, <1>2, <1>3, <1>4 DEF PageFitsTogether

\* Two parts that share nothing: the steps of one leave the other as it is.
LEMMA DeskStep ==
  ASSUME DesksInv, PageInv, [DeskNext]_deskVars
  PROVE  DesksInv' /\ PageInv'
<1>1. ASSUME UNCHANGED <<stage, hidden, taken, page>> PROVE PageInv'
  <2>1. StagesTypeOK' /\ \A n \in Nodes : Entire(n) => Entire(n)'
    BY <1>1 DEF PageInv, StagesTypeOK, Entire, Statements
  <2> QED
    BY <1>1, <2>1, PageStays
<1>2. CASE ProjectSteps
  <2>1. UNCHANGED <<stage, hidden, taken, page>>
    BY <1>2 DEF ProjectSteps, create, createVertex, connectOwner, setAttribute, deleteDesk, deskGoes, nodeVars
  <2> QED
    BY <1>1, <1>2, <2>1, ProjectStepsKeep
<1>3. CASE PageSteps
  <2>1. UNCHANGED projectVars
    BY <1>3 DEF PageSteps, nodeStatement, hide, nodeGoes, forProject, edgesOf, decorateSets
  <2>2. PageInv'
    BY <1>3, NodeStatementKeeps, NodesGoKeeps, ForProjectKeeps, EdgesOfKeeps, DecorateSetsKeeps DEF PageSteps
  <2> QED
    BY <2>1, <2>2, DesksQuiet
<1>4. CASE UNCHANGED deskVars
  <2>1. UNCHANGED projectVars /\ UNCHANGED <<stage, hidden, taken, page>>
    BY <1>4 DEF deskVars, projectVars
  <2> QED
    BY <1>1, <2>1, DesksQuiet
<1> QED
  BY <1>2, <1>3, <1>4 DEF DeskNext

\* Any requests for desks, any lineage of the nodes, and any moments at which
\* the page is read: a name stays one desk's unless requests met, and what the
\* page draws fits together (projects.ts:48-49, desk-graph.ts:29-47, 106-127).
THEOREM PagesFit == DeskSpec => []DesksAreShownRight
<1>1. DeskInit => DesksInv /\ PageInv
  BY DesksBegin, PageBegins
<1>2. DesksInv /\ PageInv /\ [DeskNext]_deskVars => (DesksInv /\ PageInv)'
  BY DeskStep
<1>3. DesksInv /\ PageInv => DesksAreShownRight
  BY DesksHaveNames, PageFits DEF DesksAreShownRight
<1> QED
  BY <1>1, <1>2, <1>3, PTL DEF DeskSpec

-----------------------------------------------------------------------------
(* The import of a PDF.  While no lease lapses its one job has one holder   *)
(* at a time, so the argument follows that holder page by page: the counter *)
(* of processed files never runs ahead of the pages it told, and falls back *)
(* behind them for good when one of them was lost.                          *)

-----------------------------------------------------------------------------
(* Types.                                                                  *)

\* Nothing of the PDF has been posted yet, ...
Unsplit == {"claimed", "failing", "failed", "erred"}

\* ... the page is not yet told, or it is.
Telling == {"posting", "creating", "created", "counting"}

Ending == {"finishing", "removing", "flagging", "ending"}

Posting == Telling \cup Ending \cup {"answered"}

WorkType == [job: 0..lastId, page: Pages,
             at: Unsplit \cup Posting \cup {"idle"}]

PdfType == [onDisk: BOOLEAN, status: {"none", "importing", "split", "import_failed"},
            fileRemoved: BOOLEAN, processable: BOOLEAN]

ImportType == [status: {"none", "running", "done", "failed"}, processed: Nat,
               deleteOriginal: {"unset", "true", "false"}]

SpentType == [faults: 0..MaxFaults, crashes: 0..MaxCrashes, lapses: 0..MaxLapses]

NodesOK ==
  /\ pdf \in PdfType /\ import \in ImportType
  /\ pages \in [Pages -> Nat]
  /\ upload \in {"new", "published", "over"}
  /\ spent \in SpentType

ImportTypes == TypeOK /\ NodesOK /\ work \in [Adapters -> WorkType]

\* An adapter is at another step, with another job or another page.
Replaced(a, w) == w \in WorkType' /\ work' = [work EXCEPT ![a] = w]

-----------------------------------------------------------------------------
(* The inductive invariant.                                                *)

AllThere == \A p \in Pages : pages[p] > 0

\* The pages the backend has heard of from an adapter.
Told(w) == IF w.at \in Telling THEN w.page - 1 ELSE w.page

\* An upload publishes one job.
OneJob == lastId <= 1 /\ (upload = "new" => lastId = 0)

\* While the job waits nothing was counted.
Waiting ==
  lastId = 0 \/ (\E j \in Rows : jobs[j].status = "queued") => import.processed = 0

\* What an adapter at work may rely on.
Sound(w) ==
  /\ w.at \in Unsplit => import.processed = 0 /\ w.page = 1
  /\ w.at \in Posting =>
       /\ import.processed <= Told(w)
       /\ (\E p \in 1..Told(w) : pages[p] = 0) => import.processed < Told(w)
  /\ w.at \in {"created", "counting"} => pages[w.page] > 0
  /\ w.at \in Ending => AllThere

Working(a) == work[a].at # "idle" => OwnedBy(work[a].job, a) /\ Sound(work[a])

SplitInv ==
  /\ LeasesLive /\ OneJob /\ Waiting
  /\ \A a \in Adapters : Working(a)
  /\ ~pdf.onDisk => AllThere

ImportInv == ImportTypes /\ (spent.lapses = 0 => SplitInv)

-----------------------------------------------------------------------------
(* How the variables change.                                               *)

\* One adapter goes on, and the others stay where they are.
LEMMA WorkReplaced ==
  ASSUME work \in [Adapters -> WorkType], lastId' = lastId, NEW a \in Adapters,
         NEW w, Replaced(a, w)
  PROVE  /\ work' \in [Adapters -> WorkType'] /\ work'[a] = w
         /\ \A c \in Adapters \ {a} : work'[c] = work[c]
BY DEF Replaced, WorkType

LEMMA WorkStepped ==
  ASSUME work \in [Adapters -> WorkType], lastId' = lastId, NEW a \in Adapters,
         NEW at, NEW next \in Unsplit \cup Posting, Step(a, at, next)
  PROVE  /\ work[a].at = at
         /\ \E w : /\ Replaced(a, w) /\ w.at = next
                   /\ w.job = work[a].job /\ w.page = work[a].page
<1>1. PICK w : w = [work[a] EXCEPT !.at = next]
  OBVIOUS
<1>2. work[a] \in WorkType
  OBVIOUS
<1>3. /\ w \in WorkType /\ w.at = next
      /\ w.job = work[a].job /\ w.page = work[a].page
  BY <1>1, <1>2 DEF WorkType
<1>4. work' = [work EXCEPT ![a] = w]
  BY <1>1 DEF Step
<1>. QED  BY <1>3, <1>4 DEF Replaced, Step, WorkType

\* The steps of an adapter that leave the queue alone.
LEMMA SplitSteps ==
  ASSUME ImportTypes, NEW a \in Adapters, UNCHANGED vars,
         \/ readPdf(a) \/ handleOutput(a) \/ createPage(a) \/ failOutput(a)
         \/ notifyPage(a) \/ countPage(a) \/ markDone(a) \/ completeImport(a)
         \/ nextPage(a) \/ failPdf(a) \/ failProcess(a)
  PROVE  \E w : Replaced(a, w)
<1>. USE DEF ImportTypes
<1>0. lastId' = lastId
  BY DEF vars
<1>1. CASE nextPage(a)
  <2>1. PICK w : w = [work[a] EXCEPT !.at = "posting", !.page = work[a].page + 1]
    OBVIOUS
  <2>2. work[a] \in WorkType /\ work[a].page < Total
    BY <1>1 DEF nextPage
  <2>3. work[a].page + 1 \in Pages
    BY <2>2, ImportConstants DEF WorkType, Pages
  <2>4. w \in WorkType
    BY <2>1, <2>2, <2>3 DEF WorkType, Posting, Telling
  <2>5. work' = [work EXCEPT ![a] = w]
    BY <1>1, <2>1 DEF nextPage
  <2>. QED  BY <1>0, <2>4, <2>5 DEF Replaced, WorkType
<1>2. CASE ~nextPage(a)
  <2>1. \E at, next : Step(a, at, next) /\ next \in Unsplit \cup Posting
    BY <1>2 DEF readPdf, handleOutput, createPage, failOutput, notifyPage, countPage,
                markDone, completeImport, removeOriginal, markRemoved, markSplit,
                failPdf, failProcess, Answer, Unsplit, Posting, Telling, Ending
  <2>. QED  BY <1>0, <2>1, WorkStepped
<1>. QED  BY <1>1, <1>2

\* The nodes keep their types.
LEMMA NodesTyped ==
  ASSUME NodesOK, NEW a \in Adapters, work[a].page \in Pages,
         \/ readPdf(a) \/ handleOutput(a) \/ createPage(a) \/ failOutput(a)
         \/ notifyPage(a) \/ countPage(a) \/ markDone(a) \/ completeImport(a)
         \/ nextPage(a) \/ failPdf(a) \/ failProcess(a)
  PROVE  NodesOK'
<1>. USE DEF NodesOK
<1>1. CASE createPage(a)
  <2>. PICK p \in Pages : p = work[a].page
    OBVIOUS
  <2>1. pages' = [pages EXCEPT ![p] = pages[p] + 1] /\ UNCHANGED <<pdf, import, upload, spent>>
    BY <1>1 DEF createPage
  <2>. QED  BY <2>1
<1>2. CASE countPage(a)
  <2>1. PICK n : n = [import EXCEPT !.processed = import.processed + 1]
    OBVIOUS
  <2>2. import' = n /\ UNCHANGED <<pdf, pages, upload, spent>>
    BY <1>2, <2>1 DEF countPage
  <2>3. n \in ImportType
    BY <2>1 DEF ImportType
  <2>. QED  BY <2>2, <2>3
<1>3. CASE markDone(a) \/ failProcess(a)
  <2>1. PICK status \in {"done", "failed"} :
          /\ import' = [import EXCEPT !.status = status]
          /\ UNCHANGED <<pdf, pages, upload, spent>>
    BY <1>3 DEF markDone, failProcess
  <2>2. import' \in ImportType
    BY <2>1 DEF ImportType
  <2>. QED  BY <2>1, <2>2
<1>4. CASE completeImport(a) \/ failPdf(a)
  BY <1>4 DEF completeImport, removeOriginal, markRemoved, markSplit, failPdf, PdfType
<1>5. CASE readPdf(a) \/ failOutput(a)
  <2>1. UNCHANGED <<pdf, import, pages, upload>> /\ (UNCHANGED spent \/ Fault)
    BY <1>5 DEF readPdf, failOutput
  <2>2. Fault => spent' \in SpentType
    BY ImportConstants DEF Fault, SpentType
  <2>. QED  BY <2>1, <2>2
<1>6. CASE handleOutput(a) \/ notifyPage(a) \/ nextPage(a)
  BY <1>6 DEF handleOutput, notifyPage, nextPage
<1>. QED  BY <1>1, <1>2, <1>3, <1>4, <1>5, <1>6

\* Two adapters do not work at once: there is one job, and it has one holder.
LEMMA OneHolder ==
  ASSUME ImportTypes, SplitInv, NEW a \in Adapters, NEW c \in Adapters \ {a},
         work[a].at # "idle"
  PROVE  work[c].at = "idle" /\ \A j \in Rows : jobs[j].status # "queued"
<1>1. \A j \in Rows : j = 1
  BY DEF ImportTypes, TypeOK, SplitInv, OneJob
<1>. QED  BY <1>1 DEF SplitInv, Working, OwnedBy

LEMMA NoneWaits ==
  ASSUME ImportTypes, SplitInv, NEW a \in Adapters, work[a].at # "idle"
  PROVE  lastId = 1 /\ \A j \in Rows : jobs[j].status = "running"
<1>1. \A j \in Rows : j = 1
  BY DEF ImportTypes, TypeOK, SplitInv, OneJob
<1>2. work[a].job \in Rows /\ jobs[work[a].job].status = "running"
  BY DEF SplitInv, Working, OwnedBy
<1>3. 1 \in 1..lastId /\ lastId \in Int
  <2>1. 1 \in Rows
    BY <1>1, <1>2
  <2>2. Rows \subseteq 1..lastId /\ lastId \in 0..MaxJobs
    BY DEF ImportTypes, TypeOK
  <2>. HIDE DEF Rows
  <2>. QED  BY <2>1, <2>2, JobQueueConstants
<1>4. lastId = 1
  BY <1>3 DEF SplitInv, OneJob
<1>. QED  BY <1>1, <1>2, <1>4

\* It is enough that the adapter that goes on stays sound.
LEMMA OwnStep ==
  ASSUME ImportTypes, SplitInv, UNCHANGED <<vars, upload>>,
         NEW a \in Adapters, NEW w, Replaced(a, w), work[a].at # "idle",
         w.job = work[a].job, Sound(w)', ~pdf'.onDisk => AllThere'
  PROVE  SplitInv'
<1>1. UNCHANGED <<jobs, lastId>>
  BY DEF vars
<1>2. /\ work' \in [Adapters -> WorkType'] /\ work'[a] = w
      /\ \A c \in Adapters \ {a} : work'[c] = work[c]
  BY <1>1, WorkReplaced DEF ImportTypes
<1>3. LeasesLive' /\ OneJob'
  BY <1>1 DEF SplitInv, LeasesLive, OneJob, Rows
<1>4. Waiting'
  BY <1>1, NoneWaits DEF Waiting, Rows
<1>5. OwnedBy(w.job, a)'
  BY <1>1 DEF SplitInv, Working, OwnedBy, Rows
<1>6. \A c \in Adapters : Working(c)'
  BY <1>2, <1>5, OneHolder DEF Working
<1>. QED  BY <1>3, <1>4, <1>6 DEF SplitInv

\* What is known of the adapter that goes on.
LEMMA AtWork ==
  ASSUME ImportTypes, SplitInv, NEW a \in Adapters, work[a].at # "idle"
  PROVE  /\ Sound(work[a]) /\ work[a] \in WorkType
         /\ work[a].page \in 1..Total /\ Total \in Nat
         /\ import.processed \in Nat /\ \A p \in 1..Total : pages[p] \in Nat
         /\ pdf.onDisk \/ AllThere
BY ImportConstants DEF ImportTypes, NodesOK, SplitInv, Working, WorkType, ImportType, Pages

\* The steps of the adapter itself.
LEMMA SplitterKeeps ==
  ASSUME ImportTypes, SplitInv, NEW a \in Adapters,
         readPdf(a) \/ nextPage(a) \/ failPdf(a) \/ failProcess(a)
  PROVE  SplitInv'
<1>. USE DEF ImportTypes
<1>1. CASE readPdf(a)
  <2>1. /\ UNCHANGED <<vars, pdf, import, pages, upload>>
        /\ Step(a, "claimed", "posting") \/ Step(a, "claimed", "failing")
    BY <1>1 DEF readPdf
  <2>2. PICK w : /\ Replaced(a, w) /\ w.at \in {"posting", "failing"}
                 /\ w.job = work[a].job /\ w.page = work[a].page
                 /\ work[a].at = "claimed"
    BY <2>1, WorkStepped DEF vars, Unsplit, Posting, Telling
  <2>3. import.processed = 0 /\ w.page = 1 /\ (pdf.onDisk \/ AllThere)
    BY <2>2, AtWork DEF Sound, Unsplit
  <2>4. Sound(w)'
    BY <2>1, <2>2, <2>3 DEF Sound, Unsplit, Posting, Telling, Ending, Told
  <2>. QED  BY <2>1, <2>2, <2>3, <2>4, OwnStep DEF AllThere
<1>2. CASE nextPage(a)
  <2>1. UNCHANGED <<vars, pdf, import, pages, upload>>
    BY <1>2 DEF nextPage
  <2>2. work[a].at = "answered" /\ work[a].page < Total /\ work[a] \in WorkType
    BY <1>2 DEF nextPage
  <2>3. /\ work[a].page \in 1..Total /\ work[a].page + 1 \in Pages
        /\ pdf.onDisk \/ AllThere
    BY <2>2, AtWork DEF Pages
  <2>4. PICK w : w = [work[a] EXCEPT !.at = "posting", !.page = work[a].page + 1]
    OBVIOUS
  <2>5. /\ w \in WorkType /\ w.job = work[a].job /\ w.at = "posting"
        /\ w.page = work[a].page + 1
    BY <2>2, <2>3, <2>4 DEF WorkType, Posting, Telling
  <2>6. Replaced(a, w)
    <3>1. work' = [work EXCEPT ![a] = w]
      BY <1>2, <2>4 DEF nextPage
    <3>. QED  BY <2>1, <2>5, <3>1 DEF Replaced, WorkType, vars
  <2>7. Told(w) = Told(work[a])
    BY <2>2, <2>3, <2>5 DEF Told, Telling
  <2>8. Sound(w)'
    <3>1. Sound(work[a])
      BY <2>2, AtWork
    <3>. QED  BY <2>1, <2>2, <2>5, <2>7, <3>1
                 DEF Sound, Unsplit, Posting, Telling, Ending, Told
  <2>. QED  BY <2>1, <2>2, <2>3, <2>5, <2>6, <2>8, OwnStep DEF AllThere
<1>3. CASE failPdf(a) \/ failProcess(a)
  <2>1. /\ UNCHANGED <<vars, pages, upload>>
        /\ pdf'.onDisk = pdf.onDisk /\ import'.processed = import.processed
    BY <1>3 DEF failPdf, failProcess, NodesOK, PdfType, ImportType
  <2>2. PICK w : /\ Replaced(a, w) /\ w.at \in Unsplit
                 /\ w.job = work[a].job /\ w.page = work[a].page
                 /\ work[a].at \in Unsplit
    BY <1>3, <2>1, WorkStepped DEF vars, failPdf, failProcess, Unsplit, Posting
  <2>3. import.processed = 0 /\ w.page = 1 /\ (pdf.onDisk \/ AllThere)
    BY <2>2, AtWork DEF Sound, Unsplit
  <2>4. Sound(w)'
    BY <2>1, <2>2, <2>3 DEF Sound, Unsplit, Posting, Telling, Ending
  <2>. QED  BY <2>1, <2>2, <2>3, <2>4, OwnStep DEF AllThere, Unsplit
<1>. QED  BY <1>1, <1>2, <1>3

\* The handlers of a page.
LEMMA PageKeeps ==
  ASSUME ImportTypes, SplitInv, NEW a \in Adapters,
         handleOutput(a) \/ createPage(a) \/ failOutput(a) \/ notifyPage(a)
  PROVE  SplitInv'
<1>. USE DEF ImportTypes
<1>1. UNCHANGED <<vars, pdf, import, upload>>
  BY DEF handleOutput, createPage, failOutput, notifyPage
<1>2. PICK w : /\ Replaced(a, w) /\ w.at \in {"creating", "created", "counting", "answered"}
               /\ w.job = work[a].job /\ w.page = work[a].page
               /\ \/ work[a].at = "posting" /\ w.at \in {"creating", "answered"}
                  \/ createPage(a) /\ work[a].at = "creating" /\ w.at = "created"
                  \/ work[a].at = "creating" /\ w.at = "answered"
                  \/ work[a].at = "created" /\ w.at \in {"counting", "answered"}
               /\ createPage(a) \/ UNCHANGED pages
  <2>1. lastId' = lastId
    BY <1>1 DEF vars
  <2>2. CASE handleOutput(a)
    <3>1. PICK next \in {"creating", "answered"} : Step(a, "posting", next) /\ UNCHANGED pages
      BY <2>2 DEF handleOutput, Answer
    <3>. QED  BY <2>1, <3>1, WorkStepped DEF Posting, Telling
  <2>3. CASE createPage(a)
    BY <2>1, <2>3, WorkStepped DEF createPage, Posting, Telling
  <2>4. CASE failOutput(a)
    BY <2>1, <2>4, WorkStepped DEF failOutput, Posting, Telling
  <2>5. CASE notifyPage(a)
    <3>1. PICK next \in {"counting", "answered"} : Step(a, "created", next) /\ UNCHANGED pages
      BY <2>5 DEF notifyPage, Answer
    <3>. QED  BY <2>1, <3>1, WorkStepped DEF Posting, Telling
  <2>. QED  BY <2>2, <2>3, <2>4, <2>5
<1>3. /\ Sound(work[a]) /\ work[a].page \in 1..Total /\ Total \in Nat
      /\ import.processed \in Nat /\ \A p \in 1..Total : pages[p] \in Nat
      /\ pdf.onDisk \/ AllThere
  BY <1>2, AtWork
<1>4. /\ \A p \in 1..Total : pages[p] > 0 => pages'[p] > 0
      /\ createPage(a) => pages'[work[a].page] > 0
  <2>1. PICK n \in Pages : n = work[a].page
    BY <1>3 DEF Pages
  <2>2. CASE createPage(a)
    <3>1. pages' = [pages EXCEPT ![n] = pages[n] + 1]
      BY <2>1, <2>2 DEF createPage
    <3>. QED  BY <1>3, <2>1, <3>1 DEF NodesOK, Pages
  <2>. QED  BY <1>2, <2>2
<1>5. AllThere => AllThere'
  BY <1>4 DEF AllThere, Pages
<1>6. Sound(w)'
  <2>1. /\ import.processed <= work[a].page - 1
        /\ (\E p \in 1..(work[a].page - 1) : pages[p] = 0)
             => import.processed < work[a].page - 1
        /\ work[a].at = "created" => pages[work[a].page] > 0
    BY <1>2, <1>3 DEF Sound, Told, Posting, Telling
  <2>2. (\E p \in 1..(work[a].page - 1) : pages'[p] = 0)
          => import.processed < work[a].page - 1
    BY <1>3, <1>4, <2>1
  <2>3. w.at \in {"created", "counting"} => pages'[w.page] > 0
    BY <1>2, <1>3, <1>4, <2>1
  <2>4. /\ import.processed <= Told(w)
        /\ (\E p \in 1..Told(w) : pages'[p] = 0) => import.processed < Told(w)
    <3>1. CASE w.at = "answered"
      BY <1>2, <1>3, <2>1, <3>1 DEF Told, Telling
    <3>2. CASE w.at # "answered"
      BY <1>2, <1>3, <2>1, <2>2, <3>2 DEF Told, Telling
    <3>. QED  BY <3>1, <3>2
  <2>. QED  BY <1>1, <1>2, <2>3, <2>4 DEF Sound, Unsplit, Ending
<1>. QED  BY <1>1, <1>2, <1>3, <1>5, <1>6, OwnStep

\* The counter: it reaches Total only when no page was lost on the way.
LEMMA CountKeeps ==
  ASSUME ImportTypes, SplitInv, NEW a \in Adapters, countPage(a)
  PROVE  SplitInv'
<1>. USE DEF ImportTypes
<1>1. UNCHANGED <<vars, pdf, pages, upload>> /\ import'.processed = import.processed + 1
  BY DEF countPage, NodesOK, ImportType
<1>2. PICK w : /\ Replaced(a, w) /\ work[a].at = "counting"
               /\ w.job = work[a].job /\ w.page = work[a].page
               /\ w.at \in {"finishing", "answered"}
               /\ w.at = "finishing" => AllSplit(import'.processed)
  <2>1. PICK next \in {"finishing", "answered"} :
          Step(a, "counting", next) /\ (next = "finishing" => AllSplit(import'.processed))
    BY DEF countPage
  <2>. QED  BY <1>1, <2>1, WorkStepped DEF vars, Posting, Ending
<1>3. /\ Sound(work[a]) /\ work[a].page \in 1..Total /\ Total \in Nat
      /\ import.processed \in Nat /\ \A p \in 1..Total : pages[p] \in Nat
      /\ pdf.onDisk \/ AllThere
  BY <1>2, AtWork
<1>4. /\ import.processed <= work[a].page - 1
      /\ (\E p \in 1..(work[a].page - 1) : pages[p] = 0)
           => import.processed < work[a].page - 1
      /\ pages[work[a].page] > 0
  BY <1>2, <1>3 DEF Sound, Told, Posting, Telling
<1>5. /\ import'.processed <= w.page
      /\ (\E p \in 1..w.page : pages'[p] = 0) => import'.processed < w.page
  <2>1. ASSUME NEW p \in 1..w.page, pages[p] = 0
        PROVE  p \in 1..(work[a].page - 1)
    BY <1>2, <1>3, <1>4, <2>1
  <2>. QED  BY <1>1, <1>2, <1>3, <1>4, <2>1
<1>6. w.at = "finishing" => AllThere'
  <2>1. SUFFICES ASSUME w.at = "finishing" PROVE \A p \in 1..Total : pages'[p] > 0
    BY DEF AllThere, Pages
  <2>2. w.page = Total /\ import'.processed = Total
    BY <1>1, <1>2, <1>3, <1>5, <2>1 DEF AllSplit
  <2>. QED  BY <1>1, <1>3, <1>5, <2>2
<1>7. Sound(w)'
  BY <1>2, <1>5, <1>6 DEF Sound, Unsplit, Posting, Telling, Ending, Told
<1>. QED  BY <1>1, <1>2, <1>3, <1>7, OwnStep DEF AllThere

\* The end of the import: the original goes with all pages there.
LEMMA EndKeeps ==
  ASSUME ImportTypes, SplitInv, NEW a \in Adapters, markDone(a) \/ completeImport(a)
  PROVE  SplitInv'
<1>. USE DEF ImportTypes
<1>1. UNCHANGED <<vars, pages, upload>> /\ import'.processed = import.processed
  BY DEF markDone, completeImport, removeOriginal, markRemoved, markSplit, NodesOK, ImportType
<1>2. PICK w : /\ Replaced(a, w) /\ work[a].at \in Ending
               /\ w.job = work[a].job /\ w.page = work[a].page
               /\ w.at \in Ending \cup {"answered"}
  <2>1. \E at \in Ending, next \in Ending \cup {"answered"} : Step(a, at, next)
    BY DEF markDone, completeImport, removeOriginal, markRemoved, markSplit, Ending
  <2>. QED  BY <1>1, <2>1, WorkStepped DEF vars, Posting
<1>3. Sound(work[a]) /\ work[a].at # "idle"
  BY <1>2, AtWork DEF Ending
<1>4. AllThere'
  BY <1>1, <1>2, <1>3 DEF Sound, AllThere
<1>5. Told(w) = Told(work[a])
  BY <1>2 DEF Told, Telling, Ending
<1>6. Sound(w)'
  BY <1>1, <1>2, <1>3, <1>4, <1>5 DEF Sound, Unsplit, Posting, Telling, Ending, Told
<1>. QED  BY <1>1, <1>2, <1>3, <1>4, <1>6, OwnStep

\* A claim takes the waiting job, of which nothing was posted.
LEMMA ClaimKeeps ==
  ASSUME ImportTypes, TypeOK', SplitInv, NEW a \in Adapters, claimSplit(a)
  PROVE  SplitInv'
<1>. USE DEF ImportTypes
<1>1. PICK j \in Rows : /\ claim(topic, a, j)
                        /\ work' = [work EXCEPT ![a] = [job |-> j, at |-> "claimed", page |-> 1]]
  BY DEF claimSplit
<1>2. UNCHANGED <<pdf, import, pages, upload, lastId>> /\ work[a].at = "idle"
  BY <1>1 DEF claimSplit, claim
<1>3. PICK w : w = [job |-> j, at |-> "claimed", page |-> 1]
  OBVIOUS
<1>4. Replaced(a, w)
  <2>1. j \in 0..lastId
    BY JobQueueConstants DEF TypeOK
  <2>2. 1 \in Pages
    BY ImportConstants DEF Pages
  <2>. QED  BY <1>1, <1>2, <1>3, <2>1, <2>2 DEF Replaced, WorkType, Unsplit
<1>5. work'[a] = w /\ \A c \in Adapters \ {a} : work'[c] = work[c]
  BY <1>2, <1>4, WorkReplaced
<1>6. /\ Spares(Finalised(topic) \cup {j})
      /\ \A k \in Finalised(topic) \cup {j} : k \in Rows /\ jobs[k].status = "queued"
      /\ \A k \in Finalised(topic) \ {j} : jobs'[k].status = "cancelled"
      /\ j \in Rows' /\ jobs'[j].status = "running" /\ jobs'[j].lease = "live"
      /\ jobs'[j].claimedBy = a /\ jobs'[j].attempts >= 1
  <2>1. LeasesLive
    BY DEF SplitInv
  <2>. QED  BY <1>1, <2>1, ClaimSpares
<1>7. lastId = 1 /\ j = 1 /\ 1 \in Rows' /\ \A k \in Rows' : k = 1
  <2>1. j \in 1..lastId /\ Rows \subseteq 1..lastId /\ lastId <= 1 /\ lastId \in 0..MaxJobs
    BY DEF TypeOK, SplitInv, OneJob
  <2>2. lastId = 1
    BY <2>1, JobQueueConstants
  <2>3. j = 1 /\ \A k \in Rows : k = 1
    BY <2>1, <2>2
  <2>. HIDE DEF Rows
  <2>. QED  BY <1>6, <2>2, <2>3 DEF Spares
<1>8. \A c \in Adapters : work[c].at = "idle"
  BY <1>6, NoneWaits
<1>9. LeasesLive'
  BY <1>6, <1>7 DEF LeasesLive
<1>10. OneJob' /\ Waiting'
  BY <1>2, <1>6, <1>7 DEF SplitInv, OneJob, Waiting
<1>11. import.processed = 0
  BY <1>6 DEF SplitInv, Waiting
<1>12. \A c \in Adapters : Working(c)'
  BY <1>2, <1>3, <1>5, <1>6, <1>8, <1>11
     DEF Working, OwnedBy, Sound, Unsplit, Posting, Telling, Ending
<1>. QED  BY <1>2, <1>4, <1>9, <1>10, <1>12 DEF SplitInv, AllThere

\* A report: the job has ended, or waits and nothing of it was posted.
LEMMA ReportKeeps ==
  ASSUME ImportTypes, SplitInv, NEW a \in Adapters, reportSplit(a)
  PROVE  SplitInv'
<1>. USE DEF ImportTypes
<1>. PICK j : j = work[a].job
  OBVIOUS
<1>1. /\ UNCHANGED <<pdf, import, pages, upload>>
      /\ work' = [work EXCEPT ![a] = NoWork]
      /\ work[a].at \in {"answered", "erred"}
      /\ \/ complete(j, a)
         \/ work[a].at = "erred" /\ fail(j, a)
         \/ ~OwnedBy(j, a) /\ UNCHANGED vars
  BY DEF reportSplit
<1>2. OwnedBy(j, a) /\ Sound(work[a])
  BY <1>1 DEF SplitInv, Working
<1>3. Spares({j}) /\ (j \in Rows' => jobs'[j].status # "running")
        /\ (j \in Rows' /\ jobs'[j].status = "queued" => work[a].at = "erred")
  BY <1>1, <1>2, CompleteSpares, FailSpares
<1>4. lastId' = lastId /\ lastId = 1
  BY <1>1, <1>2, NoneWaits DEF complete, fail, failCancelled, failRetry, failForGood
<1>5. Replaced(a, NoWork)
  <2>1. NoWork \in WorkType
    BY <1>4, ImportConstants DEF NoWork, WorkType, Pages
  <2>. QED  BY <1>1, <1>4, <2>1 DEF Replaced, WorkType
<1>6. /\ work'[a] = NoWork /\ NoWork.at = "idle"
      /\ \A c \in Adapters \ {a} : work'[c] = work[c] /\ work[c].at = "idle"
  BY <1>1, <1>4, <1>5, WorkReplaced, OneHolder DEF NoWork
<1>7. \A k \in Rows' : k = j
  <2>1. \A k \in Rows : k = 1
    BY <1>4 DEF TypeOK
  <2>. QED  BY <1>2, <1>3, <2>1 DEF Spares, OwnedBy
<1>8. LeasesLive'
  BY <1>3, <1>7 DEF LeasesLive
<1>9. Waiting'
  BY <1>1, <1>2, <1>3, <1>4, <1>7 DEF Waiting, Sound, Unsplit
<1>10. \A c \in Adapters : Working(c)'
  BY <1>6 DEF Working
<1>. QED  BY <1>1, <1>4, <1>5, <1>8, <1>9, <1>10 DEF SplitInv, OneJob, AllThere

\* The upload publishes the one job, before anything was counted.
LEMMA UploadTyped ==
  ASSUME ImportTypes, afterFileCreated
  PROVE  ImportTypes'
<1>. USE DEF ImportTypes
<1>1. CASE markUnprocessable \/ markImporting
  <2>1. UNCHANGED <<vars, import, pages, work, spent>> /\ pdf' \in PdfType /\ upload' = "over"
    BY <1>1 DEF markUnprocessable, markImporting, NodesOK, PdfType
  <2>. QED  BY <2>1 DEF vars, TypeOK, Rows, NodesOK, WorkType
<1>2. CASE publishSplit
  <2>1. PICK limit \in Nat \ {0} : publish(topic, Shape, limit)
    BY <1>2, JobQueueConstants DEF publishSplit
  <2>2. TypeOK' /\ lastId' = lastId + 1
    BY <2>1, PublishInserts, ImportConstants DEF Shape
  <2>3. import' \in ImportType
    <3>1. PICK d \in {"unset", "true", "false"} :
            import' = [import EXCEPT !.status = "running", !.deleteOriginal = d]
      BY <1>2 DEF publishSplit, NodesOK, ImportType
    <3>. QED  BY <3>1 DEF NodesOK, ImportType
  <2>4. WorkType \subseteq WorkType'
    BY <2>2, JobQueueConstants DEF WorkType, TypeOK
  <2>5. UNCHANGED <<pdf, pages, work, spent>> /\ upload' = "published"
    BY <1>2 DEF publishSplit
  <2>. QED  BY <2>2, <2>3, <2>4, <2>5 DEF NodesOK
<1>. QED  BY <1>1, <1>2 DEF afterFileCreated

LEMMA UploadKeeps ==
  ASSUME ImportTypes, SplitInv, afterFileCreated
  PROVE  SplitInv'
<1>. USE DEF ImportTypes
<1>1. CASE markUnprocessable \/ markImporting
  <2>1. /\ UNCHANGED <<vars, import, pages, work>> /\ upload' = "over"
        /\ pdf'.onDisk = pdf.onDisk
    BY <1>1 DEF markUnprocessable, markImporting, NodesOK, PdfType
  <2>. QED  BY <2>1 DEF SplitInv, vars, LeasesLive, OneJob, Waiting, Working, OwnedBy,
                        Sound, AllThere, Rows
<1>2. CASE publishSplit
  <2>1. PICK limit \in Nat \ {0} : publish(topic, Shape, limit)
    BY <1>2, JobQueueConstants DEF publishSplit
  <2>2. lastId = 0 /\ UNCHANGED <<pdf, pages, work>> /\ upload' = "published"
    BY <1>2 DEF publishSplit, SplitInv, OneJob
  <2>3. import'.processed = import.processed
    BY <1>2 DEF publishSplit, NodesOK, ImportType
  <2>4. /\ lastId' = 1 /\ Rows' = Rows \cup {1} /\ jobs'[1].status = "queued"
    BY <2>1, <2>2, PublishInserts, ImportConstants DEF Shape
  <2>5. Rows = {}
    BY <2>2 DEF TypeOK
  <2>6. \A a \in Adapters : work[a].at = "idle"
    BY <2>2, NoneWaits
  <2>7. LeasesLive'
    BY <2>4, <2>5 DEF LeasesLive
  <2>8. OneJob' /\ Waiting'
    BY <2>2, <2>3, <2>4 DEF OneJob, Waiting, SplitInv
  <2>9. \A a \in Adapters : Working(a)'
    BY <2>2, <2>6 DEF Working
  <2>. QED  BY <2>2, <2>7, <2>8, <2>9 DEF SplitInv, AllThere
<1>. QED  BY <1>1, <1>2 DEF afterFileCreated

\* Time passes: a lapse is counted, a backoff ends.
LEMMA TimeKeeps ==
  ASSUME ImportInv, TypeOK', ImportPasses
  PROVE  ImportInv'
<1>1. /\ UNCHANGED <<pdf, import, pages, upload, work, lastId>>
      /\ spent' \in SpentType
      /\ spent'.lapses = 0 =>
           spent.lapses = 0 /\ \E j \in Rows : BackoffElapses(j)
  <2>1. UNCHANGED <<pdf, import, pages, upload, work, lastId>>
    BY DEF ImportPasses, LeaseExpires, BackoffElapses
  <2>2. CASE \E j \in Rows : BackoffElapses(j) /\ UNCHANGED spent
    BY <2>1, <2>2 DEF ImportInv, ImportTypes, NodesOK
  <2>3. CASE spent.lapses < MaxLapses /\ spent' = [spent EXCEPT !.lapses = spent.lapses + 1]
    BY <2>1, <2>3, ImportConstants DEF ImportInv, ImportTypes, NodesOK, SpentType
  <2>. QED  BY <2>1, <2>2, <2>3 DEF ImportPasses
<1>2. ImportTypes'
  BY <1>1 DEF ImportInv, ImportTypes, NodesOK, WorkType
<1>3. ASSUME SplitInv, NEW j \in Rows, BackoffElapses(j) PROVE SplitInv'
  <2>1. PICK row : /\ jobs' = [jobs EXCEPT ![j] = row]
                   /\ jobs[j].status = "queued" /\ row.status = "queued"
    <3>1. jobs[j] \in Job /\ jobs[j].status = "queued"
      BY <1>3 DEF ImportInv, ImportTypes, TypeOK, BackoffElapses
    <3>2. PICK row : row = [jobs[j] EXCEPT !.due = TRUE]
      OBVIOUS
    <3>3. row.status = "queued"
      BY <3>1, <3>2 DEF Job
    <3>4. jobs' = [jobs EXCEPT ![j] = row]
      BY <1>3, <3>2 DEF BackoffElapses
    <3>. QED  BY <3>1, <3>3, <3>4
  <2>2. /\ Rows' = Rows /\ jobs'[j].status = "queued"
        /\ \A k \in Rows \ {j} : jobs'[k] = jobs[k]
    BY <1>3, <2>1 DEF ImportInv, ImportTypes, TypeOK, Rows
  <2>3. LeasesLive' /\ Waiting'
    BY <1>1, <1>3, <2>1, <2>2 DEF SplitInv, LeasesLive, Waiting
  <2>4. \A a \in Adapters : work[a].at = "idle"
    BY <1>3, <2>1, NoneWaits DEF ImportInv
  <2>5. \A a \in Adapters : Working(a)'
    BY <1>1, <2>4 DEF Working
  <2>. QED  BY <1>1, <1>3, <2>3, <2>5 DEF SplitInv, OneJob, AllThere
<1>. QED  BY <1>1, <1>2, <1>3 DEF ImportInv

\* A restart: the calls of the adapters fail, and the adapters go on.
AfterRestart(w) ==
  CASE w.at \in InResult              -> [w EXCEPT !.at = "answered"]
    [] w.at \in {"failing", "failed"} -> [w EXCEPT !.at = "erred"]
    [] OTHER                          -> w

LEMMA RestartedWork ==
  ASSUME NEW w \in WorkType
  PROVE  /\ AfterRestart(w) \in WorkType
         /\ AfterRestart(w).job = w.job /\ AfterRestart(w).page = w.page
         /\ \/ AfterRestart(w) = w
            \/ w.at \in Posting /\ AfterRestart(w).at = "answered"
            \/ w.at \in Unsplit /\ AfterRestart(w).at = "erred"
<1>. PICK v : v = AfterRestart(w)
  OBVIOUS
<1>1. CASE w.at \in InResult
  <2>1. v = [w EXCEPT !.at = "answered"]
    BY <1>1 DEF AfterRestart, InResult
  <2>. QED  BY <1>1, <2>1 DEF WorkType, InResult, Posting, Telling, Ending
<1>2. CASE w.at \in {"failing", "failed"}
  <2>1. v = [w EXCEPT !.at = "erred"]
    BY <1>2 DEF AfterRestart, InResult
  <2>. QED  BY <1>2, <2>1 DEF WorkType, Unsplit
<1>3. CASE w.at \notin InResult \cup {"failing", "failed"}
  <2>1. v = w
    BY <1>3 DEF AfterRestart
  <2>. QED  BY <2>1
<1>. QED  BY <1>1, <1>2, <1>3

LEMMA RestartKeeps ==
  ASSUME ImportInv, restartImport
  PROVE  ImportInv'
<1>1. UNCHANGED <<vars, pdf, import, pages>> /\ upload' = "over"
  BY DEF restartImport
<1>2. spent' \in SpentType /\ spent'.lapses = spent.lapses
  BY ImportConstants DEF restartImport, ImportInv, ImportTypes, NodesOK, SpentType
<1>3. work' = [a \in Adapters |-> AfterRestart(work[a])]
  BY DEF restartImport, AfterRestart
<1>4. \A a \in Adapters : work[a] \in WorkType /\ work'[a] = AfterRestart(work[a])
  BY <1>3 DEF ImportInv, ImportTypes
<1>5. ImportTypes'
  <2>1. work' \in [Adapters -> WorkType]
    BY <1>3, <1>4, RestartedWork
  <2>2. TypeOK' /\ WorkType' = WorkType
    BY <1>1 DEF ImportInv, ImportTypes, TypeOK, vars, Rows, WorkType
  <2>. QED  BY <1>1, <1>2, <2>1, <2>2 DEF ImportInv, ImportTypes, NodesOK
<1>6. ASSUME SplitInv PROVE SplitInv'
  <2>1. LeasesLive' /\ OneJob' /\ Waiting'
    BY <1>1, <1>6 DEF SplitInv, LeasesLive, OneJob, Waiting, vars, Rows
  <2>2. ASSUME NEW a \in Adapters PROVE Working(a)'
    <3>. PICK w \in WorkType : w = work[a]
      BY <1>4
    <3>. PICK v \in WorkType : v = AfterRestart(w)
      BY RestartedWork
    <3>1. /\ v.job = w.job /\ v.page = w.page /\ work'[a] = v
          /\ \/ v = w
             \/ w.at \in Posting /\ v.at = "answered"
             \/ w.at \in Unsplit /\ v.at = "erred"
      BY <1>4, RestartedWork
    <3>2. CASE w.at = "idle"
      BY <3>1, <3>2 DEF Working, Posting, Telling, Ending, Unsplit
    <3>3. CASE w.at # "idle"
      <4>1. /\ Sound(w) /\ OwnedBy(w.job, a) /\ w.page \in Int /\ import.processed \in Int
        BY <1>6, <3>3, AtWork DEF ImportInv, SplitInv, Working
      <4>2. OwnedBy(v.job, a)'
        BY <1>1, <3>1, <4>1 DEF OwnedBy, vars, Rows
      <4>3. Sound(v)'
        <5>1. CASE v = w
          BY <1>1, <4>1, <5>1 DEF Sound, AllThere
        <5>2. CASE w.at \in Posting /\ v.at = "answered"
          <6>1. /\ import.processed <= v.page
                /\ (\E p \in 1..v.page : pages[p] = 0) => import.processed < v.page
            <7>1. CASE w.at \in Telling
              <8>1. import.processed <= w.page - 1
                BY <4>1, <5>2, <7>1 DEF Sound, Told
              <8>. QED  BY <3>1, <4>1, <8>1
            <7>2. CASE w.at \notin Telling
              BY <3>1, <4>1, <5>2, <7>2 DEF Sound, Told
            <7>. QED  BY <7>1, <7>2
          <6>. QED  BY <1>1, <5>2, <6>1 DEF Sound, Unsplit, Telling, Ending, Told
        <5>3. CASE w.at \in Unsplit /\ v.at = "erred"
          BY <1>1, <3>1, <4>1, <5>3 DEF Sound, Unsplit, Posting, Telling, Ending
        <5>. QED  BY <3>1, <5>1, <5>2, <5>3
      <4>. QED  BY <3>1, <4>2, <4>3 DEF Working
    <3>. QED  BY <3>2, <3>3
  <2>. QED  BY <1>1, <1>6, <2>1, <2>2 DEF SplitInv, AllThere
<1>. QED  BY <1>2, <1>5, <1>6 DEF ImportInv

-----------------------------------------------------------------------------

\* The calls of an adapter keep the types of the queue.
LEMMA SplitTyped ==
  ASSUME ImportTypes, NEW a \in Adapters, split(a)
  PROVE  TypeOK' /\ UNCHANGED lastId
<1>1. \/ UNCHANGED vars
      \/ \E j \in Rows : claim(topic, a, j)
      \/ \E j : complete(j, a) \/ fail(j, a)
  BY DEF split, claimSplit, readPdf, handleOutput, createPage, failOutput, notifyPage,
         countPage, markDone, completeImport, removeOriginal, markRemoved, markSplit,
         nextPage, failPdf, failProcess, reportSplit
<1>. QED  BY <1>1, ConsumerCallsTyped, ImportConstants DEF ImportTypes

LEMMA SplitKeeps ==
  ASSUME ImportInv, NEW a \in Adapters, split(a)
  PROVE  ImportInv'
<1>. USE DEF ImportInv
<1>1. TypeOK' /\ UNCHANGED lastId
  BY SplitTyped
<1>2. \E w : Replaced(a, w)
  <2>1. CASE claimSplit(a)
    <3>1. PICK j \in Rows : work' = [work EXCEPT ![a] = [job |-> j, at |-> "claimed", page |-> 1]]
      BY <2>1 DEF claimSplit
    <3>2. j \in 0..lastId /\ 1 \in Pages
      BY ImportConstants, JobQueueConstants DEF ImportTypes, TypeOK, Pages
    <3>3. [job |-> j, at |-> "claimed", page |-> 1] \in WorkType'
      BY <1>1, <3>2 DEF WorkType, Unsplit
    <3>. QED  BY <3>1, <3>3 DEF Replaced
  <2>2. CASE reportSplit(a)
    <3>1. NoWork \in WorkType'
      BY <1>1, ImportConstants, JobQueueConstants DEF NoWork, WorkType, Pages, ImportTypes, TypeOK
    <3>. QED  BY <2>2, <3>1 DEF reportSplit, Replaced
  <2>3. CASE ~claimSplit(a) /\ ~reportSplit(a)
    <3>1. UNCHANGED vars
      BY <2>3 DEF split, readPdf, handleOutput, createPage, failOutput, notifyPage,
           countPage, markDone, completeImport, removeOriginal, markRemoved, markSplit,
           nextPage, failPdf, failProcess
    <3>. QED  BY <2>3, <3>1, SplitSteps DEF split
  <2>. QED  BY <2>1, <2>2, <2>3
<1>3. work' \in [Adapters -> WorkType]'
  BY <1>1, <1>2, WorkReplaced DEF ImportTypes
<1>4. NodesOK' /\ spent'.lapses = spent.lapses
  <2>1. CASE claimSplit(a) \/ reportSplit(a)
    BY <2>1 DEF claimSplit, reportSplit, ImportTypes, NodesOK
  <2>2. CASE ~claimSplit(a) /\ ~reportSplit(a)
    <3>1. work[a].page \in Pages
      BY DEF ImportTypes, WorkType
    <3>2. NodesOK'
      BY <2>2, <3>1, NodesTyped DEF split, ImportTypes
    <3>3. UNCHANGED spent \/ Fault
      BY <2>2 DEF split, readPdf, handleOutput, createPage, failOutput, notifyPage,
           countPage, markDone, completeImport, removeOriginal, markRemoved, markSplit,
           nextPage, failPdf, failProcess
    <3>4. spent'.lapses = spent.lapses
      BY <3>3 DEF Fault, ImportTypes, NodesOK, SpentType
    <3>. QED  BY <3>2, <3>4
  <2>. QED  BY <2>1, <2>2
<1>5. SplitInv => SplitInv'
  BY <1>1, SplitterKeeps, PageKeeps, CountKeeps, EndKeeps, ClaimKeeps, ReportKeeps DEF split
<1>. QED  BY <1>1, <1>3, <1>4, <1>5 DEF ImportTypes

LEMMA ImportInductive == ImportInv /\ [ImportNext]_<<vars, ivars>> => ImportInv'
<1>. SUFFICES ASSUME ImportInv, [ImportNext]_<<vars, ivars>> PROVE ImportInv'
  OBVIOUS
<1>1. CASE UNCHANGED <<vars, ivars>>
  BY <1>1 DEF vars, ivars, ImportInv, ImportTypes, TypeOK, NodesOK, WorkType, SplitInv,
              LeasesLive, OneJob, Waiting, Working, OwnedBy, Sound, AllThere, Rows
<1>2. CASE afterFileCreated
  <2>1. UNCHANGED spent
    BY <1>2 DEF afterFileCreated, markUnprocessable, publishSplit, markImporting
  <2>. QED  BY <1>2, <2>1, UploadTyped, UploadKeeps DEF ImportInv
<1>3. ASSUME NEW a \in Adapters, split(a) PROVE ImportInv'
  BY <1>3, SplitKeeps
<1>4. CASE ImportPasses
  <2>1. \E j \in Rows : LeaseExpires(j) \/ BackoffElapses(j)
    BY <1>4 DEF ImportPasses
  <2>2. TypeOK'
    BY <2>1, ConsumerCallsTyped DEF ImportInv, ImportTypes
  <2>. QED  BY <1>4, <2>2, TimeKeeps
<1>5. CASE restartImport
  BY <1>5, RestartKeeps
<1>. QED  BY <1>1, <1>2, <1>3, <1>4, <1>5 DEF ImportNext

LEMMA ImportBegins == ImportInit => ImportInv
<1>. SUFFICES ASSUME ImportInit PROVE ImportInv
  OBVIOUS
<1>1. TypeOK /\ Rows = {} /\ lastId = 0
  BY JobQueueConstants DEF ImportInit, Init, TypeOK, Rows
<1>2. NodesOK
  <2>1. spent \in SpentType
    BY ImportConstants DEF ImportInit, NothingSpent, SpentType
  <2>. QED  BY <2>1, ImportConstants DEF ImportInit, NodesOK, PdfType, ImportType
<1>3. work \in [Adapters -> WorkType] /\ \A a \in Adapters : work[a].at = "idle"
  BY <1>1, ImportConstants DEF ImportInit, NoWork, WorkType, Pages
<1>4. LeasesLive /\ OneJob /\ Waiting /\ pdf.onDisk
  BY <1>1 DEF ImportInit, LeasesLive, OneJob, Waiting
<1>. QED  BY <1>1, <1>2, <1>3, <1>4 DEF ImportInv, ImportTypes, SplitInv, Working

\* ImportIsSafe: the original of an upload is not deleted before each of its
\* pages has a node, whatever posts and splits fail and whenever the backend
\* restarts, as long as no lease lapses (results.ts, afterFileCreated,
\* notifyOutput, completeImport).
THEOREM OriginalsOutliveSplits == ImportSpec => []ImportIsSafe
<1>1. ImportInv => ImportIsSafe
  <2>. SUFFICES ASSUME ImportInv PROVE ImportIsSafe
    OBVIOUS
  <2>1. WorkType \subseteq [job: 0..lastId, page: Pages,
           at: InResult \cup {"idle", "claimed", "posting", "answered",
                              "failing", "failed", "erred"}]
    BY DEF WorkType, Unsplit, Posting, Telling, Ending, InResult
  <2>2. ImportTypeOK
    BY <2>1 DEF ImportInv, ImportTypes, NodesOK, PdfType, ImportType, SpentType, ImportTypeOK
  <2>3. OriginalOutlivesSplit
    BY DEF ImportInv, SplitInv, AllThere, OriginalOutlivesSplit
  <2>. QED  BY <2>2, <2>3 DEF ImportIsSafe
<1>. QED  BY <1>1, ImportInductive, ImportBegins, PTL DEF ImportSpec

=============================================================================
