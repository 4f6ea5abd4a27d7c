------------------------------ MODULE Grouping ------------------------------
(***************************************************************************)
(* The dispatch groups of a many-to-one run: the files of a set, by the    *)
(* PDF they were split or derived from.  Files are numbered in the order   *)
(* of their labels.                                                        *)
(***************************************************************************)
EXTENDS FiniteSetsExt, SequencesExt, Integers

CONSTANTS
  FileIds,    \* numbers
  NoFile,     \* the parent of a file derived from nothing; the source of no group
  MaxDepth,   \* how far the walk goes up (39 files above the first in the code)
  Desks       \* sets to group: the files, for every file its type, page number (0:
              \* none) and the first file it derives from, what task and service say

ASSUME GroupingConstants ==
  /\ FileIds \subseteq Nat \ {0} /\ IsFiniteSet(FileIds) /\ NoFile \notin FileIds
  /\ MaxDepth \in Nat
  /\ Desks \subseteq
       [files: (SUBSET FileIds) \ {{}}, type: [FileIds -> {"pdf", "image", "zip"}],
        page: [FileIds -> FileIds \cup {0}], parent: [FileIds -> FileIds \cup {NoFile}],
        wish: {"off", "on", "default"}, search: BOOLEAN]

VARIABLE grouping   \* the set and its groups

\* The members of S in the order of the pairs in R: how many come before each.
Rank(S, R, e) == Cardinality({d \in S : <<d, e>> \in R})
Sorted(S, R) == [i \in 1 .. Cardinality(S) |-> CHOOSE e \in S : Rank(S, R, e) = i - 1]

\* Page number first, files without one last, then the label.
Before(desk, f, g) ==
  LET p == desk.page[f]
      q == desk.page[g] IN
  IF p = q THEN f < g ELSE q = 0 \/ (p # 0 /\ p < q)
sortFiles(desk, files) == Sorted(files, {p \in files \X files : Before(desk, p[1], p[2])})

\* The files passed on the way up, from the file itself.
Above(desk, f) ==
  LET up[n \in 0 .. MaxDepth] ==
        IF n = 0 THEN f ELSE IF up[n - 1] = NoFile THEN NoFile ELSE desk.parent[up[n - 1]] IN
  up

LastOf(desk, f, types) ==
  LET up == Above(desk, f)
      hits == {n \in 0 .. MaxDepth : up[n] # NoFile /\ desk.type[up[n]] \in types} IN
  IF hits = {} THEN NoFile ELSE up[Max(hits)]

\* Mutant: the nearest PDF.
NearestSource(desk, f) ==
  LET up == Above(desk, f)
      hits == {n \in 0 .. MaxDepth : up[n] # NoFile /\ desk.type[up[n]] = "pdf"} IN
  IF hits # {} THEN up[Min(hits)] ELSE f

\* The topmost PDF, else the topmost file that is no archive, else the file.
RootSource(desk, f) ==
  LET pdf == LastOf(desk, f, {"pdf"})
      any == LastOf(desk, f, {"pdf", "image"}) IN
  IF pdf # NoFile THEN pdf ELSE IF any # NoFile THEN any ELSE f

\* The sources there are; the group of each is the files that have it.
groupByRootSource(desk) == {RootSource(desk, f) : f \in desk.files}

groupingDecision(desk) ==
  [enabled |-> desk.wish = "on" \/ (desk.wish = "default" /\ ~desk.search),
   explicit |-> desk.wish # "default"]

\* The groups of the sources, in the order of their labels.
GroupsOf(desk, sources) ==
  LET order == Sorted(sources, {p \in sources \X sources : p[1] < p[2]}) IN
  [k \in DOMAIN order |->
     [source |-> order[k], files |-> sortFiles(desk, {f \in desk.files : RootSource(desk, f) = order[k]})]]

\* Mutant: the files of no group are forgotten.
RestForgotten(desk, sources) == <<>>

\* The files of no group make one of their own.
Rest(desk, sources) ==
  LET rest == {f \in desk.files : RootSource(desk, f) \notin sources} IN
  IF rest = {} THEN <<>> ELSE <<[source |-> NoFile, files |-> sortFiles(desk, rest)]>>

\* Only sources that are files of the set make groups.
manyToOneGroups(desk) ==
  LET decision == groupingDecision(desk)
      inSet == groupByRootSource(desk) \cap desk.files IN
  IF \/ ~decision.enabled \/ inSet = {}
     \/ ~decision.explicit /\ \A r \in inSet : desk.type[r] # "pdf"
  THEN <<[source |-> NoFile, files |-> sortFiles(desk, desk.files)]>>
  ELSE GroupsOf(desk, inSet) \o Rest(desk, inSet)

-----------------------------------------------------------------------------
\* The files f derives from: those in every set that has its parent and the
\* parents of its members.
DerivedFrom(desk, f) ==
  LET hasParent(x, files) == desk.parent[x] \in files \cup {NoFile} IN
  {s \in FileIds : \A files \in SUBSET FileIds :
     hasParent(f, files) /\ (\A x \in files : hasParent(x, files)) => s \in files}

\* No file derives from more files than the walk passes.
ASSUME ChainsFit == \A desk \in Desks, f \in FileIds : Cardinality(DerivedFrom(desk, f)) <= MaxDepth

-----------------------------------------------------------------------------
GroupingInit == grouping = <<>>

\* queueSet of a many-to-one task groups the files of the set.
GroupSet(desk) == grouping' = <<desk, manyToOneGroups(desk)>>

GroupingNext == grouping = <<>> /\ \E desk \in Desks : GroupSet(desk)

GroupingSpec == GroupingInit /\ [][GroupingNext]_grouping

-----------------------------------------------------------------------------
(* Properties.                                                             *)

\* Every file of the set is in one group and at one place of it: no page is
\* combined twice or left out (grouping.ts:119-123).
EveryFileOnce ==
  grouping # <<>> =>
    LET placed == UNION {{<<k, i>> : i \in DOMAIN grouping[2][k].files} : k \in DOMAIN grouping[2]} IN
    \A f \in grouping[1].files : \E p \in placed :
      \A q \in placed : (grouping[2][q[1]].files[q[2]] = f) <=> q = p

\* A group with a source holds the files of the set that derive from that PDF,
\* however far below, and from no PDF above it (grouping.ts:1-2, 35-38).
GroupsAreWhole ==
  grouping # <<>> =>
    LET desk == grouping[1]
        pdfs == {s \in FileIds : desk.type[s] = "pdf" /\ \A t \in DerivedFrom(desk, s) : desk.type[t] # "pdf"} IN
    \A k \in DOMAIN grouping[2] : grouping[2][k].source \in pdfs =>
      Range(grouping[2][k].files) =
        {f \in desk.files : grouping[2][k].source \in {f} \cup DerivedFrom(desk, f)}
=============================================================================
