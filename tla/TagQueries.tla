----------------------------- MODULE TagQueries -----------------------------
(***************************************************************************)
(* The lists and filters over the rows of Tags: what the tag view, the     *)
(* admin list, the warnings before a rename or a delete, and the tag       *)
(* filter of a set answer.  None of them changes a row.                    *)
(*                                                                         *)
(* Several of them answer one question with different queries; the         *)
(* properties compare them.  ds is the set of desks a list is limited to,  *)
(* {} when it is not limited.                                              *)
(***************************************************************************)
EXTENDS Tags, FiniteSetsExt

InProjects(row, ds) == ds = {} \/ row.desk \in ds

\* projectRidsFrom, entityFilter: who made the tag, and its type.
entityFilter(by, t) == {e \in Known : /\ by \in {"any", entities[e].by}
                                      /\ t \in {"any", TypeOf[entities[e].name]}}

entityRidsInProjects(ds) ==
  {l.e : l \in {k \in links : k.desk \in ds}} \cup {v[1] : v \in {w \in vocabulary : w[2] \in ds}}

deskEntityRids(d) == {v[1] : v \in {w \in vocabulary : w[2] = d}}

\* The desks of a tag; one that is being deleted is not shown.
desksOf(e) == {d \in desks : <<e, d>> \in vocabulary}

entitiesOfType(by, t, ds) ==
  entityFilter(by, t) \cap (IF ds = {} THEN Known ELSE entityRidsInProjects(ds))

groupedEntities(by, ds) ==
  LET shown == entitiesOfType(by, "any", ds)
      ofType == [t \in Types |-> {e \in shown : TypeOf[entities[e].name] = t}]
  IN  {[type |-> t, count |-> Cardinality(ofType[t])] : t \in {u \in Types : ofType[u] # {}}}

entityTypes == {[type |-> t, count |-> Cardinality(entityFilter("any", t)),
                 protected |-> t = ProtectedType] : t \in types}

tags(d) == entityFilter("any", ProtectedType) \cap (IF d = NoDesk THEN Known ELSE deskEntityRids(d))

-----------------------------------------------------------------------------
(* Files of tags, tags of files.                                           *)

Targets(e, ds) == {l.f : l \in {k \in LinksOf(e) : InProjects(k, ds)}}

\* The tag with the fewest links first, then only its files are looked at.
filesWithAll(es, ds) ==
  LET rows(e) == Cardinality({l \in LinksOf(e) : InProjects(l, ds)})
      rarest == CHOOSE e \in es : \A x \in es : rows(e) <= rows(x)
  IN  IF \E e \in es : rows(e) = 0 THEN {}
      ELSE {f \in Targets(rarest, ds) : \A e \in es \ {rarest} : f \in Targets(e, ds)}

fileRidsWithEntities(es, match, ds) ==
  IF match = "and" /\ Cardinality(es) > 1 THEN filesWithAll(es, ds)
  ELSE UNION {Targets(e, ds) : e \in es}

\* The total counts files that are gone or on another desk, the items do not.
entityItems(es, match, ds) ==
  LET all == fileRidsWithEntities(es, match, ds)
  IN  [total |-> Cardinality(all), items |-> {f \in all \cap files : ds = {} \/ DeskOf[f] \in ds}]

FileLinks(e) == {l \in LinksOf(e) : ~l.region}

linkedEntities(f) == {e \in Known : \E l \in FileLinks(e) : l.f = f}
entitiesForFiles(fs) == [f \in {g \in fs : linkedEntities(g) # {}} |-> linkedEntities(f)]

\* Of each tag, how many files of the set have it.
setEntities(fs) ==
  LET found == {e \in Known : \E l \in FileLinks(e) : l.f \in fs}
  IN  {[e |-> e, count |-> Cardinality({l.f : l \in FileLinks(e)} \cap fs)] : e \in found}

usage(e) ==
  [files |-> Cardinality({l.f : l \in FileLinks(e)}),
   desks |-> [d \in desksOf(e) |-> Cardinality({l.f : l \in {k \in FileLinks(e) : k.desk = d}})]]

adminList(d) ==
  LET listed == entityFilter("user", "any") \cap (IF d = NoDesk THEN Known ELSE deskEntityRids(d))
  IN  [e \in listed |->
        [desks |-> desksOf(e),
         files |-> Cardinality({l.f : l \in {k \in FileLinks(e) : d \in {NoDesk, k.desk}}})]]

\* Rows per run and tag; a tag that is gone has no label and is not shown.
machineTags(ds) ==
  LET rows == {l \in links : l.by = "machine" /\ InProjects(l, ds)}
  IN  {[run |-> l.run, e |-> l.e,
        count |-> Cardinality({k \in rows : k.run = l.run /\ k.e = l.e})] :
          l \in {k \in rows : k.e \in Known}}

\* Mutant: "and" counts links instead of criteria.
tagFilterByLinks(fs, selected, mode, match) ==
  LET rows(f) == {l \in links : l.f = f /\ l.e \in selected}
      tagged(f) == \E l \in links : l.f = f
      matched ==
        CASE mode = "untagged" -> {f \in fs : ~tagged(f)}
          [] mode = "exclude" -> {f \in fs : rows(f) = {}}
          [] mode = "include" /\ match = "and" ->
               {f \in fs : Cardinality(rows(f)) = Cardinality(selected)}
          [] mode = "include" /\ match = "or" -> {f \in fs : rows(f) # {}}
  IN  [ok |-> TRUE, matched |-> matched]

\* The tag filter of a set with files fs: matches are found before a set is
\* made.  NoMatch is a refusal.
NoMatch == [ok |-> FALSE, matched |-> {}]
tagFilterSet(fs, selected, mode, match) ==
  LET criteria(f) == {e \in selected : \E l \in LinksOf(e) : l.f = f}
      tagged(f) == \E l \in links : l.f = f
      matched ==
        CASE mode = "untagged" -> {f \in fs : ~tagged(f)}
          [] mode = "exclude" -> {f \in fs : criteria(f) = {}}
          [] mode = "include" /\ match = "and" ->
               {f \in fs : Cardinality(criteria(f)) = Cardinality(selected)}
          [] mode = "include" /\ match = "or" -> {f \in fs : criteria(f) # {}}
  IN  IF \/ fs = {} \/ (mode # "untagged" /\ (selected = {} \/ ~(selected \subseteq Known)))
         \/ (mode = "include" /\ \A f \in fs : ~tagged(f))
      THEN NoMatch ELSE [ok |-> TRUE, matched |-> matched]

-----------------------------------------------------------------------------
(* Properties.                                                             *)

\* The warning before a tag is renamed or deleted counts each of its files on
\* exactly one of the desks it names (tags.ts:777-791), and the admin list of a
\* desk counts the same: through every removal and import no file keeps a tag
\* of a desk that lost it.
UsageIsComplete ==
  Quiet => \A e \in {x \in Known : ~Machine(x)} :
    /\ usage(e).files = MapThenSumSet(LAMBDA d : usage(e).desks[d], desksOf(e))
    /\ \A d \in desksOf(e) : adminList(d)[e].files = usage(e).desks[d]

\* The two implementations of "files with all these tags", the one of the tag
\* view that starts from the rarest tag (tags.ts:412-428) and the one of the
\* set filter that counts criteria (filters.ts:87-113), agree on the files of
\* a desk; and a set falls into the included and the excluded files.
FiltersAgree ==
  Quiet => \A d \in desks, es \in (SUBSET Known) \ {{}}, match \in {"or", "and"} :
    LET fs == files \cap FilesOf(d)
        include == tagFilterSet(fs, es, "include", match)
        exclude == tagFilterSet(fs, es, "exclude", match)
    IN  /\ include.ok => include.matched = fileRidsWithEntities(es, match, {d}) \cap fs
        /\ include.ok /\ match = "or" => fs = include.matched \cup exclude.matched
        /\ ~include.ok => fileRidsWithEntities(es, match, {d}) \cap fs = {}

\* The counts beside the tags of a set are the lengths of the file lists that
\* open from them, but for tags on regions (tags.ts:382-406, 434-445); once the
\* calls are over the total of a list counts only files that it can show
\* (451-465), so no row is left of a file or of a desk that was deleted.
CountsMatchLists ==
  Quiet =>
  /\ \A fs \in SUBSET files : \A row \in setEntities(fs) :
       /\ row.count <= Cardinality(fileRidsWithEntities({row.e}, "or", {}) \cap fs)
       /\ row.count = Cardinality({f \in fs : f \in DOMAIN entitiesForFiles(fs)
                                               /\ row.e \in entitiesForFiles(fs)[f]})
  /\ \A e \in Known, ds \in SUBSET desks :
       LET page == entityItems({e}, "or", ds) IN page.total = Cardinality(page.items)

\* Once the calls are over every tag is in a list of a desk: the groups and the
\* machine tags of all desks together are those without a desk (tags.ts:221-242,
\* 931-944), and a tag made by hand is in the admin list of a desk.
NoTagIsLost ==
  Quiet =>
    /\ groupedEntities("any", desks) = groupedEntities("any", {})
    /\ machineTags(desks) = machineTags({})
    /\ \A e \in Known : ~Machine(e) => \E d \in desks : e \in DOMAIN adminList(d)
    /\ \A t \in entityTypes : t.protected => t.count >= Cardinality(UNION {tags(d) : d \in desks})

\* All the lists and filters tell of the same tags, and leave none out.
QueriesAgree == UsageIsComplete /\ FiltersAgree /\ CountsMatchLists /\ NoTagIsLost
=============================================================================
