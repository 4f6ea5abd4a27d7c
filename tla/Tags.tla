-------------------------------- MODULE Tags --------------------------------
(***************************************************************************)
(* Tags (entities), the desks that have them (DeskTag), the rows that      *)
(* attach them to files (TagLink) and the tag fields of the search index,  *)
(* for one user.  A tag made by hand belongs to desks; a tag made by a     *)
(* machine exists while a file carries it.                                 *)
(*                                                                         *)
(* Handlers are async and nothing is a transaction: a step of a call is a  *)
(* check or a statement that writes.  Reads with no write between them     *)
(* are one step.  Two equal rows act like one, so rows are sets, and       *)
(* finding a row before adding it is no step of its own.                   *)
(***************************************************************************)
EXTENDS Naturals, FiniteSets

CONSTANTS
  Calls,        \* the requests, callbacks and deletes under way at once
  Desks, Files, DeskOf,   \* DeskOf[f] is the desk of file f
  Names, Types, TypeOf,   \* a name is a label of one type
  ProtectedType,          \* "Tag", the type of machine tags
  Runs, NoRun,  \* service, task and model of a machine run
  NoDesk, NoFile, NoName,
  StartEntities, StartLinks, StartVocabulary,
  Together,     \* the pairs of operations that may overlap
  MaxCalls, MaxEntities   \* bounds of the model: calls begun, tags ever made

ASSUME TagsConstants ==
  /\ DeskOf \in [Files -> Desks] /\ TypeOf \in [Names -> Types]
  /\ ProtectedType \in Types /\ MaxEntities \in Nat /\ MaxCalls \in Nat
  /\ NoDesk \notin Desks /\ NoFile \notin Files /\ NoName \notin Names
  /\ NoRun \notin Runs /\ IsFiniteSet(Desks) /\ IsFiniteSet(Files) /\ IsFiniteSet(Runs)

\* What is there when nothing is under way: the ends of the rows, tags made by
\* hand on desks, each name once on a desk, and machine tags in use, at most as
\* many of a name as there are desks.
ASSUME StartIsSound ==
  LET known == DOMAIN StartEntities
      machine(e) == StartEntities[e].by = "machine"
  IN  /\ \E n \in 0..MaxEntities : known = 1..n
      /\ StartEntities \in [known -> [name: Names, by: {"user", "machine"}]]
      /\ StartLinks \subseteq [e: known, f: Files, region: BOOLEAN, run: Runs \cup {NoRun},
                               by: {"user", "machine"}, desk: Desks]
      /\ \A l \in StartLinks : l.desk = DeskOf[l.f] /\ (machine(l.e) \/ <<l.e, l.desk>> \in StartVocabulary)
      /\ StartVocabulary \subseteq {e \in known : ~machine(e)} \X Desks
      /\ \A e \in known : IF machine(e) THEN \E l \in StartLinks : l.e = e
                          ELSE \E v \in StartVocabulary : v[1] = e
      /\ \A d, e \in known : d # e /\ StartEntities[d].name = StartEntities[e].name /\ ~machine(d) =>
           \A v, w \in StartVocabulary : v[1] = d /\ w[1] = e => v[2] # w[2]
      /\ \A n \in Names :
           Cardinality({e \in known : machine(e) /\ StartEntities[e].name = n}) <= Cardinality(Desks)

VARIABLES
  entities,    \* function from the rids in use to [name, by]
  lastEntity,  \* the last rid given
  links,       \* TagLink rows
  vocabulary,  \* DeskTag rows, <<entity, desk>>
  types,       \* EntityType rows
  desks, files,  \* the desks and files that are not being deleted
  index,       \* the tag fields of each file's search document
  crossed,     \* history: files that two calls were sending fields of at once
  creating,    \* keys of the machine tags being found or created
  begun,       \* how many calls have begun
  call         \* per call, its operation, place and locals

tagVars == <<entities, lastEntity, links, vocabulary, types, desks, files, index,
             crossed, creating, begun, call>>

nameVars == <<entities, lastEntity>>
baseVars == <<types, desks, files>>
syncVars == <<index, crossed, creating>>

EntityRids == 1..MaxEntities

NoCall == [op |-> "none", at |-> "idle", e |-> 0, f |-> NoFile, d |-> NoDesk,
           n |-> NoName, region |-> FALSE, run |-> NoRun, todo |-> {},
           names |-> {}, files |-> {}, fields |-> {}]

Known == DOMAIN entities
Machine(e) == entities[e].by = "machine"
Owned(f) == f \in files
LinksOf(e) == {l \in links : l.e = e}
DesksOf(e) == {d \in desks : <<e, d>> \in vocabulary}
FilesOf(d) == {f \in Files : DeskOf[f] = d}

\* Files with a file-level link to the tag, on any desk or on one.
linkedFiles(e, ds) == {l.f : l \in {k \in LinksOf(e) : ~k.region /\ k.desk \in ds}}

findHumanInDesk(n, d) ==
  {e \in Known : ~Machine(e) /\ entities[e].name = n /\ <<e, d>> \in vocabulary}

\* What a desk calls a name: its own tag, else the user's machine tag.
findEntityForDesk(n, d) ==
  IF findHumanInDesk(n, d) # {} THEN findHumanInDesk(n, d)
  ELSE {e \in Known : Machine(e) /\ entities[e].name = n}

\* The tag fields of a file, from its rows and the tags that exist.
FieldsOf(f) ==
  LET tags == {l.e : l \in {k \in links : k.f = f /\ ~k.region}} \cap Known
  IN  {[e |-> e, name |-> entities[e].name,
        by |-> IF \E l \in LinksOf(e) : l.f = f /\ ~l.region /\ l.by = "user"
               THEN "user" ELSE "machine"] : e \in tags}

TagsInit ==
  /\ entities = StartEntities
  /\ lastEntity = Cardinality(DOMAIN StartEntities)
  /\ links = StartLinks
  /\ vocabulary = StartVocabulary
  /\ types = Types
  /\ desks = Desks
  /\ files = Files
  /\ index = [f \in Files |-> FieldsOf(f)]
  /\ crossed = {}
  /\ creating = {}
  /\ begun = 0
  /\ call = [c \in Calls |-> NoCall]

-----------------------------------------------------------------------------
(* Steps.                                                                  *)

UnderWay == {c \in Calls : call[c].at # "idle"}

\* Overlaps that can break a property (README.md says how): names are looked
\* up and then taken, a tag is put on a desk while it or the desk is deleted, a
\* link is added behind a delete.  All other operations may overlap.
Namers == {"createInDesk", "createAndLink", "import", "rename"}
Linkers == {"createAndLink", "link", "autotag"}
Removers == {"unlink", "removeFromDesk", "deleteEverywhere", "removeRun", "deleteFile", "deleteDesk"}
Breaking ==
  {{a, b} : a, b \in Namers} \cup {{a, b} : a \in Linkers, b \in Removers}
    \cup {{a, b} : a \in Namers \ {"rename"},
                   b \in {"removeFromDesk", "deleteEverywhere", "deleteDesk"}}

\* A call of operation op starts with its first reads; it goes to a place
\* with its locals set, and waits for the operations it may not overlap.
Begin(c, op, to) ==
  /\ call[c].at = "idle" /\ begun < MaxCalls
  /\ \A o \in UnderWay : {op, call[o].op} \in Together
  /\ begun' = begun + 1
  /\ call' = [call EXCEPT ![c] = [to EXCEPT !.op = op]]

At(c, place) == call[c].at = place
Goto(c, to) == call' = [call EXCEPT ![c] = to] /\ UNCHANGED begun

\* What follows in each operation when a part that several share has ended.
AfterAttach(k) ==
  CASE k.op = "createInDesk" -> NoCall
    [] k.op = "createAndLink" -> [k EXCEPT !.at = "linking"]
    [] k.op = "import" -> [k EXCEPT !.at = "importing"]
AfterLink(k, done) ==
  CASE k.op = "autotag" -> [k EXCEPT !.at = "naming"]
    [] k.op # "autotag" /\ (k.region \/ ~done) -> NoCall
    [] OTHER -> [k EXCEPT !.at = "reading", !.files = {k.f}]
AfterReindex(k) ==
  IF k.op = "unlink" THEN [k EXCEPT !.at = "counting"] ELSE NoCall
AfterPrune(k) ==
  CASE k.op \in {"unlink", "deleteFile"} -> NoCall
    [] k.op = "removeRun" -> [k EXCEPT !.at = "reading", !.files = {k.f}]
    [] k.op = "deleteDesk" -> [k EXCEPT !.at = "leaving"]

Create(n, by) ==
  /\ lastEntity < MaxEntities
  /\ lastEntity' = lastEntity + 1
  /\ entities' = [e \in Known \cup {lastEntity + 1} |->
                    IF e \in Known THEN entities[e] ELSE [name |-> n, by |-> by]]

-----------------------------------------------------------------------------
(* Tag types.                                                              *)

createEntityType(c, t) ==
  /\ t \notin types
  /\ Begin(c, "createType", [NoCall EXCEPT !.at = "addType", !.n = t])
  /\ UNCHANGED <<nameVars, links, vocabulary, baseVars, syncVars>>

\* Only a type that no tag has, and never the type of machine tags.
deleteEntityType(c, t) ==
  /\ t \in types \ {ProtectedType}
  /\ \A e \in Known : TypeOf[entities[e].name] # t
  /\ Begin(c, "deleteType", [NoCall EXCEPT !.at = "dropType", !.n = t])
  /\ UNCHANGED <<nameVars, links, vocabulary, baseVars, syncVars>>

writeType(c) ==
  /\ \/ At(c, "addType") /\ types' = types \cup {call[c].n}
     \/ At(c, "dropType") /\ types' = types \ {call[c].n}
  /\ Goto(c, NoCall)
  /\ UNCHANGED <<nameVars, links, vocabulary, desks, files, syncVars>>

hasType(n) == TypeOf[n] \in types

-----------------------------------------------------------------------------
(* Tags made by hand.                                                      *)

createInDesk(c, d, n) ==
  /\ d \in desks /\ hasType(n) /\ findHumanInDesk(n, d) = {}
  /\ Begin(c, "createInDesk", [NoCall EXCEPT !.at = "creating", !.d = d, !.n = n])
  /\ UNCHANGED <<nameVars, links, vocabulary, baseVars, syncVars>>

\* One item of the list; the next one is another call.
createEntitiesAndLink(c, f, n) ==
  /\ Owned(f) /\ hasType(n)
  /\ LET found == findEntityForDesk(n, DeskOf[f])
         k == [NoCall EXCEPT !.f = f, !.d = DeskOf[f], !.n = n]
     IN  \/ \E e \in found : Begin(c, "createAndLink", [k EXCEPT !.at = "linking", !.e = e])
         \/ found = {} /\ Begin(c, "createAndLink", [k EXCEPT !.at = "creating"])
  /\ UNCHANGED <<nameVars, links, vocabulary, baseVars, syncVars>>

createEntity(c) ==
  /\ At(c, "creating")
  /\ Create(call[c].n, "user")
  /\ Goto(c, [call[c] EXCEPT !.at = "attaching", !.e = lastEntity'])
  /\ UNCHANGED <<links, vocabulary, baseVars, syncVars>>

attachToDesk(c) ==
  /\ At(c, "attaching")
  /\ vocabulary' = vocabulary \cup {<<call[c].e, call[c].d>>}
  /\ Goto(c, AfterAttach(call[c]))
  /\ UNCHANGED <<nameVars, links, baseVars, syncVars>>

\* The tags of another desk, or chosen ones.
importIntoDesk(c, d, rids) ==
  /\ d \in desks /\ rids # {}
  /\ Begin(c, "import", [NoCall EXCEPT !.at = "importing", !.d = d,
                           !.todo = {e \in rids : ~Machine(e)}])
  /\ UNCHANGED <<nameVars, links, vocabulary, baseVars, syncVars>>

\* A tag the desk has, by its rid or by its name, is passed over.
importNext(c) ==
  /\ At(c, "importing")
  /\ LET k == call[c] IN
     \/ k.todo = {} /\ Goto(c, NoCall)
     \/ \E e \in k.todo :
          LET has == \/ <<e, k.d>> \in vocabulary
                     \/ e \in Known /\ findHumanInDesk(entities[e].name, k.d) # {}
          IN  Goto(c, [k EXCEPT !.todo = k.todo \ {e}, !.e = e,
                         !.at = IF has THEN "importing" ELSE "attaching"])
  /\ UNCHANGED <<nameVars, links, vocabulary, baseVars, syncVars>>

\* No desk of the tag may have another tag of the new name.
rename(c, e, n) ==
  /\ e \in Known /\ ~Machine(e) /\ n # entities[e].name
  /\ TypeOf[n] = TypeOf[entities[e].name]
  /\ \A d \in DesksOf(e) : findHumanInDesk(n, d) = {}
  /\ Begin(c, "rename", [NoCall EXCEPT !.at = "renaming", !.e = e, !.n = n])
  /\ UNCHANGED <<nameVars, links, vocabulary, baseVars, syncVars>>

\* Mutant: the files with the tag are not indexed again.
renameOnly(c) ==
  /\ At(c, "renaming")
  /\ LET k == call[c] IN
     /\ entities' = [e \in Known |-> IF e = k.e THEN [entities[e] EXCEPT !.name = k.n]
                                     ELSE entities[e]]
     /\ Goto(c, NoCall)
  /\ UNCHANGED <<lastEntity, links, vocabulary, baseVars, syncVars>>

renameEntity(c) ==
  /\ At(c, "renaming")
  /\ LET k == call[c] IN
     /\ entities' = [e \in Known |-> IF e = k.e THEN [entities[e] EXCEPT !.name = k.n]
                                     ELSE entities[e]]
     /\ Goto(c, [k EXCEPT !.at = "reading", !.files = linkedFiles(k.e, Desks)])
  /\ UNCHANGED <<lastEntity, links, vocabulary, baseVars, syncVars>>

-----------------------------------------------------------------------------
(* Links.                                                                  *)

Row(k) == [e |-> k.e, f |-> k.f, region |-> k.region, run |-> k.run,
           by |-> IF k.run = NoRun THEN "user" ELSE "machine",
           desk |-> DeskOf[k.f]]

\* A tag of the user on a file of the user; a tag made by hand only on the
\* desks that have it.
MayLink(e, f) == /\ e \in Known /\ Owned(f)
                 /\ Machine(e) \/ <<e, DeskOf[f]>> \in vocabulary

link(c, e, f, region) ==
  /\ MayLink(e, f)
  /\ Begin(c, "link", [NoCall EXCEPT !.at = "inserting", !.e = e, !.f = f,
                                     !.region = region])
  /\ UNCHANGED <<nameVars, links, vocabulary, baseVars, syncVars>>

\* The same checks, for a call that has just found or made its tag.
linkFound(c) ==
  /\ At(c, "linking")
  /\ LET k == call[c] IN
     Goto(c, IF MayLink(k.e, k.f) THEN [k EXCEPT !.at = "inserting"]
             ELSE AfterLink(k, FALSE))
  /\ UNCHANGED <<nameVars, links, vocabulary, baseVars, syncVars>>

createTagLink(c) ==
  /\ At(c, "inserting")
  /\ links' = links \cup {Row(call[c])}
  /\ Goto(c, AfterLink(call[c], TRUE))
  /\ UNCHANGED <<nameVars, vocabulary, baseVars, syncVars>>

unlink(c, e, f) ==
  /\ e \in Known
  /\ links' = {l \in links : ~(l.e = e /\ l.f = f /\ ~l.region)}
  /\ Begin(c, "unlink", [NoCall EXCEPT !.at = "reading", !.files = {f}, !.todo = {e}])
  /\ UNCHANGED <<nameVars, vocabulary, baseVars, syncVars>>

\* reindexFileTags: the fields of one file are read, then sent.  A file
\* that is gone has no search document.
reindexRead(c) ==
  /\ At(c, "reading")
  /\ LET k == call[c] IN
     \/ k.files = {} /\ Goto(c, AfterReindex(k)) /\ UNCHANGED crossed
     \/ \E f \in k.files :
          /\ Goto(c, [k EXCEPT !.at = "sending", !.f = f, !.fields = FieldsOf(f)])
          /\ crossed' = crossed \cup {g \in {f} : \E o \in Calls : At(o, "sending") /\ call[o].f = g}
  /\ UNCHANGED <<nameVars, links, vocabulary, baseVars, index, creating>>

reindexSend(c) ==
  /\ At(c, "sending")
  /\ LET k == call[c] IN
     /\ index' = IF Owned(k.f) THEN [index EXCEPT ![k.f] = k.fields] ELSE index
     /\ Goto(c, [k EXCEPT !.at = "reading", !.files = k.files \ {k.f}, !.fields = {}])
  /\ UNCHANGED <<nameVars, links, vocabulary, baseVars, crossed, creating>>

\* Mutant: only one of the tags that lost a row is looked at.
pruneCountOne(c) ==
  /\ At(c, "counting")
  /\ LET k == call[c] IN
     \/ k.todo = {} /\ Goto(c, AfterPrune(k))
     \/ \E e \in k.todo :
          Goto(c, [k EXCEPT !.todo = {}, !.e = e,
                     !.at = IF e \in Known /\ Machine(e) /\ LinksOf(e) = {}
                            THEN "pruning" ELSE "counting"])
  /\ UNCHANGED <<nameVars, links, vocabulary, baseVars, syncVars>>

\* pruneOrphanMachineTag, for each tag that lost a row.
pruneCount(c) ==
  /\ At(c, "counting")
  /\ LET k == call[c] IN
     \/ k.todo = {} /\ Goto(c, AfterPrune(k))
     \/ \E e \in k.todo :
          Goto(c, [k EXCEPT !.todo = k.todo \ {e}, !.e = e,
                     !.at = IF e \in Known /\ Machine(e) /\ LinksOf(e) = {}
                            THEN "pruning" ELSE "counting"])
  /\ UNCHANGED <<nameVars, links, vocabulary, baseVars, syncVars>>

Without(e) == [x \in Known \ {e} |-> entities[x]]

pruneDelete(c) ==
  /\ At(c, "pruning")
  /\ entities' = Without(call[c].e)
  /\ Goto(c, [call[c] EXCEPT !.at = "counting"])
  /\ UNCHANGED <<lastEntity, links, vocabulary, baseVars, syncVars>>

-----------------------------------------------------------------------------
(* Machine tags.                                                           *)

\* A run has ended and its labels become tags of its source file, whose
\* process is still there when the output arrives.
autotag(c, f, names, run) ==
  /\ names # {} /\ Owned(f)
  /\ Begin(c, "autotag", [NoCall EXCEPT !.at = "naming", !.f = f, !.d = DeskOf[f],
                            !.names = names, !.run = run])
  /\ UNCHANGED <<nameVars, links, vocabulary, baseVars, syncVars>>

\* findOrCreateMachineEntity: who asks for a tag that is being found or made
\* waits for it.  After the last label the file is indexed once.
autotagNext(c) ==
  /\ At(c, "naming")
  /\ LET k == call[c] IN
     \/ /\ k.names = {} /\ Goto(c, [k EXCEPT !.at = "reading", !.files = {k.f}])
        /\ UNCHANGED creating
     \/ \E n \in k.names :
          LET to == [k EXCEPT !.names = k.names \ {n}, !.n = n] IN
          IF <<k.d, n>> \in creating
          THEN Goto(c, [to EXCEPT !.at = "waiting"]) /\ UNCHANGED creating
          ELSE Goto(c, [to EXCEPT !.at = "finding"]) /\ creating' = creating \cup {<<k.d, n>>}
  /\ UNCHANGED <<nameVars, links, vocabulary, baseVars, index, crossed>>

\* The caller and all who wait for the same key go on with the tag.
Resolve(c, e) ==
  LET k == call[c] IN
  /\ creating' = creating \ {<<k.d, k.n>>} /\ UNCHANGED begun
  /\ call' = [o \in Calls |->
       IF o = c \/ (At(o, "waiting") /\ call[o].d = k.d /\ call[o].n = k.n)
       THEN [call[o] EXCEPT !.at = "linking", !.e = e] ELSE call[o]]

findMachineEntity(c) ==
  /\ At(c, "finding")
  /\ LET found == findEntityForDesk(call[c].n, call[c].d) IN
     \/ \E e \in found : Resolve(c, e)
     \/ /\ found = {} /\ Goto(c, [call[c] EXCEPT !.at = "making"])
        /\ UNCHANGED creating
  /\ UNCHANGED <<nameVars, links, vocabulary, baseVars, index, crossed>>

createMachineEntity(c) ==
  /\ At(c, "making")
  /\ Create(call[c].n, "machine")
  /\ Resolve(c, lastEntity')
  /\ UNCHANGED <<links, vocabulary, baseVars, index, crossed>>

\* Mutant: the rows on the files of a deleted desk stay.
RowsToDropOfFiles(k) ==
  CASE k.op = "removeRun" -> {l \in links : l.f = k.f /\ l.run = k.run}
    [] k.op = "deleteFile" -> {l \in links : l.f = k.f}
    [] k.op = "deleteDesk" -> {}

\* The rows that a delete takes away: of a run on a file, of a file, or of
\* the files of a desk.
RowsToDrop(k) ==
  CASE k.op = "removeRun" -> {l \in links : l.f = k.f /\ l.run = k.run}
    [] k.op = "deleteFile" -> {l \in links : l.f = k.f}
    [] k.op = "deleteDesk" -> {l \in links : DeskOf[l.f] = k.d}

\* The ner.json of a run is deleted (removeMachineLinksOfRun) ...
removeMachineLinksOfRun(c, f, run) ==
  LET k == [NoCall EXCEPT !.at = "dropping", !.op = "removeRun", !.f = f, !.run = run] IN
  /\ Begin(c, "removeRun", [k EXCEPT !.todo = {l.e : l \in RowsToDrop(k)}])
  /\ UNCHANGED <<nameVars, links, vocabulary, baseVars, syncVars>>

\* ... or a file (removeLinksOf), which is hidden first, ...
deleteFile(c, f) ==
  LET k == [NoCall EXCEPT !.at = "dropping", !.op = "deleteFile", !.f = f] IN
  /\ f \in files /\ files' = files \ {f}
  /\ Begin(c, "deleteFile", [k EXCEPT !.todo = {l.e : l \in RowsToDrop(k)}])
  /\ UNCHANGED <<nameVars, links, vocabulary, types, desks, syncVars>>

\* ... or a desk with all its files.
deleteDesk(c, d) ==
  LET k == [NoCall EXCEPT !.at = "dropping", !.op = "deleteDesk", !.d = d] IN
  /\ d \in desks /\ desks' = desks \ {d}
  /\ files' = files \ FilesOf(d)
  /\ Begin(c, "deleteDesk", [k EXCEPT !.todo = {l.e : l \in RowsToDrop(k)}])
  /\ UNCHANGED <<nameVars, links, vocabulary, types, syncVars>>

dropLinks(c) ==
  /\ At(c, "dropping")
  /\ links' = links \ RowsToDrop(call[c])
  /\ Goto(c, [call[c] EXCEPT !.at = "counting"])
  /\ UNCHANGED <<nameVars, vocabulary, baseVars, syncVars>>

-----------------------------------------------------------------------------
(* Taking a tag made by hand off a desk, or away.                          *)

removeFromDesk(c, e, d) ==
  /\ d \in desks /\ e \in Known /\ ~Machine(e) /\ <<e, d>> \in vocabulary
  /\ Begin(c, "removeFromDesk", [NoCall EXCEPT !.at = "deskLinks", !.e = e, !.d = d,
                                   !.files = linkedFiles(e, {d})])
  /\ UNCHANGED <<nameVars, links, vocabulary, baseVars, syncVars>>

deleteDeskLinks(c) ==
  /\ At(c, "deskLinks")
  /\ links' = {l \in links : ~(l.e = call[c].e /\ l.desk = call[c].d)}
  /\ Goto(c, [call[c] EXCEPT !.at = "deskRow"])
  /\ UNCHANGED <<nameVars, vocabulary, baseVars, syncVars>>

deleteDeskRow(c) ==
  /\ At(c, "deskRow")
  /\ vocabulary' = vocabulary \ {<<call[c].e, call[c].d>>}
  /\ Goto(c, [call[c] EXCEPT !.at = "lastDesk", !.todo = {call[c].e}])
  /\ UNCHANGED <<nameVars, links, baseVars, syncVars>>

\* removeDeskTags: the tags of the deleted desk are noted, its rows go.
leaveDesk(c) ==
  /\ At(c, "leaving")
  /\ Goto(c, [call[c] EXCEPT !.at = "vacating",
                !.todo = {e \in 1..lastEntity : <<e, call[c].d>> \in vocabulary}])
  /\ UNCHANGED <<nameVars, links, vocabulary, baseVars, syncVars>>

vacateDesk(c) ==
  /\ At(c, "vacating")
  /\ vocabulary' = {v \in vocabulary : v[2] # call[c].d}
  /\ Goto(c, [call[c] EXCEPT !.at = "lastDesk"])
  /\ UNCHANGED <<nameVars, links, baseVars, syncVars>>

\* Mutant: the other desks are not asked.
countDesksNever(c) ==
  /\ At(c, "lastDesk")
  /\ LET k == call[c] IN
     \/ k.todo = {} /\ Goto(c, [k EXCEPT !.at = "reading"])
     \/ \E e \in k.todo : Goto(c, [k EXCEPT !.todo = k.todo \ {e}, !.e = e, !.at = "allLinks"])
  /\ UNCHANGED <<nameVars, links, vocabulary, baseVars, syncVars>>

\* Of each tag that left a desk: does another desk have it?
countDesks(c) ==
  /\ At(c, "lastDesk")
  /\ LET k == call[c] IN
     \/ k.todo = {} /\ Goto(c, [k EXCEPT !.at = "reading"])
     \/ \E e \in k.todo :
          Goto(c, [k EXCEPT !.todo = k.todo \ {e}, !.e = e,
                     !.at = IF \E d \in Desks : <<e, d>> \in vocabulary
                            THEN "lastDesk" ELSE "allLinks"])
  /\ UNCHANGED <<nameVars, links, vocabulary, baseVars, syncVars>>

deleteEverywhere(c, e) ==
  /\ e \in Known /\ ~Machine(e)
  /\ Begin(c, "deleteEverywhere", [NoCall EXCEPT !.at = "allLinks", !.e = e,
                                     !.files = linkedFiles(e, Desks)])
  /\ UNCHANGED <<nameVars, links, vocabulary, baseVars, syncVars>>

deleteAllLinks(c) ==
  /\ At(c, "allLinks")
  /\ links' = links \ LinksOf(call[c].e)
  /\ Goto(c, [call[c] EXCEPT !.at = IF call[c].op = "deleteEverywhere" THEN "allRows"
                                    ELSE "entity"])
  /\ UNCHANGED <<nameVars, vocabulary, baseVars, syncVars>>

deleteAllRows(c) ==
  /\ At(c, "allRows")
  /\ vocabulary' = {v \in vocabulary : v[1] # call[c].e}
  /\ Goto(c, [call[c] EXCEPT !.at = "entity"])
  /\ UNCHANGED <<nameVars, links, baseVars, syncVars>>

deleteEntity(c) ==
  /\ At(c, "entity")
  /\ entities' = Without(call[c].e)
  /\ Goto(c, [call[c] EXCEPT !.at = IF call[c].op = "deleteDesk" THEN "lastDesk"
                                    ELSE "reading"])
  /\ UNCHANGED <<lastEntity, links, vocabulary, baseVars, syncVars>>

-----------------------------------------------------------------------------
TagRequest(c) ==
  \/ \E t \in Types : createEntityType(c, t) \/ deleteEntityType(c, t)
  \/ \E d \in Desks, n \in Names : createInDesk(c, d, n)
  \/ \E f \in Files, n \in Names : createEntitiesAndLink(c, f, n)
  \/ \E d, from \in Desks : importIntoDesk(c, d, {e \in Known : <<e, from>> \in vocabulary})
  \/ \E d \in Desks, e \in Known : importIntoDesk(c, d, {e})
  \/ \E e \in Known, n \in Names : rename(c, e, n)
  \/ \E e \in Known, f \in Files, region \in BOOLEAN : link(c, e, f, region)
  \/ \E e \in Known, f \in Files : unlink(c, e, f)
  \/ \E e \in Known, d \in Desks : removeFromDesk(c, e, d)
  \/ \E e \in Known : deleteEverywhere(c, e)

\* Machine tags are of the type Tag.
RunCallback(c) ==
  \/ \E f \in Files, run \in Runs, names \in SUBSET Names :
       /\ \A n \in names : TypeOf[n] = ProtectedType
       /\ autotag(c, f, names, run)
  \/ \E f \in Files, run \in Runs : removeMachineLinksOfRun(c, f, run)
  \/ \E f \in Files : deleteFile(c, f)
  \/ \E d \in Desks : deleteDesk(c, d)

TagStep(c) ==
  \/ writeType(c) \/ createEntity(c) \/ attachToDesk(c) \/ importNext(c)
  \/ renameEntity(c) \/ linkFound(c) \/ createTagLink(c)
  \/ reindexRead(c) \/ reindexSend(c) \/ pruneCount(c) \/ pruneDelete(c)
  \/ autotagNext(c) \/ findMachineEntity(c) \/ createMachineEntity(c)
  \/ dropLinks(c) \/ deleteDeskLinks(c) \/ deleteDeskRow(c)
  \/ leaveDesk(c) \/ vacateDesk(c) \/ countDesks(c)
  \/ deleteAllLinks(c) \/ deleteAllRows(c) \/ deleteEntity(c)

TagsNext == \E c \in Calls : TagRequest(c) \/ RunCallback(c) \/ TagStep(c)

TagsSpec == TagsInit /\ [][TagsNext]_tagVars

-----------------------------------------------------------------------------
(* Properties.                                                             *)

TagsTypeOK ==
  /\ Known \subseteq 1..lastEntity /\ lastEntity \in 0..MaxEntities
  /\ entities \in [Known -> [name: Names, by: {"user", "machine"}]]
  /\ links \subseteq [e: EntityRids, f: Files, region: BOOLEAN, run: Runs \cup {NoRun},
                      by: {"user", "machine"}, desk: Desks]
  /\ vocabulary \subseteq EntityRids \X Desks
  /\ types \subseteq Types /\ desks \subseteq Desks /\ files \subseteq Files
  /\ DOMAIN index = Files /\ crossed \subseteq Files
  /\ creating \subseteq (Desks \cup {NoDesk}) \X Names
  /\ \A c \in Calls : call[c].e \in 0..MaxEntities /\ call[c].todo \subseteq EntityRids

Quiet == UnderWay = {}

\* When no call is under way, the rows refer to tags, files and desks that
\* exist: what the deletes of the tag, the file and the desk leave behind.
NothingDangles ==
  Quiet => /\ \A l \in links : l.e \in Known /\ l.f \in files
           /\ \A v \in vocabulary : v[1] \in Known /\ v[2] \in desks

\* A tag made by hand is only on files of desks that have it, whatever was
\* imported, removed and linked in between (tags.ts:557).
LinksFollowVocabulary ==
  Quiet => \A l \in links : (l.e \in Known /\ ~Machine(l.e)) => <<l.e, l.desk>> \in vocabulary

\* A desk never has two tags made by hand with one name, through creating,
\* importing and renaming (tags.ts:273-275, 800-804, 843); and the runs that
\* end at the same time on one desk make one machine tag of a name (343-347).
OneTagPerName ==
  /\ \A d \in desks, n \in Names : Cardinality(findHumanInDesk(n, d)) <= 1
  /\ \A n \in Names :
       Cardinality({e \in Known : Machine(e) /\ entities[e].name = n}) <= Cardinality(Desks)

\* "A machine-made entity left with no links is deleted" (tags.ts:4-5).
MachineTagsAreUsed ==
  Quiet => \A e \in Known : Machine(e) => LinksOf(e) # {}

\* The search fields of a file are those of its rows once the calls are over
\* (tags.ts:591-611), unless fields of it were sent by two calls at once: those
\* read first may arrive last.
IndexIsCurrent ==
  Quiet => \A f \in files \ crossed : index[f] = FieldsOf(f)

\* "user-made entities are kept even when unused": one goes only when it is
\* deleted as a tag or when no desk has it.
UserTagsKept ==
  [][\A e \in Known : (~Machine(e) /\ e \notin DOMAIN entities') =>
        ~\E d \in desks' : <<e, d>> \in vocabulary']_tagVars

\* The rows of the tags hold together: types, ends of the links, vocabularies,
\* and one tag of a name in each.
VocabularyIsSound ==
  TagsTypeOK /\ NothingDangles /\ LinksFollowVocabulary /\ OneTagPerName
=============================================================================
