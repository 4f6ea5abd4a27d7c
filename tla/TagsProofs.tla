------------------------------ MODULE TagsProofs ------------------------------
(***************************************************************************)
(* Proofs about Tags, for any desks, files, names and runs, and any number *)
(* of calls that overlap in any way but those of Breaking.                 *)
(* RowsInv says what the rows of the tags say of each other and what the   *)
(* locals of a call under way say of the rows; SyncInv says, beside it,    *)
(* which call will look at a machine tag without a use, make one, or read  *)
(* the fields of a file; HeldInv, which call has a tag made by hand that   *)
(* no desk has.  The last part is about the queries over the rows.         *)
(***************************************************************************)
EXTENDS TagQueries, Counting

-----------------------------------------------------------------------------
(* Types.                                                                  *)

Entity == [name: Names, by: {"user", "machine"}]
TagLink == [e: EntityRids, f: Files, region: BOOLEAN, run: Runs \cup {NoRun},
            by: {"user", "machine"}, desk: Desks]
Field == [e: EntityRids, name: Names, by: {"user", "machine"}]
Ops == {"none", "createType", "deleteType", "createInDesk", "createAndLink", "import", "rename", "link",
        "unlink", "autotag", "removeRun", "deleteFile", "deleteDesk", "removeFromDesk", "deleteEverywhere"}
Places == {"idle", "addType", "dropType", "creating", "attaching", "importing", "renaming", "linking",
           "inserting", "reading", "sending", "counting", "pruning", "naming", "waiting", "finding", "making",
           "dropping", "deskLinks", "deskRow", "leaving", "vacating", "lastDesk", "allLinks", "allRows", "entity"}
TagCall == [op: Ops, at: Places, e: 0..MaxEntities, f: Files \cup {NoFile}, d: Desks \cup {NoDesk},
            n: Names \cup Types \cup {NoName}, region: BOOLEAN, run: Runs \cup {NoRun},
            todo: SUBSET EntityRids, names: SUBSET Names, files: SUBSET Files, fields: SUBSET Field]

RowTypes ==
  /\ lastEntity \in 0..MaxEntities /\ Known \subseteq 1..lastEntity
  /\ entities \in [Known -> Entity]
  /\ links \subseteq TagLink /\ vocabulary \subseteq EntityRids \X Desks
  /\ types \subseteq Types /\ desks \subseteq Desks /\ files \subseteq Files
SyncTypes ==
  /\ index \in [Files -> SUBSET Field] /\ crossed \subseteq Files
  /\ creating \subseteq (Desks \cup {NoDesk}) \X Names

-----------------------------------------------------------------------------
(* Calls: where each operation can be, and which are under way together.   *)

InPlace(k) ==
  \/ k.op = "none" /\ k.at = "idle"
  \/ k.op = "createType" /\ k.at = "addType"
  \/ k.op = "deleteType" /\ k.at = "dropType"
  \/ k.op = "createInDesk" /\ k.at \in {"creating", "attaching"}
  \/ k.op = "createAndLink" /\ k.at \in {"creating", "attaching", "linking", "inserting", "reading", "sending"}
  \/ k.op = "import" /\ k.at \in {"importing", "attaching"}
  \/ k.op = "rename" /\ k.at \in {"renaming", "reading", "sending"}
  \/ k.op = "link" /\ k.at \in {"inserting", "reading", "sending"}
  \/ k.op = "unlink" /\ k.at \in {"reading", "sending", "counting", "pruning"}
  \/ k.op = "autotag" /\ k.at \in {"naming", "waiting", "finding", "making", "linking", "inserting", "reading", "sending"}
  \/ k.op = "removeRun" /\ k.at \in {"dropping", "counting", "pruning", "reading", "sending"}
  \/ k.op = "deleteFile" /\ k.at \in {"dropping", "counting", "pruning"}
  \/ k.op = "deleteDesk" /\ k.at \in {"dropping", "counting", "pruning", "leaving", "vacating", "lastDesk",
                                       "allLinks", "entity", "reading", "sending"}
  \/ k.op = "removeFromDesk" /\ k.at \in {"deskLinks", "deskRow", "lastDesk", "allLinks", "entity", "reading", "sending"}
  \/ k.op = "deleteEverywhere" /\ k.at \in {"allLinks", "allRows", "entity", "reading", "sending"}

\* What a place needs of the locals that no step of another call can change.
PlaceOK(k) ==
  /\ InPlace(k)
  /\ k.at \in {"addType", "dropType"} => k.n \in Types
  /\ k.at \in {"waiting", "finding", "making"} => k.n \in Names
  /\ k.op \in Linkers => k.files \subseteq {k.f}
  /\ k.op = "removeRun" => k.f \in Files
  /\ k.op \in {"removeFromDesk", "deleteEverywhere"} => k.e # 0

Meet == \A c, o \in UnderWay : c # o => {call[c].op, call[o].op} \in Together

-----------------------------------------------------------------------------
(* What the locals of a call say of the rows.                              *)

ByHand(e) == e \in Known => ~Machine(e)
NoDeskHas(e) == \A v \in vocabulary : v[1] # e
Free(n, d) == findHumanInDesk(n, d) = {}

\* Rids are never given again.
RidsOK(k) == k.e <= lastEntity /\ k.todo \subseteq 1..lastEntity

\* Who makes a link has a file, and a tag that may be on it.
LinkerOK(k) ==
  /\ k.op \in Linkers => k.f \in files
  /\ k.op \in {"createAndLink", "autotag"} => k.d = DeskOf[k.f]
  /\ k.at = "inserting" => k.e \in Known /\ (Machine(k.e) \/ <<k.e, DeskOf[k.f]>> \in vocabulary)
  /\ k.op = "autotag" /\ k.at = "linking" => k.e \in Known

\* Who gives a name has found that it is free.
NamerOK(k) ==
  /\ k.at = "creating" => k.d \in desks /\ k.n \in Names /\ Free(k.n, k.d)
  /\ k.at = "attaching" => k.d \in desks /\ k.e \in Known /\ ~Machine(k.e) /\ Free(entities[k.e].name, k.d)
  /\ k.op = "import" => k.d \in desks /\ \A e \in k.todo : e \in Known /\ ~Machine(e)
  /\ k.at = "renaming" => k.n \in Names /\ ByHand(k.e) /\ \A d \in DesksOf(k.e) : Free(k.n, d)

\* Who deletes rows has noted their tags, and what was deleted stays so.
RemoverOK(k) ==
  /\ k.at = "dropping" => \A l \in RowsToDrop(k) : l.e \in k.todo
  /\ k.at = "pruning" /\ k.e \in Known => Machine(k.e) /\ LinksOf(k.e) = {}
  /\ k.op = "deleteDesk" /\ k.at \in {"counting", "pruning", "leaving", "vacating"} =>
       \A l \in links : DeskOf[l.f] # k.d

\* Who takes a tag off a desk has one made by hand, and deletes it when no
\* desk has it.
TakerOK(k) ==
  /\ k.at \in {"deskLinks", "deskRow", "allLinks", "allRows", "entity"} => ByHand(k.e)
  /\ k.at = "deskRow" => \A l \in links : ~(l.e = k.e /\ l.desk = k.d)
  /\ k.at \in {"vacating", "lastDesk", "allLinks", "allRows", "entity"} => \A e \in k.todo : ByHand(e)
  /\ k.at = "allLinks" /\ k.op # "deleteEverywhere" => NoDeskHas(k.e)
  /\ k.at \in {"allRows", "entity"} => LinksOf(k.e) = {}
  /\ k.at = "entity" => NoDeskHas(k.e)

CallOK(k) == RidsOK(k) /\ LinkerOK(k) /\ NamerOK(k) /\ RemoverOK(k) /\ TakerOK(k)
CallsOK == \A c \in Calls : CallOK(call[c])

-----------------------------------------------------------------------------
(* What the rows say of each other.                                        *)

LinksOK ==
  \A l \in links :
    /\ l.e \in Known /\ l.desk = DeskOf[l.f]
    /\ l.f \in files \/ \E c \in Calls : At(c, "dropping") /\ l \in RowsToDrop(call[c])
    /\ Machine(l.e) \/ <<l.e, l.desk>> \in vocabulary

\* A desk that goes has a call that takes its tags away.
Vacates(d) ==
  \E c \in Calls : /\ call[c].op = "deleteDesk" /\ call[c].d = d
                   /\ call[c].at \in {"dropping", "counting", "pruning", "leaving", "vacating"}

VocabularyOK ==
  /\ \A f \in files : DeskOf[f] \in desks
  /\ \A v \in vocabulary :
       /\ v[1] \in Known /\ ~Machine(v[1])
       /\ v[2] \in desks \/ Vacates(v[2])

NamesOK == \A d \in desks, n \in Names : \A a, b \in findHumanInDesk(n, d) : a = b

RowsInv ==
  /\ RowTypes /\ SyncTypes /\ call \in [Calls -> TagCall] /\ (\A c \in Calls : PlaceOK(call[c])) /\ Meet
  /\ CallsOK /\ LinksOK /\ VocabularyOK /\ NamesOK

-----------------------------------------------------------------------------
(* Machine tags.                                                           *)

\* A call that links a machine tag, or that will look whether it is used.
LooksAt(k, e) ==
  \/ k.op = "autotag" /\ k.at \in {"linking", "inserting"} /\ k.e = e
  \/ (k.at \in {"dropping", "counting", "pruning"} \/ k.op = "unlink") /\ e \in k.todo
  \/ k.at = "pruning" /\ k.e = e

UsedInv == \A e \in Known : Machine(e) /\ LinksOf(e) = {} => \E c \in Calls : LooksAt(call[c], e)

\* One call finds or makes the tag of a key; a name has at most as many machine
\* tags, made or about to be, as there are desks.
Machines(n) == {e \in Known : Machine(e) /\ entities[e].name = n}
Making(n) == {d \in Desks : \E c \in Calls : At(c, "making") /\ call[c].n = n /\ call[c].d = d}
Finders == {c \in Calls : call[c].at \in {"finding", "making"}}
MachineInv ==
  /\ \A c \in Finders : <<call[c].d, call[c].n>> \in creating
  /\ \A c, o \in Finders : call[c].d = call[o].d /\ call[c].n = call[o].n => c = o
  /\ \A n \in Names : Cardinality(Machines(n)) + Cardinality(Making(n)) <= Cardinality(Desks)

-----------------------------------------------------------------------------
(* The search index.                                                       *)

Sends(c, f) == At(c, "sending") /\ call[c].f = f

\* The call will still read the rows of the file.
WillRead(k, f) ==
  \/ f \in k.files /\ ~(k.at = "sending" /\ k.f = f)
  \/ k.op = "autotag" /\ k.f = f /\ k.at \notin {"reading", "sending"}
  \/ k.op = "removeRun" /\ k.f = f /\ k.at \in {"dropping", "counting", "pruning"}

\* Which files a call has on its list.
FilesOK(k) ==
  /\ k.at \notin {"reading", "sending"} /\ k.op \notin {"removeFromDesk", "deleteEverywhere"} => k.files = {}
  /\ k.op = "deleteFile" => k.f \notin files
  /\ k.op = "deleteDesk" => \A f \in files : DeskOf[f] # k.d
  /\ k.at = "deskLinks" => linkedFiles(k.e, {k.d}) \subseteq k.files
  /\ k.op = "deleteEverywhere" /\ k.at = "allLinks" => linkedFiles(k.e, Desks) \subseteq k.files

IndexInv ==
  /\ \A c \in Calls : FilesOK(call[c])
  /\ \A f \in files \ crossed :
       /\ \A c, o \in Calls : Sends(c, f) /\ Sends(o, f) => c = o
       /\ \/ \E c \in Calls : WillRead(call[c], f)
          \/ \E c \in Calls : Sends(c, f) /\ call[c].fields = FieldsOf(f)
          \/ index[f] = FieldsOf(f) /\ \A c \in Calls : ~Sends(c, f)

SyncInv == UsedInv /\ MachineInv /\ IndexInv

-----------------------------------------------------------------------------
(* Steps: what a call leaves to the others.                                *)

Attachers == Namers \ {"rename"}
Takers == {"removeFromDesk", "deleteEverywhere", "deleteDesk"}
NoneBreak == Together \cap Breaking = {}

\* The operations a and b may be under way together.
Apart(a, b) ==
  /\ ~(a \in Linkers /\ b \in Removers) /\ ~(a \in Removers /\ b \in Linkers)
  /\ ~(a \in Namers /\ b \in Namers)
  /\ ~(a \in Attachers /\ b \in Takers) /\ ~(a \in Takers /\ b \in Attachers)

LEMMA ApartIf ==
  ASSUME NoneBreak, NEW a, NEW b, {a, b} \in Together
  PROVE  Apart(a, b)
<1>1. {a, b} \notin Breaking
  BY DEF NoneBreak
<1>2. ~(a \in Namers /\ b \in Namers)
  BY <1>1 DEF Breaking
<1>3. ~(a \in Linkers /\ b \in Removers)
  BY <1>1 DEF Breaking
<1>4. ~(b \in Linkers /\ a \in Removers)
  <2>1. {b, a} = {a, b}
    OBVIOUS
  <2> QED
    BY <1>1, <2>1 DEF Breaking
<1>5. ~(a \in Attachers /\ b \in Takers)
  BY <1>1 DEF Breaking, Attachers, Takers
<1>6. ~(b \in Attachers /\ a \in Takers)
  <2>1. {b, a} = {a, b}
    OBVIOUS
  <2> QED
    BY <1>1, <2>1 DEF Breaking, Attachers, Takers
<1> QED
  BY <1>2, <1>3, <1>4, <1>5, <1>6 DEF Apart

\* Call c, of operation op, goes to k.
Acts(c, op, k) ==
  /\ k \in TagCall /\ PlaceOK(k) /\ (k.at = "idle" \/ k.op = op)
  /\ call' = [call EXCEPT ![c] = k]
  /\ \A o \in UnderWay \ {c} : {op, call[o].op} \in Together

\* What only c was about to delete is deleted when c goes on.
HandsOver(c, k) ==
  /\ At(c, "dropping") => \A l \in links' : l \notin RowsToDrop(call[c])
  /\ call[c].op = "deleteDesk" /\ call[c].at \in {"dropping", "counting", "pruning", "leaving", "vacating"} =>
       \/ \A v \in vocabulary' : v[2] # call[c].d
       \/ /\ k.op = "deleteDesk" /\ k.d = call[c].d
          /\ k.at \in {"dropping", "counting", "pruning", "leaving", "vacating"}

LEMMA ActsShape ==
  ASSUME RowsInv, NoneBreak, NEW c \in Calls, NEW op, NEW k, Acts(c, op, k)
  PROVE  /\ call' \in [Calls -> TagCall] /\ call'[c] = k /\ (\A o \in Calls \ {c} : call'[o] = call[o])
         /\ (\A o \in Calls : PlaceOK(call[o]))' /\ Meet'
         /\ \A o \in Calls \ {c} : Apart(op, call[o].op)
<1>1. call \in [Calls -> TagCall] /\ (\A o \in Calls : PlaceOK(call[o])) /\ Meet
  BY DEF RowsInv
<1>2. call' \in [Calls -> TagCall] /\ call'[c] = k /\ (\A o \in Calls \ {c} : call'[o] = call[o])
  BY <1>1 DEF Acts
<1>3. (\A o \in Calls : PlaceOK(call[o]))'
  BY <1>1, <1>2 DEF Acts, PlaceOK, InPlace
<1>4. Meet'
  <2> SUFFICES ASSUME NEW a \in UnderWay', NEW b \in UnderWay', a # b
               PROVE  {call'[a].op, call'[b].op} \in Together
    BY DEF Meet
  <2>1. a \in Calls /\ b \in Calls /\ (a # c => a \in UnderWay) /\ (b # c => b \in UnderWay)
    BY <1>2 DEF UnderWay
  <2>2. CASE a = c
    <3>1. call'[a].op = op /\ call'[b] = call[b] /\ b \in UnderWay \ {c}
      BY <1>2, <2>1, <2>2 DEF Acts, UnderWay
    <3> QED
      BY <3>1 DEF Acts
  <2>3. CASE b = c
    <3>1. call'[b].op = op /\ call'[a] = call[a] /\ a \in UnderWay \ {c}
      BY <1>2, <2>1, <2>3 DEF Acts, UnderWay
    <3>2. {op, call[a].op} \in Together /\ {call[a].op, op} = {op, call[a].op}
      BY <3>1 DEF Acts
    <3> QED
      BY <3>1, <3>2
  <2>4. CASE a # c /\ b # c
    BY <1>1, <1>2, <2>1, <2>4 DEF Meet
  <2> QED
    BY <2>2, <2>3, <2>4
<1>5. ASSUME NEW o \in Calls \ {c} PROVE Apart(op, call[o].op)
  <2>1. CASE o \in UnderWay
    BY <2>1, ApartIf DEF Acts
  <2>2. CASE o \notin UnderWay
    <3>1. call[o].op = "none"
      BY <1>1, <2>2 DEF UnderWay, PlaceOK, InPlace
    <3> QED
      BY <3>1 DEF Apart, Linkers, Removers, Namers, Attachers, Takers
  <2> QED
    BY <2>1, <2>2
<1> QED
  BY <1>2, <1>3, <1>4, <1>5

LEMMA DropsStay ==
  ASSUME RowsInv, NoneBreak, NEW c \in Calls, NEW op, NEW k, Acts(c, op, k), HandsOver(c, k),
         NEW l \in links', NEW o \in Calls, At(o, "dropping"), l \in RowsToDrop(call[o])
  PROVE  (\E a \in Calls : At(a, "dropping") /\ l \in RowsToDrop(call[a]))'
<1>1. o # c
  BY DEF HandsOver
<1>2. call'[o] = call[o] /\ call[o].op \in {"removeRun", "deleteFile", "deleteDesk"}
  BY <1>1, ActsShape DEF At, RowsInv, PlaceOK, InPlace
<1>3. (l \in RowsToDrop(call[o]))'
  BY <1>2 DEF RowsToDrop
<1> QED
  BY <1>2, <1>3 DEF At

LEMMA VacatesStay ==
  ASSUME RowsInv, NoneBreak, NEW c \in Calls, NEW op, NEW k, Acts(c, op, k), HandsOver(c, k),
         NEW v \in vocabulary', Vacates(v[2])
  PROVE  Vacates(v[2])'
<1>1. PICK o \in Calls : /\ call[o].op = "deleteDesk" /\ call[o].d = v[2]
                         /\ call[o].at \in {"dropping", "counting", "pruning", "leaving", "vacating"}
  BY DEF Vacates
<1>2. CASE o = c
  BY <1>1, <1>2, ActsShape DEF HandsOver, Vacates
<1>3. CASE o # c
  BY <1>1, <1>3, ActsShape DEF Vacates
<1> QED
  BY <1>2, <1>3

-----------------------------------------------------------------------------
(* Steps by what they do to the rows; each keeps the invariant if what the *)
(* call itself goes on with is right.                                      *)

\* The calls of the others and their parts of the invariant.
LEMMA OthersAsWere ==
  ASSUME RowsInv, NoneBreak, NEW c \in Calls, NEW op, NEW k, Acts(c, op, k), CallOK(k)',
         \A o \in Calls \ {c} : \A m : m = call[o] => CallOK(m)'
  PROVE  CallsOK'
<1> SUFFICES ASSUME NEW o \in Calls PROVE CallOK(call[o])'
  BY DEF CallsOK
<1>1. PICK m : m = call'[o]
  OBVIOUS
<1>2. CallOK(m)'
  BY <1>1, ActsShape
<1> QED
  BY <1>1, <1>2

LEMMA CallSame ==
  ASSUME NEW m, CallOK(m), UNCHANGED <<nameVars, links, vocabulary, desks, files>>
  PROVE  CallOK(m)'
<1>1. /\ entities' = entities /\ lastEntity' = lastEntity /\ links' = links /\ vocabulary' = vocabulary
      /\ desks' = desks /\ files' = files
  BY DEF nameVars
<1>2. RidsOK(m)'
  BY <1>1 DEF CallOK, RidsOK
<1>3. LinkerOK(m)'
  BY <1>1 DEF CallOK, LinkerOK, Known, Machine
<1>4. NamerOK(m)'
  BY <1>1 DEF CallOK, NamerOK, Known, Machine, Free, findHumanInDesk, ByHand, DesksOf
<1>5. RemoverOK(m)'
  BY <1>1 DEF CallOK, RemoverOK, Known, Machine, LinksOf, RowsToDrop
<1>6. TakerOK(m)'
  BY <1>1 DEF CallOK, TakerOK, Known, Machine, LinksOf, ByHand, NoDeskHas
<1> QED
  BY <1>2, <1>3, <1>4, <1>5, <1>6 DEF CallOK

\* No row changes.
LEMMA RowsStay ==
  ASSUME RowsInv, NoneBreak, NEW c \in Calls, NEW op, NEW k, Acts(c, op, k), HandsOver(c, k), CallOK(k),
         SyncTypes', types' \subseteq Types, UNCHANGED <<nameVars, links, vocabulary, desks, files>>
  PROVE  RowsInv'
<1>1. /\ entities' = entities /\ lastEntity' = lastEntity /\ links' = links /\ vocabulary' = vocabulary
      /\ desks' = desks /\ files' = files
  BY DEF nameVars
<1>2. RowTypes'
  BY <1>1 DEF RowsInv, RowTypes, Known
<1>3. ASSUME NEW o \in Calls \ {c}, NEW m, m = call[o] PROVE CallOK(m)'
  BY <1>3, CallSame DEF RowsInv, CallsOK
<1>4. CallsOK'
  BY <1>3, CallSame, OthersAsWere
<1>5. LinksOK'
  BY <1>1, DropsStay DEF RowsInv, LinksOK, Known, Machine
<1>6. VocabularyOK'
  BY <1>1, VacatesStay DEF RowsInv, VocabularyOK, Known, Machine
<1>7. NamesOK'
  BY <1>1 DEF RowsInv, NamesOK, findHumanInDesk, Known, Machine
<1> QED
  BY <1>2, <1>4, <1>5, <1>6, <1>7, ActsShape DEF RowsInv

\* A new tag is on no desk.
LEMMA CreateAdds ==
  ASSUME RowsInv, NEW n \in Names, NEW by, Create(n, by), vocabulary' = vocabulary
  PROVE  /\ Known' = Known \cup {lastEntity + 1} /\ lastEntity + 1 \notin Known
         /\ (\A e \in Known : entities'[e] = entities[e])
         /\ entities'[lastEntity + 1] = [name |-> n, by |-> by]
         /\ lastEntity + 1 \in EntityRids /\ lastEntity' = lastEntity + 1 /\ 1..lastEntity \subseteq 1..lastEntity'
         /\ lastEntity \in Nat
         /\ \A m, d : findHumanInDesk(m, d)' = findHumanInDesk(m, d)
<1>1. lastEntity \in Nat /\ MaxEntities \in Nat /\ Known \subseteq 1..lastEntity
  BY TagsConstants DEF RowsInv, RowTypes
<1>2. lastEntity' = lastEntity + 1 /\ lastEntity < MaxEntities
  BY DEF Create
<1>3. /\ Known' = Known \cup {lastEntity + 1} /\ lastEntity + 1 \notin Known
      /\ \A e \in Known : entities'[e] = entities[e]
      /\ entities'[lastEntity + 1] = [name |-> n, by |-> by]
  BY <1>1 DEF Create, Known
<1>4. lastEntity + 1 \in EntityRids /\ 1..lastEntity \subseteq 1..lastEntity'
  BY <1>1, <1>2 DEF EntityRids
<1>5. \A e \in Known : Machine(e)' = Machine(e)
  BY <1>3 DEF Machine
<1>6. \A m, d : findHumanInDesk(m, d)' = findHumanInDesk(m, d)
  BY <1>3, <1>5 DEF findHumanInDesk, RowsInv, VocabularyOK
<1> QED
  BY <1>1, <1>2, <1>3, <1>4, <1>6

\* The locals of a call keep what they say when a tag is made.
LEMMA CreateKeepsCall ==
  ASSUME RowsInv, NEW n \in Names, NEW by, Create(n, by), UNCHANGED <<links, vocabulary, desks, files>>,
         NEW m \in TagCall, CallOK(m)
  PROVE  CallOK(m)'
<1>1. links' = links /\ vocabulary' = vocabulary /\ desks' = desks /\ files' = files
  OBVIOUS
<1>2. /\ Known' = Known \cup {lastEntity + 1} /\ lastEntity + 1 \notin Known
      /\ (\A e \in Known : entities'[e] = entities[e])
      /\ lastEntity' = lastEntity + 1 /\ 1..lastEntity \subseteq 1..lastEntity' /\ lastEntity \in Nat
      /\ \A a, d : findHumanInDesk(a, d)' = findHumanInDesk(a, d)
  BY <1>1, CreateAdds
<1>3. \A e \in Known : Machine(e)' = Machine(e)
  BY <1>2 DEF Machine
<1>4. m.e \in 0..lastEntity /\ m.todo \subseteq 0..lastEntity /\ m.e # lastEntity + 1
  BY <1>2 DEF CallOK, RidsOK, TagCall
<1>5. RidsOK(m)'
  BY <1>2, <1>4 DEF CallOK, RidsOK, TagCall
<1>6. \A e \in 0..lastEntity : ByHand(e) => ByHand(e)'
  BY <1>2, <1>3 DEF ByHand
<1>7. LinkerOK(m)'
  BY <1>1, <1>2, <1>3 DEF CallOK, LinkerOK
<1>8. NamerOK(m)'
  <2>1. \A a \in Known : entities'[a].name = entities[a].name
    BY <1>2
  <2> QED
    BY <1>1, <1>2, <1>3, <1>4, <1>6, <2>1 DEF CallOK, NamerOK, Free, DesksOf
<1>9. RemoverOK(m)'
  BY <1>1, <1>2, <1>3, <1>4 DEF CallOK, RemoverOK, LinksOf, RowsToDrop
<1>10. TakerOK(m)'
  BY <1>1, <1>4, <1>6 DEF CallOK, TakerOK, LinksOf, NoDeskHas
<1> QED
  BY <1>5, <1>7, <1>8, <1>9, <1>10 DEF CallOK

\* A tag is made: no row has its rid yet.
LEMMA TagComes ==
  ASSUME RowsInv, NoneBreak, NEW c \in Calls, NEW op, NEW k, Acts(c, op, k), HandsOver(c, k), CallOK(k)',
         SyncTypes', UNCHANGED <<links, vocabulary, types, desks, files>>,
         NEW n \in Names, NEW by \in {"user", "machine"}, Create(n, by)
  PROVE  RowsInv'
<1>1. /\ lastEntity' = lastEntity + 1 /\ lastEntity < MaxEntities /\ links' = links /\ vocabulary' = vocabulary
      /\ desks' = desks /\ files' = files /\ types' = types
  BY DEF Create
<1>2. lastEntity \in Nat /\ MaxEntities \in Nat /\ Known \subseteq 1..lastEntity
  BY TagsConstants DEF RowsInv, RowTypes
<1>3. /\ Known' = Known \cup {lastEntity + 1} /\ lastEntity + 1 \notin Known
      /\ \A e \in Known : entities'[e] = entities[e]
      /\ entities'[lastEntity + 1] = [name |-> n, by |-> by]
  BY <1>2 DEF Create, Known
<1>4. RowTypes'
  <2>1. lastEntity' \in 0..MaxEntities /\ Known' \subseteq 1..lastEntity'
    <3>1. lastEntity' \in 0..MaxEntities /\ 1..lastEntity \subseteq 1..lastEntity' /\ lastEntity + 1 \in 1..lastEntity'
      BY <1>1, <1>2
    <3>2. Known' = Known \cup {lastEntity + 1} /\ Known \subseteq 1..lastEntity
      BY <1>2, <1>3
    <3> QED
      BY <3>1, <3>2
  <2>2. entities' \in [Known' -> Entity]
    <3>1. entities' = [e \in Known' |-> entities'[e]]
      BY <1>3 DEF Create, Known
    <3>2. \A e \in Known' : entities'[e] \in Entity
      BY <1>3 DEF RowsInv, RowTypes, Entity
    <3> QED
      BY <3>1, <3>2
  <2> QED
    BY <1>1, <2>1, <2>2 DEF RowsInv, RowTypes
<1>5. \A e \in Known : Machine(e)' = Machine(e)
  BY <1>3 DEF Machine
<1>6. \A m, d : findHumanInDesk(m, d)' = findHumanInDesk(m, d)
  BY <1>1, <1>3, <1>5 DEF findHumanInDesk, RowsInv, VocabularyOK
<1>7. ASSUME NEW o \in Calls \ {c}, NEW m, m = call[o] PROVE CallOK(m)'
  BY <1>7, CreateKeepsCall DEF RowsInv, CallsOK
<1>8. CallsOK'
  BY <1>7, OthersAsWere
<1>9. LinksOK'
  BY <1>1, <1>3, <1>5, DropsStay DEF RowsInv, LinksOK
<1>10. VocabularyOK'
  BY <1>1, <1>3, <1>5, VacatesStay DEF RowsInv, VocabularyOK
<1>11. NamesOK'
  BY <1>1, <1>6 DEF RowsInv, NamesOK
<1> QED
  BY <1>4, <1>8, <1>9, <1>10, <1>11, ActsShape DEF RowsInv

\* A tag made by hand gets another name, which no desk of the tag has.
LEMMA TagRenamed ==
  ASSUME RowsInv, NoneBreak, NEW c \in Calls, NEW k, Acts(c, "rename", k), HandsOver(c, k), CallOK(k)',
         SyncTypes', UNCHANGED <<lastEntity, links, vocabulary, types, desks, files>>,
         NEW x, NEW n \in Names, ByHand(x), \A d \in DesksOf(x) : Free(n, d),
         entities' = [e \in Known |-> IF e = x THEN [entities[e] EXCEPT !.name = n] ELSE entities[e]]
  PROVE  RowsInv'
<1>1. /\ lastEntity' = lastEntity /\ links' = links /\ vocabulary' = vocabulary
      /\ desks' = desks /\ files' = files /\ types' = types
  OBVIOUS
<1>2. /\ Known' = Known /\ \A e \in Known : entities'[e] \in Entity /\ entities'[e].by = entities[e].by
      /\ \A e \in Known : e # x => entities'[e].name = entities[e].name
      /\ x \in Known => entities'[x].name = n
  BY DEF Known, RowsInv, RowTypes, Entity
<1>3. RowTypes'
  <2>1. entities' \in [Known' -> Entity]
    <3>1. entities' = [e \in Known' |-> entities'[e]]
      BY <1>2
    <3> QED
      BY <1>2, <3>1
  <2> QED
    BY <1>1, <1>2, <2>1 DEF RowsInv, RowTypes
<1>4. \A e \in Known : Machine(e)' = Machine(e)
  BY <1>2 DEF Machine
<1>5. ASSUME NEW o \in Calls \ {c}, NEW m, m = call[o] PROVE CallOK(m)'
  <2>1. CallOK(m) /\ PlaceOK(m)
    BY <1>5 DEF RowsInv, CallsOK
  <2>2. m.op \notin Namers
    BY <1>5, ActsShape DEF Apart, Namers
  <2>3. RidsOK(m)'
    BY <1>1, <2>1 DEF CallOK, RidsOK
  <2>4. LinkerOK(m)'
    BY <1>1, <1>2, <1>4, <2>1 DEF CallOK, LinkerOK
  <2>5. NamerOK(m)'
    BY <2>1, <2>2 DEF PlaceOK, InPlace, NamerOK, Namers
  <2>6. RemoverOK(m)'
    BY <1>1, <1>2, <1>4, <2>1 DEF CallOK, RemoverOK, LinksOf, RowsToDrop
  <2>7. TakerOK(m)'
    BY <1>1, <1>2, <1>4, <2>1 DEF CallOK, TakerOK, LinksOf, ByHand, NoDeskHas
  <2> QED
    BY <2>3, <2>4, <2>5, <2>6, <2>7 DEF CallOK
<1>6. CallsOK'
  BY <1>5, OthersAsWere
<1>7. LinksOK'
  BY <1>1, <1>2, <1>4, DropsStay DEF RowsInv, LinksOK
<1>8. VocabularyOK'
  BY <1>1, <1>2, <1>4, VacatesStay DEF RowsInv, VocabularyOK
<1>9. NamesOK'
  <2> SUFFICES ASSUME NEW d \in desks, NEW m \in Names, NEW a \in findHumanInDesk(m, d)', NEW b \in findHumanInDesk(m, d)'
               PROVE  a = b
    BY <1>1 DEF NamesOK
  <2>1. /\ a \in Known /\ ~Machine(a) /\ <<a, d>> \in vocabulary /\ entities'[a].name = m
        /\ b \in Known /\ ~Machine(b) /\ <<b, d>> \in vocabulary /\ entities'[b].name = m
    BY <1>1, <1>2, <1>4 DEF findHumanInDesk
  <2>2. ASSUME NEW e \in Known, e # x, ~Machine(e), <<e, d>> \in vocabulary, entities'[e].name = m,
               x \in Known, <<x, d>> \in vocabulary, entities'[x].name = m
        PROVE  FALSE
    <3>1. d \in DesksOf(x) /\ m = n
      BY <1>2, <2>2 DEF DesksOf
    <3>2. Free(m, d) /\ e \in findHumanInDesk(m, d)
      BY <1>2, <2>2, <3>1 DEF findHumanInDesk
    <3> QED
      BY <3>2 DEF Free
  <2>3. CASE a # x /\ b # x
    <3>1. a \in findHumanInDesk(m, d) /\ b \in findHumanInDesk(m, d)
      BY <1>2, <2>1, <2>3 DEF findHumanInDesk
    <3> QED
      BY <3>1 DEF RowsInv, NamesOK
  <2> QED
    BY <2>1, <2>2, <2>3
<1> QED
  BY <1>3, <1>6, <1>7, <1>8, <1>9, ActsShape DEF RowsInv

\* A tag goes: a machine tag nothing has, or one made by hand that no link
\* and no desk has.
LEMMA TagGoes ==
  ASSUME RowsInv, NoneBreak, NEW c \in Calls, NEW op \in Removers, NEW k, Acts(c, op, k), HandsOver(c, k), CallOK(k)',
         SyncTypes', UNCHANGED <<lastEntity, links, vocabulary, types, desks, files>>,
         NEW x, entities' = Without(x), x \in Known => LinksOf(x) = {},
         x \in Known /\ ~Machine(x) => op \in Takers /\ NoDeskHas(x)
  PROVE  RowsInv'
<1>1. /\ lastEntity' = lastEntity /\ links' = links /\ vocabulary' = vocabulary
      /\ desks' = desks /\ files' = files /\ types' = types
  OBVIOUS
<1>2. Known' = Known \ {x} /\ \A e \in Known \ {x} : entities'[e] = entities[e]
  BY DEF Without, Known
<1>3. RowTypes'
  <2>1. entities' \in [Known' -> Entity]
    <3>1. entities' = [e \in Known' |-> entities[e]]
      BY <1>2 DEF Without
    <3>2. \A e \in Known' : entities[e] \in Entity
      BY <1>2 DEF RowsInv, RowTypes
    <3> QED
      BY <3>1, <3>2
  <2> QED
    BY <1>1, <1>2, <2>1 DEF RowsInv, RowTypes
<1>4. \A e \in Known' : Machine(e)' = Machine(e)
  BY <1>2 DEF Machine
<1>5. \A n, d : findHumanInDesk(n, d)' \subseteq findHumanInDesk(n, d)
  BY <1>1, <1>2, <1>4 DEF findHumanInDesk
<1>6. ASSUME NEW o \in Calls \ {c}, NEW m, m = call[o] PROVE CallOK(m)'
  <2>1. CallOK(m) /\ PlaceOK(m)
    BY <1>6 DEF RowsInv, CallsOK
  <2>2. m.op \notin Linkers /\ (x \in Known /\ ~Machine(x) => m.op \notin Attachers)
    BY <1>6, ActsShape DEF Apart
  <2>3. RidsOK(m)'
    BY <1>1, <2>1 DEF CallOK, RidsOK
  <2>4. LinkerOK(m)'
    BY <1>1, <2>1, <2>2 DEF CallOK, LinkerOK, PlaceOK, InPlace, Linkers
  <2>5. NamerOK(m)'
    <3>1. m.at = "attaching" \/ m.op = "import" => m.op \in Attachers
      BY <2>1 DEF PlaceOK, InPlace, Attachers, Namers
    <3>2. \A e : ByHand(e) => ByHand(e)'
      BY <1>2, <1>4 DEF ByHand
    <3>3. \A e \in Known : ~Machine(e) /\ m.op \in Attachers => e \in Known' /\ ~Machine(e)' /\ entities'[e] = entities[e]
      BY <1>2, <1>4, <2>2
    <3>4. m.at = "creating" => m.d \in desks' /\ m.n \in Names /\ Free(m.n, m.d)'
      BY <1>1, <1>5, <2>1 DEF CallOK, NamerOK, Free
    <3>5. m.at = "attaching" => m.d \in desks' /\ m.e \in Known' /\ ~Machine(m.e)' /\ Free(entities[m.e].name, m.d)'
      BY <1>1, <1>5, <2>1, <3>1, <3>3 DEF CallOK, NamerOK, Free
    <3>6. m.op = "import" => m.d \in desks' /\ \A e \in m.todo : e \in Known' /\ ~Machine(e)'
      BY <1>1, <2>1, <3>1, <3>3 DEF CallOK, NamerOK
    <3>7. m.at = "renaming" => m.n \in Names /\ ByHand(m.e)' /\ (\A d \in DesksOf(m.e) : Free(m.n, d))'
      BY <1>1, <1>5, <2>1, <3>2 DEF CallOK, NamerOK, Free, DesksOf
    <3>8. m.at = "attaching" => entities'[m.e] = entities[m.e]
      BY <2>1, <3>1, <3>3 DEF CallOK, NamerOK
    <3> QED
      BY <3>4, <3>5, <3>6, <3>7, <3>8 DEF NamerOK, Free
  <2>6. RemoverOK(m)'
    BY <1>1, <1>2, <1>4, <2>1 DEF CallOK, RemoverOK, LinksOf, RowsToDrop
  <2>7. TakerOK(m)'
    BY <1>1, <1>2, <1>4, <2>1 DEF CallOK, TakerOK, LinksOf, ByHand, NoDeskHas
  <2> QED
    BY <2>3, <2>4, <2>5, <2>6, <2>7 DEF CallOK
<1>7. CallsOK'
  BY <1>6, OthersAsWere
<1>8. LinksOK'
  <2>1. \A l \in links : l.e \in Known /\ l.e # x
    BY DEF RowsInv, LinksOK, LinksOf
  <2> QED
    BY <1>1, <1>2, <1>4, <2>1, DropsStay DEF RowsInv, LinksOK
<1>9. VocabularyOK'
  <2>1. \A v \in vocabulary : v[1] \in Known /\ v[1] # x
    BY DEF RowsInv, VocabularyOK, NoDeskHas
  <2> QED
    BY <1>1, <1>2, <1>4, <2>1, VacatesStay DEF RowsInv, VocabularyOK
<1>10. NamesOK'
  BY <1>1, <1>5 DEF RowsInv, NamesOK
<1> QED
  BY <1>3, <1>7, <1>8, <1>9, <1>10, ActsShape DEF RowsInv

\* A link comes, to a tag and a file that are there, on a desk of the tag.
LEMMA LinkComes ==
  ASSUME RowsInv, NoneBreak, NEW c \in Calls, NEW op \in Linkers, NEW k, Acts(c, op, k), HandsOver(c, k), CallOK(k)',
         SyncTypes', UNCHANGED <<nameVars, vocabulary, types, desks, files>>,
         NEW r \in TagLink, links' = links \cup {r}, r.e \in Known, r.f \in files, r.desk = DeskOf[r.f],
         Machine(r.e) \/ <<r.e, r.desk>> \in vocabulary
  PROVE  RowsInv'
<1>1. /\ entities' = entities /\ lastEntity' = lastEntity /\ vocabulary' = vocabulary
      /\ desks' = desks /\ files' = files /\ types' = types
  BY DEF nameVars
<1>2. RowTypes'
  BY <1>1 DEF RowsInv, RowTypes, Known
<1>3. ASSUME NEW o \in Calls \ {c}, NEW m, m = call[o] PROVE CallOK(m)'
  <2>1. CallOK(m) /\ PlaceOK(m)
    BY <1>3 DEF RowsInv, CallsOK
  <2>2. m.op \notin Removers
    BY <1>3, ActsShape DEF Apart
  <2>3. RidsOK(m)'
    BY <1>1, <2>1 DEF CallOK, RidsOK
  <2>4. LinkerOK(m)'
    BY <1>1, <2>1 DEF CallOK, LinkerOK, Known, Machine
  <2>5. NamerOK(m)'
    BY <1>1, <2>1 DEF CallOK, NamerOK, Known, Machine, Free, findHumanInDesk, ByHand, DesksOf
  <2>6. RemoverOK(m)' /\ TakerOK(m)'
    BY <2>1, <2>2 DEF RemoverOK, TakerOK, PlaceOK, InPlace, Removers
  <2> QED
    BY <2>3, <2>4, <2>5, <2>6 DEF CallOK
<1>4. CallsOK'
  BY <1>3, OthersAsWere
<1>5. LinksOK'
  <2> SUFFICES ASSUME NEW l \in links'
               PROVE  /\ l.e \in Known' /\ l.desk = DeskOf[l.f]
                      /\ l.f \in files' \/ (\E o \in Calls : At(o, "dropping") /\ l \in RowsToDrop(call[o]))'
                      /\ Machine(l.e)' \/ <<l.e, l.desk>> \in vocabulary'
    BY DEF LinksOK
  <2>1. CASE l = r
    BY <1>1, <2>1 DEF Known, Machine
  <2>2. CASE l \in links
    BY <1>1, <2>2, DropsStay DEF RowsInv, LinksOK, Known, Machine
  <2> QED
    BY <2>1, <2>2
<1>6. VocabularyOK'
  BY <1>1, VacatesStay DEF RowsInv, VocabularyOK, Known, Machine
<1>7. NamesOK'
  BY <1>1 DEF RowsInv, NamesOK, findHumanInDesk, Known, Machine
<1> QED
  BY <1>2, <1>4, <1>5, <1>6, <1>7, ActsShape DEF RowsInv

\* Links go.
LEMMA LinksGo ==
  ASSUME RowsInv, NoneBreak, NEW c \in Calls, NEW op, NEW k, Acts(c, op, k), HandsOver(c, k), CallOK(k)',
         SyncTypes', UNCHANGED <<nameVars, vocabulary, types, desks, files>>, links' \subseteq links
  PROVE  RowsInv'
<1>1. /\ entities' = entities /\ lastEntity' = lastEntity /\ vocabulary' = vocabulary
      /\ desks' = desks /\ files' = files /\ types' = types
  BY DEF nameVars
<1>2. RowTypes'
  BY <1>1 DEF RowsInv, RowTypes, Known
<1>3. ASSUME NEW o \in Calls \ {c}, NEW m, m = call[o] PROVE CallOK(m)'
  <2>1. CallOK(m) /\ PlaceOK(m)
    BY <1>3 DEF RowsInv, CallsOK
  <2>2. RidsOK(m)'
    BY <1>1, <2>1 DEF CallOK, RidsOK
  <2>3. LinkerOK(m)'
    BY <1>1, <2>1 DEF CallOK, LinkerOK, Known, Machine
  <2>4. NamerOK(m)'
    BY <1>1, <2>1 DEF CallOK, NamerOK, Known, Machine, Free, findHumanInDesk, ByHand, DesksOf
  <2>5. RemoverOK(m)'
    <3>1. m.at = "dropping" => m.op \in {"removeRun", "deleteFile", "deleteDesk"}
      BY <2>1 DEF PlaceOK, InPlace
    <3>2. m.at = "dropping" => \A l \in RowsToDrop(m)' : l \in RowsToDrop(m)
      BY <3>1 DEF RowsToDrop
    <3> QED
      BY <1>1, <2>1, <3>2 DEF CallOK, RemoverOK, Known, Machine, LinksOf
  <2>6. TakerOK(m)'
    BY <1>1, <2>1 DEF CallOK, TakerOK, Known, Machine, LinksOf, ByHand, NoDeskHas
  <2> QED
    BY <2>2, <2>3, <2>4, <2>5, <2>6 DEF CallOK
<1>4. CallsOK'
  BY <1>3, OthersAsWere
<1>5. LinksOK'
  BY <1>1, DropsStay DEF RowsInv, LinksOK, Known, Machine
<1>6. VocabularyOK'
  BY <1>1, VacatesStay DEF RowsInv, VocabularyOK, Known, Machine
<1>7. NamesOK'
  BY <1>1 DEF RowsInv, NamesOK, findHumanInDesk, Known, Machine
<1> QED
  BY <1>2, <1>4, <1>5, <1>6, <1>7, ActsShape DEF RowsInv

\* A desk gets a tag made by hand whose name is free there.
LEMMA RowComes ==
  ASSUME RowsInv, NoneBreak, NEW c \in Calls, NEW op \in Attachers, NEW k, Acts(c, op, k), HandsOver(c, k), CallOK(k)',
         SyncTypes', UNCHANGED <<nameVars, links, types, desks, files>>,
         NEW x \in Known, NEW d \in desks, vocabulary' = vocabulary \cup {<<x, d>>},
         ~Machine(x), Free(entities[x].name, d)
  PROVE  RowsInv'
<1>1. /\ entities' = entities /\ lastEntity' = lastEntity /\ links' = links
      /\ desks' = desks /\ files' = files /\ types' = types
  BY DEF nameVars
<1>2. RowTypes'
  <2>1. <<x, d>> \in EntityRids \X Desks
    BY TagsConstants DEF RowsInv, RowTypes, EntityRids
  <2> QED
    BY <1>1, <2>1 DEF RowsInv, RowTypes, Known
<1>3. ASSUME NEW o \in Calls \ {c}, NEW m, m = call[o] PROVE CallOK(m)'
  <2>1. CallOK(m) /\ PlaceOK(m)
    BY <1>3 DEF RowsInv, CallsOK
  <2>2. m.op \notin Namers /\ m.op \notin Takers
    BY <1>3, ActsShape DEF Apart, Attachers
  <2>3. RidsOK(m)'
    BY <1>1, <2>1 DEF CallOK, RidsOK
  <2>4. LinkerOK(m)'
    BY <1>1, <2>1 DEF CallOK, LinkerOK, Known, Machine
  <2>5. NamerOK(m)' /\ TakerOK(m)'
    BY <2>1, <2>2 DEF NamerOK, TakerOK, PlaceOK, InPlace, Namers, Takers
  <2>6. RemoverOK(m)'
    BY <1>1, <2>1 DEF CallOK, RemoverOK, Known, Machine, LinksOf, RowsToDrop
  <2> QED
    BY <2>3, <2>4, <2>5, <2>6 DEF CallOK
<1>4. CallsOK'
  BY <1>3, OthersAsWere
<1>5. LinksOK'
  BY <1>1, DropsStay DEF RowsInv, LinksOK, Known, Machine
<1>6. VocabularyOK'
  <2> SUFFICES ASSUME NEW v \in vocabulary'
               PROVE  v[1] \in Known' /\ ~Machine(v[1])' /\ (v[2] \in desks' \/ Vacates(v[2])')
    BY <1>1 DEF RowsInv, VocabularyOK
  <2>1. CASE v = <<x, d>>
    BY <1>1, <2>1 DEF Known, Machine
  <2>2. CASE v \in vocabulary
    BY <1>1, <2>2, VacatesStay DEF RowsInv, VocabularyOK, Known, Machine
  <2> QED
    BY <2>1, <2>2
<1>7. NamesOK'
  <2> SUFFICES ASSUME NEW b \in desks, NEW n \in Names, NEW y \in findHumanInDesk(n, b)', NEW z \in findHumanInDesk(n, b)'
               PROVE  y = z
    BY <1>1 DEF NamesOK
  <2>1. /\ y \in findHumanInDesk(n, b) \/ (y = x /\ b = d /\ n = entities[x].name)
        /\ z \in findHumanInDesk(n, b) \/ (z = x /\ b = d /\ n = entities[x].name)
    BY <1>1 DEF findHumanInDesk, Known, Machine
  <2> QED
    BY <2>1 DEF Free, RowsInv, NamesOK
<1> QED
  BY <1>2, <1>4, <1>5, <1>6, <1>7, ActsShape DEF RowsInv

\* Desks lose tags that no link of theirs has.
LEMMA RowsGo ==
  ASSUME RowsInv, NoneBreak, NEW c \in Calls, NEW op \in Takers, NEW k, Acts(c, op, k), HandsOver(c, k), CallOK(k)',
         SyncTypes', UNCHANGED <<nameVars, links, types, desks, files>>, vocabulary' \subseteq vocabulary,
         \A l \in links : Machine(l.e) \/ <<l.e, l.desk>> \in vocabulary'
  PROVE  RowsInv'
<1>1. /\ entities' = entities /\ lastEntity' = lastEntity /\ links' = links
      /\ desks' = desks /\ files' = files /\ types' = types
  BY DEF nameVars
<1>2. RowTypes'
  BY <1>1 DEF RowsInv, RowTypes, Known
<1>3. ASSUME NEW o \in Calls \ {c}, NEW m, m = call[o] PROVE CallOK(m)'
  <2>1. CallOK(m) /\ PlaceOK(m)
    BY <1>3 DEF RowsInv, CallsOK
  <2>2. m.op \notin Linkers /\ m.op \notin Attachers
    BY <1>3, ActsShape DEF Apart, Takers, Removers
  <2>3. RidsOK(m)'
    BY <1>1, <2>1 DEF CallOK, RidsOK
  <2>4. LinkerOK(m)'
    BY <1>1, <2>1, <2>2 DEF CallOK, LinkerOK, PlaceOK, InPlace, Linkers
  <2>5. NamerOK(m)'
    BY <1>1, <2>1, <2>2 DEF CallOK, NamerOK, PlaceOK, InPlace, Attachers, Namers, Known, Machine, Free, findHumanInDesk, ByHand, DesksOf
  <2>6. RemoverOK(m)'
    BY <1>1, <2>1 DEF CallOK, RemoverOK, Known, Machine, LinksOf, RowsToDrop
  <2>7. TakerOK(m)'
    BY <1>1, <2>1 DEF CallOK, TakerOK, Known, Machine, LinksOf, ByHand, NoDeskHas
  <2> QED
    BY <2>3, <2>4, <2>5, <2>6, <2>7 DEF CallOK
<1>4. CallsOK'
  BY <1>3, OthersAsWere
<1>5. LinksOK'
  BY <1>1, DropsStay DEF RowsInv, LinksOK, Known, Machine
<1>6. VocabularyOK'
  BY <1>1, VacatesStay DEF RowsInv, VocabularyOK, Known, Machine
<1>7. NamesOK'
  BY <1>1 DEF RowsInv, NamesOK, findHumanInDesk, Known, Machine
<1> QED
  BY <1>2, <1>4, <1>5, <1>6, <1>7, ActsShape DEF RowsInv

\* A file goes, or a desk with its files, and the call will take their rows.
LEMMA FilesGo ==
  ASSUME RowsInv, NoneBreak, NEW c \in Calls, NEW op \in {"deleteFile", "deleteDesk"}, NEW k, Acts(c, op, k),
         call[c].at = "idle", k.op = op, k.at = "dropping", CallOK(k)',
         SyncTypes', UNCHANGED <<nameVars, links, vocabulary, types>>,
         \/ op = "deleteFile" /\ desks' = desks /\ files' = files \ {k.f}
         \/ op = "deleteDesk" /\ desks' = desks \ {k.d} /\ files' = files \ FilesOf(k.d)
  PROVE  RowsInv'
<1>1. /\ entities' = entities /\ lastEntity' = lastEntity /\ vocabulary' = vocabulary /\ links' = links
      /\ types' = types /\ desks' \subseteq desks /\ files' \subseteq files
  BY DEF nameVars
<1>2. RowTypes'
  BY <1>1 DEF RowsInv, RowTypes, Known
<1>3. HandsOver(c, k)
  <2>1. call[c].op = "none"
    BY DEF RowsInv, PlaceOK, InPlace
  <2> QED
    BY <2>1 DEF HandsOver, At
<1>4. ASSUME NEW o \in Calls \ {c}, NEW m, m = call[o] PROVE CallOK(m)'
  <2>1. CallOK(m) /\ PlaceOK(m)
    BY <1>4 DEF RowsInv, CallsOK
  <2>2. m.op \notin Linkers /\ (op = "deleteDesk" => m.op \notin Attachers)
    BY <1>4, ActsShape DEF Apart, Removers, Takers
  <2>3. RidsOK(m)'
    BY <1>1, <2>1 DEF CallOK, RidsOK
  <2>4. LinkerOK(m)'
    BY <1>1, <2>1, <2>2 DEF CallOK, LinkerOK, PlaceOK, InPlace, Linkers
  <2>5. NamerOK(m)'
    BY <1>1, <2>1, <2>2 DEF CallOK, NamerOK, PlaceOK, InPlace, Attachers, Namers, Known, Machine, Free, findHumanInDesk, ByHand, DesksOf
  <2>6. RemoverOK(m)'
    BY <1>1, <2>1 DEF CallOK, RemoverOK, Known, Machine, LinksOf, RowsToDrop
  <2>7. TakerOK(m)'
    BY <1>1, <2>1 DEF CallOK, TakerOK, Known, Machine, LinksOf, ByHand, NoDeskHas
  <2> QED
    BY <2>3, <2>4, <2>5, <2>6, <2>7 DEF CallOK
<1>5. CallsOK'
  BY <1>4, OthersAsWere
<1>6. LinksOK'
  <2> SUFFICES ASSUME NEW l \in links'
               PROVE  l.f \in files' \/ (\E o \in Calls : At(o, "dropping") /\ l \in RowsToDrop(call[o]))'
    BY <1>1 DEF RowsInv, LinksOK, Known, Machine
  <2>1. CASE l.f \in files'
    BY <2>1
  <2>2. CASE l.f \in files /\ l.f \notin files'
    <3>1. l \in RowsToDrop(k)'
      BY <1>1, <2>2 DEF RowsToDrop, FilesOf
    <3> QED
      BY <3>1, ActsShape DEF At
  <2>3. CASE l.f \notin files
    BY <1>1, <1>3, <2>3, DropsStay DEF RowsInv, LinksOK
  <2> QED
    BY <2>1, <2>2, <2>3
<1>7. VocabularyOK'
  <2>1. \A f \in files' : DeskOf[f] \in desks'
    BY <1>1 DEF RowsInv, RowTypes, VocabularyOK, FilesOf
  <2>2. ASSUME NEW v \in vocabulary PROVE v[2] \in desks' \/ Vacates(v[2])'
    <3>1. CASE v[2] \in desks /\ v[2] \notin desks'
      BY <3>1, ActsShape DEF Vacates
    <3>2. CASE v[2] \in desks'
      BY <3>2
    <3>3. CASE v[2] \notin desks
      BY <1>1, <1>3, <3>3, VacatesStay DEF RowsInv, VocabularyOK
    <3> QED
      BY <3>1, <3>2, <3>3
  <2> QED
    BY <1>1, <2>1, <2>2 DEF RowsInv, VocabularyOK, Known, Machine
<1>8. NamesOK'
  BY <1>1 DEF RowsInv, NamesOK, findHumanInDesk, Known, Machine
<1> QED
  BY <1>2, <1>5, <1>6, <1>7, <1>8, ActsShape DEF RowsInv

-----------------------------------------------------------------------------
(* Steps by what they do to the tags in use and to the index.              *)

\* Call c goes to k, the others stay.
Goes(c, k) ==
  /\ call \in [Calls -> TagCall] /\ call' \in [Calls -> TagCall]
  /\ call'[c] = k /\ \A o \in Calls \ {c} : call'[o] = call[o]

LEMMA ActsGoes ==
  ASSUME RowsInv, NoneBreak, NEW c \in Calls, NEW op, NEW k, Acts(c, op, k)
  PROVE  Goes(c, k)
BY ActsShape DEF Goes, RowsInv

\* A machine tag that loses its last link, or that c looked at, is looked at by c.
LEMMA UsedFollows ==
  ASSUME UsedInv, NEW c \in Calls, NEW k, Goes(c, k),
         \A e \in Known' : Machine(e)' => e \in Known /\ Machine(e),
         \A e \in Known' : Machine(e)' /\ LinksOf(e)' = {} /\ (LinksOf(e) # {} \/ LooksAt(call[c], e)) => LooksAt(k, e)
  PROVE  UsedInv'
<1> SUFFICES ASSUME NEW e \in Known', Machine(e)', LinksOf(e)' = {}
             PROVE  \E o \in Calls : LooksAt(call'[o], e)
  BY DEF UsedInv, LooksAt
<1>1. call'[c] = k /\ \A o \in Calls \ {c} : call'[o] = call[o]
  BY DEF Goes
<1>2. CASE LinksOf(e) # {} \/ LooksAt(call[c], e)
  <2>1. LooksAt(k, e)
    BY <1>2
  <2> QED
    BY <1>1, <2>1
<1>3. CASE LinksOf(e) = {} /\ ~LooksAt(call[c], e)
  <2>1. PICK o \in Calls : LooksAt(call[o], e)
    BY <1>3 DEF UsedInv
  <2>2. o # c
    BY <1>3, <2>1
  <2>3. call'[o] = call[o]
    BY <1>1, <2>2
  <2> QED
    BY <2>1, <2>3
<1> QED
  BY <1>2, <1>3

LEMMA MachinesFinite ==
  ASSUME RowsInv, NEW n
  PROVE  /\ IsFiniteSet(Machines(n)) /\ Cardinality(Machines(n)) \in Nat
         /\ IsFiniteSet(Making(n)) /\ Cardinality(Making(n)) \in Nat
         /\ IsFiniteSet(Desks) /\ Cardinality(Desks) \in Nat
<1>1. IsFiniteSet(1..lastEntity)
  <2>1. lastEntity \in Int
    BY TagsConstants DEF RowsInv, RowTypes
  <2>2. 1 \in Int
    OBVIOUS
  <2> QED
    BY <2>1, <2>2, FS_Interval
<1>2. Machines(n) \in SUBSET (1..lastEntity)
  BY DEF RowsInv, RowTypes, Machines
<1>3. IsFiniteSet(Machines(n))
  BY <1>1, <1>2, FS_Subset
<1>4. Making(n) \in SUBSET Desks
  BY DEF Making
<1>5. IsFiniteSet(Desks)
  BY TagsConstants
<1>6. IsFiniteSet(Making(n))
  BY <1>4, <1>5, FS_Subset
<1> QED
  BY <1>3, <1>5, <1>6, FS_CardinalityType

\* No machine tag is made.
LEMMA MachinesFollow ==
  ASSUME RowsInv, MachineInv, NEW c \in Calls, NEW k, Goes(c, k), creating' = creating,
         call[c].at \notin {"finding", "making"}, k.at \notin {"finding", "making"},
         \A e \in Known' : Machine(e)' => e \in Known /\ Machine(e) /\ entities'[e].name = entities[e].name
  PROVE  MachineInv'
<1>1. /\ call'[c] = k /\ \A o \in Calls \ {c} : call'[o] = call[o]
  BY DEF Goes
<1>2. Finders' = Finders /\ \A o \in Finders : call'[o] = call[o]
  BY <1>1 DEF Finders
<1>3. (\A o \in Finders : <<call[o].d, call[o].n>> \in creating)'
  BY <1>2 DEF MachineInv
<1>4. (\A a, o \in Finders : call[a].d = call[o].d /\ call[a].n = call[o].n => a = o)'
  BY <1>2 DEF MachineInv
<1>5. ASSUME NEW n \in Names
      PROVE  (Cardinality(Machines(n)) + Cardinality(Making(n)) <= Cardinality(Desks))'
  <2>1. Making(n)' = Making(n)
    BY <1>1 DEF Making, At
  <2>2. Machines(n)' \in SUBSET Machines(n)
    BY DEF Machines
  <2>3. Cardinality(Machines(n)') <= Cardinality(Machines(n)) /\ Cardinality(Machines(n)') \in Nat
    BY <2>2, MachinesFinite, FS_Subset, FS_CardinalityType
  <2>4. Cardinality(Machines(n)) + Cardinality(Making(n)) <= Cardinality(Desks)
    BY DEF MachineInv
  <2>5. (Cardinality(Machines(n)) + Cardinality(Making(n)) <= Cardinality(Desks))' <=>
          Cardinality(Machines(n)') + Cardinality(Making(n)) <= Cardinality(Desks)
    BY <2>1
  <2> QED
    BY <2>3, <2>4, <2>5, MachinesFinite
<1> QED
  BY <1>3, <1>4, <1>5 DEF MachineInv

\* The lists of the others stay right: no link is added while one is at work.
LEMMA ListsFollow ==
  ASSUME RowsInv, NoneBreak, IndexInv, NEW c \in Calls, NEW op, NEW k, Acts(c, op, k), files' \subseteq files,
         links' \subseteq links \/ op \in Linkers, FilesOK(k)'
  PROVE  (\A o \in Calls : FilesOK(call[o]))'
<1> SUFFICES ASSUME NEW o \in Calls PROVE FilesOK(call[o])'
  OBVIOUS
<1>1. PICK m : m = call[o]
  OBVIOUS
<1>2. CASE o = c
  <2>1. call'[o] = k
    BY <1>2, ActsShape
  <2> QED
    BY <2>1
<1>3. CASE o # c
  <2>1. call'[o] = m /\ FilesOK(m) /\ PlaceOK(m) /\ (op \in Linkers => m.op \notin Removers)
    BY <1>1, <1>3, ActsShape DEF IndexInv, RowsInv, Apart
  <2>2. CASE links' \subseteq links
    <3>1. \A e, ds : linkedFiles(e, ds)' \subseteq linkedFiles(e, ds)
      BY <2>2 DEF linkedFiles, LinksOf
    <3>2. FilesOK(m)'
      BY <2>1, <3>1 DEF FilesOK
    <3> QED
      BY <2>1, <3>2
  <2>3. CASE op \in Linkers
    <3>1. m.at # "deskLinks" /\ m.op # "deleteEverywhere"
      BY <2>1, <2>3 DEF PlaceOK, InPlace, Removers
    <3>2. FilesOK(m)'
      BY <2>1, <3>1 DEF FilesOK
    <3> QED
      BY <2>1, <3>2
  <2> QED
    BY <2>2, <2>3
<1> QED
  BY <1>2, <1>3

\* Nothing is read or sent; a file whose fields change will be read by c, and
\* so will those that c was to read.
LEMMA IndexFollows ==
  ASSUME RowsInv, NoneBreak, IndexInv, NEW c \in Calls, NEW op, NEW k, Acts(c, op, k), files' \subseteq files,
         links' \subseteq links \/ op \in Linkers, FilesOK(k)', index' = index, crossed' = crossed,
         call[c].at # "sending", k.at # "sending",
         \A f \in files' : WillRead(k, f) \/ (FieldsOf(f)' = FieldsOf(f) /\ ~WillRead(call[c], f))
  PROVE  IndexInv'
<1>1. /\ call'[c] = k /\ \A o \in Calls \ {c} : call'[o] = call[o]
  BY ActsShape
<1>2. (\A o \in Calls : FilesOK(call[o]))'
  BY ListsFollow
<1>3. \A o \in Calls : \A f : Sends(o, f)' <=> Sends(o, f)
  BY <1>1 DEF Sends, At
<1>4. ASSUME NEW f \in files', f \notin crossed
      PROVE  /\ \A a, o \in Calls : Sends(a, f)' /\ Sends(o, f)' => a = o
             /\ \/ \E o \in Calls : WillRead(call'[o], f)
                \/ \E o \in Calls : Sends(o, f)' /\ call'[o].fields = FieldsOf(f)'
                \/ index[f] = FieldsOf(f)' /\ \A o \in Calls : ~Sends(o, f)'
  <2>1. /\ \A a, o \in Calls : Sends(a, f) /\ Sends(o, f) => a = o
        /\ \/ \E o \in Calls : WillRead(call[o], f)
           \/ \E o \in Calls : Sends(o, f) /\ call[o].fields = FieldsOf(f)
           \/ index[f] = FieldsOf(f) /\ \A o \in Calls : ~Sends(o, f)
    BY <1>4 DEF IndexInv
  <2>2. CASE WillRead(k, f)
    BY <1>1, <1>3, <2>1, <2>2
  <2>3. CASE FieldsOf(f)' = FieldsOf(f) /\ ~WillRead(call[c], f)
    <3>1. CASE \E o \in Calls : WillRead(call[o], f)
      <4>1. PICK o \in Calls : WillRead(call[o], f)
        BY <3>1
      <4>2. call'[o] = call[o]
        BY <1>1, <2>3, <4>1
      <4>3. WillRead(call'[o], f)
        BY <4>1, <4>2
      <4> QED
        BY <1>3, <2>1, <4>3
    <3>2. CASE \E o \in Calls : Sends(o, f) /\ call[o].fields = FieldsOf(f)
      <4>1. PICK o \in Calls : Sends(o, f) /\ call[o].fields = FieldsOf(f)
        BY <3>2
      <4>2. call'[o] = call[o]
        BY <1>1, <4>1 DEF Sends, At
      <4> QED
        BY <1>3, <2>1, <2>3, <4>1, <4>2
    <3>3. CASE index[f] = FieldsOf(f) /\ \A o \in Calls : ~Sends(o, f)
      BY <1>3, <2>1, <2>3, <3>3
    <3> QED
      BY <2>1, <3>1, <3>2, <3>3
  <2> QED
    BY <2>2, <2>3
<1>5. (\A f \in files \ crossed :
         /\ \A a, o \in Calls : Sends(a, f) /\ Sends(o, f) => a = o
         /\ \/ \E o \in Calls : WillRead(call[o], f)
            \/ \E o \in Calls : Sends(o, f) /\ call[o].fields = FieldsOf(f)
            \/ index[f] = FieldsOf(f) /\ \A o \in Calls : ~Sends(o, f))'
  BY <1>4 DEF WillRead
<1> QED
  BY <1>2, <1>5 DEF IndexInv

LEMMA SyncFollows ==
  ASSUME RowsInv, SyncInv, NoneBreak, NEW c \in Calls, NEW op, NEW k, Acts(c, op, k), UNCHANGED syncVars,
         files' \subseteq files, links' \subseteq links \/ op \in Linkers, FilesOK(k)',
         call[c].at \notin {"finding", "making", "sending"}, k.at \notin {"finding", "making", "sending"},
         \A e \in Known' : Machine(e)' => e \in Known /\ Machine(e) /\ entities'[e].name = entities[e].name,
         \A e \in Known' : Machine(e)' /\ LinksOf(e)' = {} /\ (LinksOf(e) # {} \/ LooksAt(call[c], e)) => LooksAt(k, e),
         \A f \in files' : WillRead(k, f) \/ (FieldsOf(f)' = FieldsOf(f) /\ ~WillRead(call[c], f))
  PROVE  SyncInv'
<1>1. Goes(c, k)
  BY ActsGoes
<1>2. index' = index /\ crossed' = crossed /\ creating' = creating
  BY DEF syncVars
<1>3. UsedInv /\ MachineInv /\ IndexInv
  BY DEF SyncInv
<1>4. UsedInv'
  BY <1>1, <1>3, UsedFollows
<1>5. MachineInv'
  BY <1>1, <1>2, <1>3, MachinesFollow
<1>6. IndexInv'
  BY <1>2, <1>3, IndexFollows
<1> QED
  BY <1>4, <1>5, <1>6 DEF SyncInv

\* The tags, links and fields when no row of them changes.
LEMMA FieldsSame ==
  ASSUME entities' = entities, links' = links
  PROVE  /\ Known' = Known /\ (\A e \in Known : Machine(e)' = Machine(e)) /\ (\A e : LinksOf(e)' = LinksOf(e))
         /\ \A f : FieldsOf(f)' = FieldsOf(f)
BY DEF Known, Machine, LinksOf, FieldsOf

\* The fields of a file are a matter of its rows, and of the its of them.
LEMMA FieldsFrom ==
  ASSUME NEW f,
         {l \in links' : l.f = f /\ ~l.region} = {l \in links : l.f = f /\ ~l.region},
         \A l \in links : l.f = f /\ ~l.region => (l.e \in Known' <=> l.e \in Known),
         \A l \in links : l.f = f /\ ~l.region /\ l.e \in Known => entities'[l.e].name = entities[l.e].name
  PROVE  FieldsOf(f)' = FieldsOf(f)
<1>1. PICK ls : ls = {l \in links : l.f = f /\ ~l.region}
  OBVIOUS
<1>2. ls = {l \in links' : l.f = f /\ ~l.region}
  BY <1>1
<1>3. PICK its : its = {l.e : l \in ls} \cap Known
  OBVIOUS
<1>4. its = {l.e : l \in ls} \cap Known'
  BY <1>1, <1>3
<1>5. \A e : /\ (\E l \in LinksOf(e) : l.f = f /\ ~l.region /\ l.by = "user") <=> (\E l \in ls : l.e = e /\ l.by = "user")
             /\ (\E l \in LinksOf(e)' : l.f = f /\ ~l.region /\ l.by = "user") <=> (\E l \in ls : l.e = e /\ l.by = "user")
  BY <1>1, <1>2 DEF LinksOf
<1>6. \A e \in its : entities'[e].name = entities[e].name
  BY <1>1, <1>3
<1>7. FieldsOf(f) = {[e |-> e, name |-> entities[e].name,
                      by |-> IF \E l \in ls : l.e = e /\ l.by = "user" THEN "user" ELSE "machine"] : e \in its}
  BY <1>1, <1>3, <1>5 DEF FieldsOf
<1>8. FieldsOf(f)' = {[e |-> e, name |-> entities'[e].name,
                       by |-> IF \E l \in ls : l.e = e /\ l.by = "user" THEN "user" ELSE "machine"] : e \in its}
  BY <1>2, <1>4, <1>5 DEF FieldsOf
<1> QED
  BY <1>6, <1>7, <1>8

\* No tag or link changes.
LEMMA SyncStays ==
  ASSUME RowsInv, SyncInv, NoneBreak, NEW c \in Calls, NEW op, NEW k, Acts(c, op, k), UNCHANGED syncVars,
         UNCHANGED <<entities, links>>, files' \subseteq files, FilesOK(k)',
         call[c].at \notin {"finding", "making", "sending"}, k.at \notin {"finding", "making", "sending"},
         \A e \in Known : Machine(e) /\ LinksOf(e) = {} /\ LooksAt(call[c], e) => LooksAt(k, e),
         \A f \in files : WillRead(call[c], f) => WillRead(k, f)
  PROVE  SyncInv'
<1>1. /\ Known' = Known /\ (\A e \in Known : Machine(e)' = Machine(e)) /\ (\A e : LinksOf(e)' = LinksOf(e))
      /\ \A f : FieldsOf(f)' = FieldsOf(f)
  BY FieldsSame
<1>2. \A e \in Known' : Machine(e)' => e \in Known /\ Machine(e) /\ entities'[e].name = entities[e].name
  BY <1>1
<1>3. \A e \in Known' : Machine(e)' /\ LinksOf(e)' = {} /\ (LinksOf(e) # {} \/ LooksAt(call[c], e)) => LooksAt(k, e)
  BY <1>1
<1>4. \A f \in files' : WillRead(k, f) \/ (FieldsOf(f)' = FieldsOf(f) /\ ~WillRead(call[c], f))
  BY <1>1
<1> QED
  BY <1>2, <1>3, <1>4, SyncFollows

\* An idle call neither looks at a tag nor will read a file.
LEMMA IdleSees ==
  ASSUME RowsInv, SyncInv, NEW c \in Calls, call[c].at = "idle"
  PROVE  (\A e : ~LooksAt(call[c], e)) /\ (\A f : ~WillRead(call[c], f))
<1>1. PICK m : m = call[c]
  OBVIOUS
<1>2. m.at = "idle" /\ m.op = "none"
  BY <1>1 DEF RowsInv, PlaceOK, InPlace
<1>3. m.files = {}
  BY <1>1, <1>2 DEF SyncInv, IndexInv, FilesOK
<1> QED
  BY <1>1, <1>2, <1>3 DEF LooksAt, WillRead

-----------------------------------------------------------------------------
(* The operations, one by one.                                             *)

LEMMA NoCallOK ==
  ASSUME RowTypes
  PROVE  NoCall \in TagCall /\ PlaceOK(NoCall) /\ CallOK(NoCall)
<1>1. MaxEntities \in Nat /\ lastEntity \in Nat
  BY TagsConstants DEF RowTypes
<1>2. NoCall \in TagCall
  BY <1>1 DEF NoCall, TagCall, Ops, Places
<1>3. NoCall.op = "none" /\ NoCall.at = "idle" /\ NoCall.e = 0 /\ NoCall.todo = {} /\ NoCall.files = {}
  BY DEF NoCall
<1> QED
  BY <1>1, <1>2, <1>3 DEF CallOK, PlaceOK, InPlace, RidsOK, LinkerOK, NamerOK, RemoverOK, TakerOK, Linkers

LEMMA BeginActs ==
  ASSUME RowsInv, NEW c \in Calls, NEW op, NEW to, Begin(c, op, to),
         NEW k \in TagCall, k = [to EXCEPT !.op = op], k.op = op, PlaceOK(k)
  PROVE  Acts(c, op, k) /\ HandsOver(c, k) /\ call[c].at = "idle" /\ call[c].op = "none"
<1>1. call[c].at = "idle" /\ call[c].op = "none"
  BY DEF RowsInv, PlaceOK, InPlace, Begin
<1>2. call' = [call EXCEPT ![c] = k]
  BY DEF Begin
<1>3. \A o \in UnderWay : {op, call[o].op} \in Together
  BY DEF Begin
<1> QED
  BY <1>1, <1>2, <1>3 DEF Acts, HandsOver, At

LEMMA FilesSame ==
  ASSUME UNCHANGED <<links, files>>, NEW k
  PROVE  FilesOK(k)' <=> FilesOK(k)
BY DEF FilesOK, linkedFiles, LinksOf

\* A request that changes no row before its first statement.
LEMMA Begun ==
  ASSUME RowsInv, SyncInv, NoneBreak, NEW c \in Calls, NEW op, NEW to, Begin(c, op, to),
         NEW k \in TagCall, k = [to EXCEPT !.op = op], k.op = op, PlaceOK(k), CallOK(k), FilesOK(k),
         k.at \notin {"finding", "making", "sending"},
         UNCHANGED <<nameVars, links, vocabulary, baseVars, syncVars>>
  PROVE  RowsInv' /\ SyncInv'
<1>1. Acts(c, op, k) /\ HandsOver(c, k)
  BY BeginActs
<1>2. SyncTypes' /\ types' \subseteq Types /\ UNCHANGED <<nameVars, links, vocabulary, desks, files>>
  BY DEF RowsInv, RowTypes, SyncTypes, syncVars, baseVars
<1>3. FilesOK(k)'
  BY FilesSame DEF baseVars
<1>4. call[c].at = "idle" /\ UNCHANGED <<entities, links, files>>
  BY DEF Begin, nameVars, baseVars
<1>5. SyncInv'
  BY <1>1, <1>3, <1>4, IdleSees, SyncStays
<1> QED
  BY <1>1, <1>2, <1>5, RowsStay

LEMMA TypeRequestsKeep ==
  ASSUME RowsInv, SyncInv, NoneBreak, NEW c \in Calls, NEW t \in Types, createEntityType(c, t) \/ deleteEntityType(c, t)
  PROVE  RowsInv' /\ SyncInv'
<1>1. RowTypes /\ NoCall \in TagCall /\ CallOK(NoCall)
  BY NoCallOK DEF RowsInv
<1>2. ASSUME NEW op \in {"createType", "deleteType"}, NEW at \in {"addType", "dropType"},
             op = "createType" <=> at = "addType",
             Begin(c, op, [NoCall EXCEPT !.at = at, !.n = t])
      PROVE  \E k \in TagCall : k = [[NoCall EXCEPT !.at = at, !.n = t] EXCEPT !.op = op] /\ k.op = op /\ PlaceOK(k) /\ CallOK(k)
                            /\ FilesOK(k) /\ k.at \notin {"finding", "making", "sending"}
  <2>1. PICK k : k = [[NoCall EXCEPT !.at = at, !.n = t] EXCEPT !.op = op]
    OBVIOUS
  <2>2. k \in TagCall
    BY <1>1, <2>1 DEF TagCall, Ops, Places
  <2>3. k.op = op /\ k.at = at /\ k.e = 0 /\ k.todo = {} /\ k.n = t /\ k.files = {}
    BY <1>1, <2>1 DEF TagCall, NoCall
  <2>4. PlaceOK(k)
    BY <1>2, <2>3 DEF PlaceOK, InPlace, Linkers
  <2>5. CallOK(k)
    BY <1>1, <2>3 DEF CallOK, RidsOK, LinkerOK, NamerOK, RemoverOK, TakerOK, Linkers, RowTypes
  <2>6. FilesOK(k) /\ k.at \notin {"finding", "making", "sending"}
    BY <1>2, <2>3 DEF FilesOK
  <2> QED
    BY <2>1, <2>2, <2>3, <2>4, <2>5, <2>6
<1>3. CASE createEntityType(c, t)
  BY <1>2, <1>3, Begun DEF createEntityType
<1>4. CASE deleteEntityType(c, t)
  BY <1>2, <1>4, Begun DEF deleteEntityType
<1> QED
  BY <1>3, <1>4

LEMMA KnownRids ==
  ASSUME RowTypes
  PROVE  Known \subseteq EntityRids /\ EntityRids \subseteq 0..MaxEntities /\ 1..lastEntity \subseteq EntityRids
BY TagsConstants DEF RowTypes, EntityRids

LEMMA LinkedAreFiles ==
  ASSUME RowTypes, NEW e, NEW ds
  PROVE  linkedFiles(e, ds) \subseteq Files
BY DEF RowTypes, linkedFiles, LinksOf, TagLink

LEMMA CreateInDeskKeeps ==
  ASSUME RowsInv, SyncInv, NoneBreak, NEW c \in Calls, NEW d \in Desks, NEW n \in Names, createInDesk(c, d, n)
  PROVE  RowsInv' /\ SyncInv'
<1>1. RowTypes /\ NoCall \in TagCall
  BY NoCallOK DEF RowsInv
<1>2. PICK k : k = [[NoCall EXCEPT !.at = "creating", !.d = d, !.n = n] EXCEPT !.op = "createInDesk"]
  OBVIOUS
<1>3. k \in TagCall
  BY <1>1, <1>2 DEF TagCall, Ops, Places
<1>4. k.op = "createInDesk" /\ k.at = "creating" /\ k.d = d /\ k.n = n /\ k.e = 0 /\ k.todo = {} /\ k.files = {}
  BY <1>1, <1>2 DEF TagCall, NoCall
<1>5. PlaceOK(k)
  BY <1>1, <1>4, KnownRids DEF PlaceOK, InPlace, Linkers, EntityRids
<1>6. CallOK(k)
  BY <1>1, <1>4 DEF createInDesk, CallOK, RidsOK, LinkerOK, NamerOK, RemoverOK, TakerOK, Linkers, RowTypes, Free
<1>7. FilesOK(k) /\ k.at \notin {"finding", "making", "sending"}
  BY <1>1, <1>4 DEF FilesOK
<1> QED
  BY <1>2, <1>3, <1>4, <1>5, <1>6, <1>7, Begun DEF createInDesk

LEMMA ImportKeeps ==
  ASSUME RowsInv, SyncInv, NoneBreak, NEW c \in Calls, NEW d \in Desks, NEW rids \in SUBSET Known, importIntoDesk(c, d, rids)
  PROVE  RowsInv' /\ SyncInv'
<1>1. RowTypes /\ NoCall \in TagCall
  BY NoCallOK DEF RowsInv
<1>2. PICK k : k = [[NoCall EXCEPT !.at = "importing", !.d = d, !.todo = {e \in rids : ~Machine(e)}] EXCEPT !.op = "import"]
  OBVIOUS
<1>3. k \in TagCall
  BY <1>1, <1>2, KnownRids DEF TagCall, Ops, Places
<1>4. k.op = "import" /\ k.at = "importing" /\ k.d = d /\ k.e = 0 /\ k.todo = {e \in rids : ~Machine(e)} /\ k.files = {}
  BY <1>1, <1>2 DEF TagCall, NoCall
<1>5. PlaceOK(k)
  BY <1>1, <1>4, KnownRids DEF PlaceOK, InPlace, Linkers, EntityRids
<1>6. CallOK(k)
  BY <1>1, <1>4 DEF importIntoDesk, CallOK, RidsOK, LinkerOK, NamerOK, RemoverOK, TakerOK, Linkers, RowTypes
<1>7. FilesOK(k) /\ k.at \notin {"finding", "making", "sending"}
  BY <1>1, <1>4 DEF FilesOK
<1> QED
  BY <1>2, <1>3, <1>4, <1>5, <1>6, <1>7, Begun DEF importIntoDesk

LEMMA RenameKeeps ==
  ASSUME RowsInv, SyncInv, NoneBreak, NEW c \in Calls, NEW e \in Known, NEW n \in Names, rename(c, e, n)
  PROVE  RowsInv' /\ SyncInv'
<1>1. RowTypes /\ NoCall \in TagCall
  BY NoCallOK DEF RowsInv
<1>2. PICK k : k = [[NoCall EXCEPT !.at = "renaming", !.e = e, !.n = n] EXCEPT !.op = "rename"]
  OBVIOUS
<1>3. k \in TagCall
  BY <1>1, <1>2, KnownRids DEF TagCall, Ops, Places
<1>4. k.op = "rename" /\ k.at = "renaming" /\ k.e = e /\ k.n = n /\ k.todo = {} /\ k.files = {}
  BY <1>1, <1>2 DEF TagCall, NoCall
<1>5. PlaceOK(k)
  BY <1>1, <1>4, KnownRids DEF PlaceOK, InPlace, Linkers, EntityRids
<1>6. CallOK(k)
  BY <1>1, <1>4 DEF rename, CallOK, RidsOK, LinkerOK, NamerOK, RemoverOK, TakerOK, Linkers, RowTypes, Free, ByHand
<1>7. FilesOK(k) /\ k.at \notin {"finding", "making", "sending"}
  BY <1>1, <1>4 DEF FilesOK
<1> QED
  BY <1>2, <1>3, <1>4, <1>5, <1>6, <1>7, Begun DEF rename

LEMMA LinkKeeps ==
  ASSUME RowsInv, SyncInv, NoneBreak, NEW c \in Calls, NEW e \in Known, NEW f \in Files, NEW region \in BOOLEAN, link(c, e, f, region)
  PROVE  RowsInv' /\ SyncInv'
<1>1. RowTypes /\ NoCall \in TagCall
  BY NoCallOK DEF RowsInv
<1>2. PICK k : k = [[NoCall EXCEPT !.at = "inserting", !.e = e, !.f = f, !.region = region] EXCEPT !.op = "link"]
  OBVIOUS
<1>3. k \in TagCall
  BY <1>1, <1>2, KnownRids DEF TagCall, Ops, Places
<1>4. k.op = "link" /\ k.at = "inserting" /\ k.e = e /\ k.f = f /\ k.todo = {} /\ k.files = {}
  BY <1>1, <1>2 DEF TagCall, NoCall
<1>5. PlaceOK(k)
  BY <1>1, <1>4, KnownRids DEF PlaceOK, InPlace, Linkers, EntityRids
<1>6. CallOK(k)
  BY <1>1, <1>4 DEF link, MayLink, Owned, CallOK, RidsOK, LinkerOK, NamerOK, RemoverOK, TakerOK, Linkers, RowTypes
<1>7. FilesOK(k) /\ k.at \notin {"finding", "making", "sending"}
  BY <1>1, <1>4 DEF FilesOK
<1> QED
  BY <1>2, <1>3, <1>4, <1>5, <1>6, <1>7, Begun DEF link

LEMMA AutotagKeeps ==
  ASSUME RowsInv, SyncInv, NoneBreak, NEW c \in Calls, NEW f \in Files, NEW names \in SUBSET Names, NEW run \in Runs, autotag(c, f, names, run)
  PROVE  RowsInv' /\ SyncInv'
<1>1. RowTypes /\ NoCall \in TagCall
  BY NoCallOK DEF RowsInv
<1>2. PICK k : k = [[NoCall EXCEPT !.at = "naming", !.f = f, !.d = DeskOf[f], !.names = names, !.run = run] EXCEPT !.op = "autotag"]
  OBVIOUS
<1>3. k \in TagCall
  BY <1>1, <1>2, TagsConstants DEF TagCall, Ops, Places
<1>4. k.op = "autotag" /\ k.at = "naming" /\ k.f = f /\ k.d = DeskOf[f] /\ k.e = 0 /\ k.todo = {} /\ k.files = {}
  BY <1>1, <1>2 DEF TagCall, NoCall
<1>5. PlaceOK(k)
  BY <1>1, <1>4, KnownRids DEF PlaceOK, InPlace, Linkers, EntityRids
<1>6. CallOK(k)
  BY <1>1, <1>4 DEF autotag, Owned, CallOK, RidsOK, LinkerOK, NamerOK, RemoverOK, TakerOK, RowTypes
<1>7. FilesOK(k) /\ k.at \notin {"finding", "making", "sending"}
  BY <1>1, <1>4 DEF FilesOK
<1> QED
  BY <1>2, <1>3, <1>4, <1>5, <1>6, <1>7, Begun DEF autotag

LEMMA RemoveFromDeskKeeps ==
  ASSUME RowsInv, SyncInv, NoneBreak, NEW c \in Calls, NEW e \in Known, NEW d \in Desks, removeFromDesk(c, e, d)
  PROVE  RowsInv' /\ SyncInv'
<1>1. RowTypes /\ NoCall \in TagCall
  BY NoCallOK DEF RowsInv
<1>2. PICK k : k = [[NoCall EXCEPT !.at = "deskLinks", !.e = e, !.d = d, !.files = linkedFiles(e, {d})] EXCEPT !.op = "removeFromDesk"]
  OBVIOUS
<1>3. k \in TagCall
  BY <1>1, <1>2, KnownRids, LinkedAreFiles DEF TagCall, Ops, Places
<1>4. k.op = "removeFromDesk" /\ k.at = "deskLinks" /\ k.e = e /\ k.d = d /\ k.todo = {} /\ k.files = linkedFiles(e, {d})
  BY <1>1, <1>2 DEF TagCall, NoCall
<1>5. PlaceOK(k)
  BY <1>1, <1>4, KnownRids DEF PlaceOK, InPlace, Linkers, EntityRids
<1>6. CallOK(k)
  BY <1>1, <1>4 DEF removeFromDesk, CallOK, RidsOK, LinkerOK, NamerOK, RemoverOK, TakerOK, Linkers, RowTypes, ByHand
<1>7. FilesOK(k) /\ k.at \notin {"finding", "making", "sending"}
  BY <1>1, <1>4 DEF FilesOK
<1> QED
  BY <1>2, <1>3, <1>4, <1>5, <1>6, <1>7, Begun DEF removeFromDesk

LEMMA DeleteEverywhereKeeps ==
  ASSUME RowsInv, SyncInv, NoneBreak, NEW c \in Calls, NEW e \in Known, deleteEverywhere(c, e)
  PROVE  RowsInv' /\ SyncInv'
<1>1. RowTypes /\ NoCall \in TagCall
  BY NoCallOK DEF RowsInv
<1>2. PICK k : k = [[NoCall EXCEPT !.at = "allLinks", !.e = e, !.files = linkedFiles(e, Desks)] EXCEPT !.op = "deleteEverywhere"]
  OBVIOUS
<1>3. k \in TagCall
  BY <1>1, <1>2, KnownRids, LinkedAreFiles DEF TagCall, Ops, Places
<1>4. k.op = "deleteEverywhere" /\ k.at = "allLinks" /\ k.e = e /\ k.todo = {} /\ k.files = linkedFiles(e, Desks)
  BY <1>1, <1>2 DEF TagCall, NoCall
<1>5. PlaceOK(k)
  BY <1>1, <1>4, KnownRids DEF PlaceOK, InPlace, Linkers, EntityRids
<1>6. CallOK(k)
  BY <1>1, <1>4 DEF deleteEverywhere, CallOK, RidsOK, LinkerOK, NamerOK, RemoverOK, TakerOK, Linkers, RowTypes, ByHand
<1>7. FilesOK(k) /\ k.at \notin {"finding", "making", "sending"}
  BY <1>1, <1>4 DEF FilesOK
<1> QED
  BY <1>2, <1>3, <1>4, <1>5, <1>6, <1>7, Begun DEF deleteEverywhere

LEMMA CreateAndLinkKeeps ==
  ASSUME RowsInv, SyncInv, NoneBreak, NEW c \in Calls, NEW f \in Files, NEW n \in Names, createEntitiesAndLink(c, f, n)
  PROVE  RowsInv' /\ SyncInv'
<1>1. RowTypes /\ NoCall \in TagCall /\ DeskOf[f] \in Desks /\ f \in files /\ DeskOf[f] \in desks
  BY NoCallOK, TagsConstants DEF RowsInv, VocabularyOK, createEntitiesAndLink, Owned
<1>2. PICK m : m = [NoCall EXCEPT !.f = f, !.d = DeskOf[f], !.n = n]
  OBVIOUS
<1>3. m \in TagCall /\ m.f = f /\ m.d = DeskOf[f] /\ m.n = n /\ m.e = 0 /\ m.todo = {} /\ m.files = {}
  BY <1>1, <1>2 DEF TagCall, NoCall
<1>4. UNCHANGED <<nameVars, links, vocabulary, baseVars, syncVars>>
  BY DEF createEntitiesAndLink
<1>5. CASE \E e \in findEntityForDesk(n, DeskOf[f]) : Begin(c, "createAndLink", [m EXCEPT !.at = "linking", !.e = e])
  <2>1. PICK e \in findEntityForDesk(n, DeskOf[f]) : Begin(c, "createAndLink", [m EXCEPT !.at = "linking", !.e = e])
    BY <1>5
  <2>2. e \in Known
    BY DEF findEntityForDesk, findHumanInDesk
  <2>8. PICK to : to = [m EXCEPT !.at = "linking", !.e = e]
    OBVIOUS
  <2>9. Begin(c, "createAndLink", to)
    BY <2>1, <2>8
  <2>3. PICK k : k = [to EXCEPT !.op = "createAndLink"]
    OBVIOUS
  <2>4. k \in TagCall
    <3>1. e \in 0..MaxEntities
      BY <1>1, <2>2, KnownRids
    <3>2. to \in TagCall
      BY <1>3, <2>8, <3>1 DEF TagCall, Places
    <3> QED
      BY <2>3, <3>2 DEF TagCall, Ops
  <2>5. k.op = "createAndLink" /\ k.at = "linking" /\ k.e = e /\ k.f = f /\ k.d = DeskOf[f] /\ k.todo = {} /\ k.files = {}
    BY <1>3, <2>3, <2>8 DEF TagCall
  <2>6. PlaceOK(k)
    BY <2>5 DEF PlaceOK, InPlace, Linkers
  <2>7. CallOK(k)
    BY <1>1, <2>2, <2>5 DEF CallOK, RidsOK, LinkerOK, NamerOK, RemoverOK, TakerOK, RowTypes
  <2>10. FilesOK(k) /\ k.at \notin {"finding", "making", "sending"}
    BY <2>5 DEF FilesOK
  <2> QED
    <3>1. k.op = "createAndLink"
      BY <2>5
    <3> QED
      BY <1>4, <2>9, <2>3, <2>4, <2>6, <2>7, <2>10, <3>1, Begun
<1>6. CASE findEntityForDesk(n, DeskOf[f]) = {} /\ Begin(c, "createAndLink", [m EXCEPT !.at = "creating"])
  <2>1. Free(n, DeskOf[f])
    BY <1>6 DEF findEntityForDesk, Free
  <2>2. PICK k : k = [[m EXCEPT !.at = "creating"] EXCEPT !.op = "createAndLink"]
    OBVIOUS
  <2>3. k \in TagCall
    BY <1>3, <2>2 DEF TagCall, Ops, Places
  <2>4. k.op = "createAndLink" /\ k.at = "creating" /\ k.e = 0 /\ k.f = f /\ k.n = n /\ k.d = DeskOf[f] /\ k.todo = {} /\ k.files = {}
    BY <1>3, <2>2 DEF TagCall
  <2>5. PlaceOK(k)
    BY <2>4 DEF PlaceOK, InPlace, Linkers
  <2>6. CallOK(k)
    BY <1>1, <2>1, <2>4 DEF CallOK, RidsOK, LinkerOK, NamerOK, RemoverOK, TakerOK, RowTypes
  <2>7. FilesOK(k) /\ k.at \notin {"finding", "making", "sending"}
    BY <2>4 DEF FilesOK
  <2> QED
    BY <1>4, <1>6, <2>2, <2>3, <2>4, <2>5, <2>6, <2>7, Begun
<1> QED
  BY <1>2, <1>5, <1>6 DEF createEntitiesAndLink

\* The deletes note the tags of the rows they will take.
LEMMA RowsAreLinks ==
  ASSUME NEW m, m.op \in {"removeRun", "deleteFile", "deleteDesk"}
  PROVE  RowsToDrop(m) \subseteq links
BY DEF RowsToDrop

LEMMA DropperOK ==
  ASSUME RowsInv, NEW m \in TagCall, m.op \in {"removeRun", "deleteFile", "deleteDesk"}, m.at = "dropping", m.e = 0, m.op = "removeRun" => m.f \in Files,
         NEW k, k = [[m EXCEPT !.todo = {l.e : l \in RowsToDrop(m)}] EXCEPT !.op = m.op]
  PROVE  /\ k \in TagCall /\ k.op = m.op /\ k.at = "dropping" /\ k.f = m.f /\ k.d = m.d /\ k.run = m.run
         /\ k.todo = {l.e : l \in RowsToDrop(m)} /\ RowsToDrop(k) = RowsToDrop(m) /\ PlaceOK(k) /\ CallOK(k)
         /\ k.files = m.files
<1>1. \A l \in RowsToDrop(m) : l.e \in Known
  <2>1. RowsToDrop(m) \subseteq links
    BY RowsAreLinks
  <2> QED
    BY <2>1 DEF RowsInv, LinksOK
<1>2. RowTypes
  BY DEF RowsInv
<1>3. {l.e : l \in RowsToDrop(m)} \subseteq 1..lastEntity /\ 1..lastEntity \subseteq EntityRids
  BY <1>1, <1>2, KnownRids DEF RowTypes
<1>4. k \in TagCall
  <2>1. PICK t : t = {l.e : l \in RowsToDrop(m)}
    OBVIOUS
  <2>2. k = [[m EXCEPT !.todo = t] EXCEPT !.op = m.op] /\ t \in SUBSET EntityRids
    BY <1>3, <2>1
  <2> QED
    BY <2>2 DEF TagCall
<1>5. /\ k.files = m.files
      /\ k.op = m.op /\ k.at = "dropping" /\ k.e = 0 /\ k.f = m.f /\ k.d = m.d /\ k.run = m.run
      /\ k.todo = {l.e : l \in RowsToDrop(m)}
  BY DEF TagCall
<1>6. RowsToDrop(k) = RowsToDrop(m)
  BY <1>5 DEF RowsToDrop
<1>7. PlaceOK(k)
  BY <1>5 DEF PlaceOK, InPlace, Linkers
<1>8. CallOK(k)
  <2>1. RidsOK(k)
    BY <1>2, <1>3, <1>5 DEF RidsOK, RowTypes
  <2>2. \A l \in RowsToDrop(k) : l.e \in k.todo
    BY <1>5, <1>6
  <2>3. RemoverOK(k)
    BY <1>5, <2>2 DEF RemoverOK
  <2>4. LinkerOK(k) /\ NamerOK(k) /\ TakerOK(k)
    BY <1>5 DEF LinkerOK, NamerOK, TakerOK, Linkers
  <2> QED
    BY <2>1, <2>3, <2>4 DEF CallOK
<1> QED
  BY <1>4, <1>5, <1>6, <1>7, <1>8

LEMMA RemoveRunKeeps ==
  ASSUME RowsInv, SyncInv, NoneBreak, NEW c \in Calls, NEW f \in Files, NEW run \in Runs, removeMachineLinksOfRun(c, f, run)
  PROVE  RowsInv' /\ SyncInv'
<1>1. RowTypes /\ NoCall \in TagCall
  BY NoCallOK DEF RowsInv
<1>2. PICK m : m = [NoCall EXCEPT !.at = "dropping", !.op = "removeRun", !.f = f, !.run = run]
  OBVIOUS
<1>7. m \in TagCall
  BY <1>1, <1>2 DEF TagCall, Ops, Places
<1>3. m \in TagCall /\ m.op = "removeRun" /\ m.at = "dropping" /\ m.e = 0 /\ m.files = {} /\ m.f = f
  BY <1>1, <1>2, <1>7 DEF TagCall, NoCall
<1>4. Begin(c, "removeRun", [m EXCEPT !.todo = {l.e : l \in RowsToDrop(m)}])
  BY <1>2 DEF removeMachineLinksOfRun
<1>5. PICK k : k = [[m EXCEPT !.todo = {l.e : l \in RowsToDrop(m)}] EXCEPT !.op = "removeRun"]
  OBVIOUS
<1>6. k \in TagCall /\ k.op = "removeRun" /\ k.at = "dropping" /\ PlaceOK(k) /\ CallOK(k) /\ k.files = {}
  BY <1>3, <1>5, DropperOK
<1>8. FilesOK(k) /\ k.at \notin {"finding", "making", "sending"}
  BY <1>6 DEF FilesOK
<1> QED
  BY <1>4, <1>5, <1>6, <1>8, Begun DEF removeMachineLinksOfRun

LEMMA DeleteFileKeeps ==
  ASSUME RowsInv, SyncInv, NoneBreak, NEW c \in Calls, NEW f \in Files, deleteFile(c, f)
  PROVE  RowsInv' /\ SyncInv'
<1>1. RowTypes /\ NoCall \in TagCall
  BY NoCallOK DEF RowsInv
<1>2. PICK m : m = [NoCall EXCEPT !.at = "dropping", !.op = "deleteFile", !.f = f]
  OBVIOUS
<1>3. m \in TagCall /\ m.op = "deleteFile" /\ m.at = "dropping" /\ m.e = 0 /\ m.files = {} /\ m.f = f
  BY <1>1, <1>2 DEF TagCall, NoCall, Ops, Places
<1>4. Begin(c, "deleteFile", [m EXCEPT !.todo = {l.e : l \in RowsToDrop(m)}])
  BY <1>2 DEF deleteFile
<1>5. PICK k : k = [[m EXCEPT !.todo = {l.e : l \in RowsToDrop(m)}] EXCEPT !.op = "deleteFile"]
  OBVIOUS
<1>6. k \in TagCall /\ k.op = "deleteFile" /\ k.at = "dropping" /\ k.f = f /\ PlaceOK(k) /\ CallOK(k) /\ k.e = 0 /\ k.files = {}
  BY <1>3, <1>5, DropperOK DEF TagCall
<1>7. Acts(c, "deleteFile", k) /\ call[c].at = "idle"
  BY <1>4, <1>5, <1>6, BeginActs
<1>8. CallOK(k)' /\ SyncTypes' /\ files' = files \ {k.f}
      /\ UNCHANGED <<nameVars, links, vocabulary, types, desks>>
  <2>1. UNCHANGED <<nameVars, links, vocabulary, types, desks, syncVars>> /\ files' = files \ {f}
    BY DEF deleteFile
  <2>2. CallOK(k)'
    BY <1>6, <2>1 DEF CallOK, RidsOK, LinkerOK, NamerOK, RemoverOK, TakerOK, Linkers, RowsToDrop, nameVars
  <2> QED
    BY <1>6, <2>1, <2>2 DEF RowsInv, SyncTypes, syncVars
<1>9. RowsInv'
  BY <1>6, <1>7, <1>8, FilesGo
<1>10. SyncInv'
  <2>1. UNCHANGED <<entities, links>> /\ UNCHANGED syncVars /\ files' \subseteq files
    BY DEF deleteFile, nameVars
  <2>2. FilesOK(k)'
    BY <1>1, <1>6, <1>8 DEF FilesOK, FilesOf, RowTypes
  <2> QED
    BY <1>6, <1>7, <2>1, <2>2, IdleSees, SyncStays
<1> QED
  BY <1>9, <1>10

LEMMA DeleteDeskKeeps ==
  ASSUME RowsInv, SyncInv, NoneBreak, NEW c \in Calls, NEW d \in Desks, deleteDesk(c, d)
  PROVE  RowsInv' /\ SyncInv'
<1>1. RowTypes /\ NoCall \in TagCall
  BY NoCallOK DEF RowsInv
<1>2. PICK m : m = [NoCall EXCEPT !.at = "dropping", !.op = "deleteDesk", !.d = d]
  OBVIOUS
<1>3. m \in TagCall /\ m.op = "deleteDesk" /\ m.at = "dropping" /\ m.e = 0 /\ m.files = {} /\ m.d = d
  BY <1>1, <1>2 DEF TagCall, NoCall, Ops, Places
<1>4. Begin(c, "deleteDesk", [m EXCEPT !.todo = {l.e : l \in RowsToDrop(m)}])
  BY <1>2 DEF deleteDesk
<1>5. PICK k : k = [[m EXCEPT !.todo = {l.e : l \in RowsToDrop(m)}] EXCEPT !.op = "deleteDesk"]
  OBVIOUS
<1>6. k \in TagCall /\ k.op = "deleteDesk" /\ k.at = "dropping" /\ k.d = d /\ PlaceOK(k) /\ CallOK(k) /\ k.e = 0 /\ k.files = {}
  BY <1>3, <1>5, DropperOK DEF TagCall
<1>7. Acts(c, "deleteDesk", k) /\ call[c].at = "idle"
  BY <1>4, <1>5, <1>6, BeginActs
<1>8. CallOK(k)' /\ SyncTypes' /\ desks' = desks \ {k.d} /\ files' = files \ FilesOf(k.d)
      /\ UNCHANGED <<nameVars, links, vocabulary, types>>
  <2>1. UNCHANGED <<nameVars, links, vocabulary, types, syncVars>> /\ desks' = desks \ {d} /\ files' = files \ FilesOf(d)
    BY DEF deleteDesk
  <2>2. CallOK(k)'
    BY <1>6, <2>1 DEF CallOK, RidsOK, LinkerOK, NamerOK, RemoverOK, TakerOK, Linkers, RowsToDrop, nameVars
  <2> QED
    BY <1>6, <2>1, <2>2 DEF RowsInv, SyncTypes, syncVars
<1>9. RowsInv'
  BY <1>6, <1>7, <1>8, FilesGo
<1>10. SyncInv'
  <2>1. UNCHANGED <<entities, links>> /\ UNCHANGED syncVars /\ files' \subseteq files
    BY DEF deleteDesk, nameVars
  <2>2. FilesOK(k)'
    BY <1>1, <1>6, <1>8 DEF FilesOK, FilesOf, RowTypes
  <2> QED
    BY <1>6, <1>7, <2>1, <2>2, IdleSees, SyncStays
<1> QED
  BY <1>9, <1>10

LEMMA UnlinkKeeps ==
  ASSUME RowsInv, SyncInv, NoneBreak, NEW c \in Calls, NEW e \in Known, NEW f \in Files, unlink(c, e, f)
  PROVE  RowsInv' /\ SyncInv'
<1>1. RowTypes /\ NoCall \in TagCall /\ e \in EntityRids /\ e \in 1..lastEntity
  BY NoCallOK, KnownRids DEF RowsInv, RowTypes
<1>2. PICK k : k = [[NoCall EXCEPT !.at = "reading", !.files = {f}, !.todo = {e}] EXCEPT !.op = "unlink"]
  OBVIOUS
<1>3. k \in TagCall
  BY <1>1, <1>2 DEF TagCall, Ops, Places
<1>4. k.op = "unlink" /\ k.at = "reading" /\ k.e = 0 /\ k.todo = {e} /\ k.files = {f}
  BY <1>1, <1>2 DEF TagCall, NoCall
<1>5. PlaceOK(k)
  BY <1>1, <1>4, KnownRids DEF PlaceOK, InPlace, Linkers, EntityRids
<1>6. Acts(c, "unlink", k) /\ HandsOver(c, k)
  BY <1>2, <1>3, <1>4, <1>5, BeginActs DEF unlink
<1>7. CallOK(k)'
  BY <1>1, <1>4 DEF unlink, CallOK, RidsOK, LinkerOK, NamerOK, RemoverOK, TakerOK, Linkers, RowTypes, nameVars
<1>8. links' \subseteq links /\ SyncTypes' /\ UNCHANGED <<nameVars, vocabulary, types, desks, files>>
  BY DEF unlink, RowsInv, SyncTypes, syncVars, baseVars
<1>9. RowsInv'
  BY <1>6, <1>7, <1>8, LinksGo
<1>10. links' = {l \in links : ~(l.e = e /\ l.f = f /\ ~l.region)} /\ entities' = entities /\ UNCHANGED syncVars
       /\ files' = files /\ call[c].at = "idle"
  BY DEF unlink, nameVars, baseVars, Begin
<1>11. \A x \in Known' : Machine(x)' => x \in Known /\ Machine(x) /\ entities'[x].name = entities[x].name
  BY <1>10 DEF Known, Machine
<1>12. \A x \in Known' : Machine(x)' /\ LinksOf(x)' = {} /\ (LinksOf(x) # {} \/ LooksAt(call[c], x)) => LooksAt(k, x)
  <2> SUFFICES ASSUME NEW x, LinksOf(x)' = {}, LinksOf(x) # {} PROVE LooksAt(k, x)
    BY <1>10, IdleSees
  <2>1. x = e
    BY <1>10 DEF LinksOf
  <2> QED
    BY <1>4, <2>1 DEF LooksAt
<1>13. \A g \in files' : WillRead(k, g) \/ (FieldsOf(g)' = FieldsOf(g) /\ ~WillRead(call[c], g))
  <2> SUFFICES ASSUME NEW g, g # f PROVE FieldsOf(g)' = FieldsOf(g)
    BY <1>4, <1>10, IdleSees DEF WillRead
  <2>1. {l \in links' : l.f = g /\ ~l.region} = {l \in links : l.f = g /\ ~l.region}
    BY <1>10
  <2>2. Known' = Known
    BY <1>10 DEF Known
  <2> QED
    BY <1>10, <2>1, <2>2, FieldsFrom
<1>14. FilesOK(k)'
  BY <1>4 DEF FilesOK
<1>15. SyncInv'
  BY <1>4, <1>6, <1>8, <1>10, <1>11, <1>12, <1>13, <1>14, SyncFollows
<1> QED
  BY <1>9, <1>15

-----------------------------------------------------------------------------
(* The statements, one by one.                                             *)

LEMMA Mine ==
  ASSUME RowsInv, NEW c \in Calls
  PROVE  /\ call[c] \in TagCall /\ PlaceOK(call[c]) /\ CallOK(call[c]) /\ RowTypes /\ SyncTypes
         /\ NoCall \in TagCall /\ PlaceOK(NoCall) /\ CallOK(NoCall)
BY NoCallOK DEF RowsInv, CallsOK

LEMMA GotoActs ==
  ASSUME RowsInv, NEW c \in Calls, call[c].at # "idle", NEW k \in TagCall, PlaceOK(k),
         k.at = "idle" \/ k.op = call[c].op, Goto(c, k)
  PROVE  Acts(c, call[c].op, k)
<1>1. ASSUME NEW o \in UnderWay \ {c} PROVE {call[c].op, call[o].op} \in Together
  BY DEF RowsInv, Meet, UnderWay
<1> QED
  BY <1>1 DEF Acts, Goto

LEMMA FreeHands ==
  ASSUME NEW c, call[c].at \notin {"dropping", "counting", "pruning", "leaving", "vacating"}, NEW k
  PROVE  HandsOver(c, k)
BY DEF HandsOver, At

\* A move that changes no row.
LEMMA Moved ==
  ASSUME RowsInv, NoneBreak, NEW c \in Calls, call[c].at # "idle", NEW k \in TagCall, PlaceOK(k), CallOK(k),
         k.at = "idle" \/ k.op = call[c].op, HandsOver(c, k), Goto(c, k), SyncTypes',
         UNCHANGED <<nameVars, links, vocabulary, baseVars>>
  PROVE  RowsInv'
<1>1. types' \subseteq Types /\ UNCHANGED <<nameVars, links, vocabulary, desks, files>>
  BY DEF RowsInv, RowTypes, baseVars
<1> QED
  BY <1>1, GotoActs, RowsStay

LEMMA MyFiles ==
  ASSUME RowsInv, SyncInv, NEW c \in Calls
  PROVE  /\ FilesOK(call[c])
         /\ call[c].at \notin {"reading", "sending"} /\ call[c].op \notin {"removeFromDesk", "deleteEverywhere"} => call[c].files = {}
BY DEF SyncInv, IndexInv, FilesOK

LEMMA MovedOn ==
  ASSUME RowsInv, SyncInv, NoneBreak, NEW c \in Calls, call[c].at \notin {"idle", "finding", "making", "sending"},
         NEW k \in TagCall, PlaceOK(k), CallOK(k), k.at = "idle" \/ k.op = call[c].op, HandsOver(c, k), Goto(c, k),
         UNCHANGED <<nameVars, links, vocabulary, baseVars, syncVars>>, FilesOK(k),
         k.at \notin {"finding", "making", "sending"},
         \A e \in Known : Machine(e) /\ LinksOf(e) = {} /\ LooksAt(call[c], e) => LooksAt(k, e),
         \A f \in files : WillRead(call[c], f) => WillRead(k, f)
  PROVE  RowsInv' /\ SyncInv'
<1>1. SyncTypes' /\ UNCHANGED <<nameVars, links, vocabulary, baseVars>>
  BY DEF RowsInv, SyncTypes, syncVars
<1>2. RowsInv'
  BY <1>1, Moved
<1>3. Acts(c, call[c].op, k)
  BY GotoActs
<1>4. FilesOK(k)' /\ UNCHANGED <<entities, links>> /\ UNCHANGED syncVars /\ files' \subseteq files
  BY FilesSame DEF nameVars, baseVars
<1>5. SyncInv'
  BY <1>3, <1>4, SyncStays
<1> QED
  BY <1>2, <1>5

\* The call that a request or callback ends with.
LEMMA EndsOK ==
  ASSUME RowsInv
  PROVE  NoCall.at = "idle" /\ NoCall.op = "none" /\ FilesOK(NoCall)
BY DEF NoCall, FilesOK

LEMMA WriteTypeKeeps ==
  ASSUME RowsInv, SyncInv, NoneBreak, NEW c \in Calls, writeType(c)
  PROVE  RowsInv' /\ SyncInv'
<1>1. call[c].at \in {"addType", "dropType"} /\ Goto(c, NoCall) /\ NoCall.at = "idle"
  BY DEF writeType, At, NoCall
<1>2. Acts(c, call[c].op, NoCall) /\ HandsOver(c, NoCall)
  BY <1>1, Mine, GotoActs, FreeHands
<1>3. types' \subseteq Types
  BY <1>1, Mine DEF writeType, PlaceOK, RowTypes
<1>4. SyncTypes' /\ UNCHANGED <<nameVars, links, vocabulary, desks, files>>
  BY Mine DEF writeType, SyncTypes, syncVars
<1>5. RowsInv'
  BY <1>2, <1>3, <1>4, Mine, RowsStay
<1>6. PICK m : m = call[c]
  OBVIOUS
<1>7. m.op \in {"createType", "deleteType"} /\ m.at \in {"addType", "dropType"} /\ m.files = {}
  BY <1>1, <1>6, Mine, MyFiles DEF PlaceOK, InPlace
<1>8. UNCHANGED syncVars /\ UNCHANGED <<entities, links, files>>
  BY DEF writeType, nameVars
<1>9. (\A e : ~LooksAt(m, e)) /\ (\A f : ~WillRead(m, f))
  BY <1>7 DEF LooksAt, WillRead
<1>10. FilesOK(NoCall)'
  BY <1>8, EndsOK, FilesSame
<1>11. SyncInv'
  BY <1>1, <1>2, <1>6, <1>8, <1>9, <1>10, SyncStays
<1> QED
  BY <1>5, <1>11

LEMMA CreateEntityKeeps ==
  ASSUME RowsInv, SyncInv, NoneBreak, NEW c \in Calls, createEntity(c)
  PROVE  RowsInv' /\ SyncInv'
<1>1. PICK m : m = call[c]
  OBVIOUS
<1>2. m \in TagCall /\ PlaceOK(m) /\ CallOK(m) /\ m.at = "creating" /\ RowTypes /\ SyncTypes
  BY <1>1, Mine DEF createEntity, At
<1>3. m.op \in {"createInDesk", "createAndLink"} /\ m.d \in desks /\ m.n \in Names /\ Free(m.n, m.d)
  BY <1>2 DEF PlaceOK, InPlace, CallOK, NamerOK
<1>4. Create(m.n, "user") /\ vocabulary' = vocabulary
  BY <1>1 DEF createEntity
<1>5. PICK r : r = lastEntity + 1
  OBVIOUS
<1>6. /\ Known' = Known \cup {r} /\ entities'[r] = [name |-> m.n, by |-> "user"] /\ r \in EntityRids
      /\ lastEntity' = r /\ 1..lastEntity \subseteq 1..lastEntity' /\ lastEntity \in Nat
      /\ \A n, d : findHumanInDesk(n, d)' = findHumanInDesk(n, d)
  BY <1>3, <1>4, <1>5, CreateAdds
<1>7. PICK k : k = [m EXCEPT !.at = "attaching", !.e = r]
  OBVIOUS
<1>8. k \in TagCall
  <2>1. r \in 0..MaxEntities
    BY <1>2, <1>6, KnownRids
  <2> QED
    BY <1>2, <1>7, <2>1 DEF TagCall, Places
<1>9. /\ k.op = m.op /\ k.at = "attaching" /\ k.e = r /\ k.f = m.f /\ k.d = m.d /\ k.todo = m.todo
      /\ k.files = m.files
  BY <1>2, <1>7 DEF TagCall
<1>10. PlaceOK(k)
  BY <1>2, <1>3, <1>9 DEF PlaceOK, InPlace
<1>11. Goto(c, k)
  BY <1>1, <1>6, <1>7 DEF createEntity
<1>12. CallOK(k)'
  <2>1. RidsOK(k)'
    BY <1>2, <1>5, <1>6, <1>9 DEF CallOK, RidsOK
  <2>2. LinkerOK(k)'
    BY <1>2, <1>3, <1>9 DEF CallOK, LinkerOK, createEntity, baseVars
  <2>3. NamerOK(k)'
    BY <1>3, <1>6, <1>9 DEF NamerOK, Free, Machine, createEntity, baseVars
  <2>4. RemoverOK(k)' /\ TakerOK(k)'
    BY <1>3, <1>9 DEF RemoverOK, TakerOK
  <2> QED
    BY <2>1, <2>2, <2>3, <2>4 DEF CallOK
<1>13. Acts(c, m.op, k) /\ HandsOver(c, k)
  BY <1>1, <1>2, <1>8, <1>9, <1>10, <1>11, GotoActs, FreeHands
<1>14. SyncTypes' /\ UNCHANGED <<links, vocabulary, types, desks, files>>
  BY <1>2 DEF createEntity, SyncTypes, syncVars, baseVars
<1>15. RowsInv'
  BY <1>3, <1>4, <1>12, <1>13, <1>14, TagComes
<1>16. m.files = {} /\ (\A e : ~LooksAt(m, e)) /\ (\A f : ~WillRead(m, f))
  BY <1>1, <1>2, <1>3, MyFiles DEF LooksAt, WillRead
<1>17. links' = links /\ files' = files /\ UNCHANGED syncVars
  BY DEF createEntity, baseVars
<1>18. /\ r \notin Known /\ ~Machine(r)' /\ \A e \in Known : entities'[e] = entities[e]
  BY <1>3, <1>4, <1>5, <1>6, CreateAdds DEF Machine
<1>19. \A e \in Known' : Machine(e)' => e \in Known /\ Machine(e) /\ entities'[e].name = entities[e].name
  BY <1>6, <1>18 DEF Machine
<1>20. \A f : FieldsOf(f)' = FieldsOf(f)
  <2>1. \A l \in links : l.e \in Known /\ l.e \in Known'
    BY <1>6 DEF RowsInv, LinksOK
  <2> QED
    BY <1>17, <1>18, <2>1, FieldsFrom
<1>21. FilesOK(k)'
  BY <1>3, <1>9, <1>16 DEF FilesOK
<1>22. \A e \in Known' : Machine(e)' /\ LinksOf(e)' = {} /\ (LinksOf(e) # {} \/ LooksAt(m, e)) => LooksAt(k, e)
  BY <1>16, <1>17 DEF LinksOf
<1>23. SyncInv'
  <2>1. m.at \notin {"finding", "making", "sending"} /\ k.at \notin {"finding", "making", "sending"}
    BY <1>2, <1>9
  <2> QED
    BY <1>1, <1>13, <1>16, <1>17, <1>19, <1>20, <1>21, <1>22, <2>1, SyncFollows
<1> QED
  BY <1>15, <1>23

LEMMA AttachKeeps ==
  ASSUME RowsInv, SyncInv, NoneBreak, NEW c \in Calls, attachToDesk(c)
  PROVE  RowsInv' /\ SyncInv'
<1>1. PICK m : m = call[c]
  OBVIOUS
<1>2. m \in TagCall /\ PlaceOK(m) /\ CallOK(m) /\ m.at = "attaching" /\ RowTypes /\ SyncTypes
  BY <1>1, Mine DEF attachToDesk, At
<1>3. /\ m.op \in {"createInDesk", "createAndLink", "import"} /\ m.d \in desks /\ m.e \in Known /\ ~Machine(m.e)
      /\ Free(entities[m.e].name, m.d)
  BY <1>2 DEF PlaceOK, InPlace, CallOK, NamerOK
<1>4. PICK k : k = AfterAttach(m)
  OBVIOUS
<1>5. /\ m.op = "createInDesk" => k = NoCall
      /\ m.op = "createAndLink" => k = [m EXCEPT !.at = "linking"]
      /\ m.op = "import" => k = [m EXCEPT !.at = "importing"]
  BY <1>4 DEF AfterAttach
<1>6. Goto(c, k)
  BY <1>1, <1>4 DEF attachToDesk
<1>7. k \in TagCall /\ PlaceOK(k) /\ (k.at = "idle" \/ k.op = m.op) /\ CallOK(k)'
  <2>1. /\ entities' = entities /\ lastEntity' = lastEntity /\ files' = files /\ desks' = desks
    BY DEF attachToDesk, nameVars, baseVars
  <2>2. CASE m.op = "createInDesk"
    <3>1. k = NoCall /\ k.at = "idle" /\ k.op = "none" /\ k.e = 0 /\ k.todo = {}
      BY <1>5, <2>2 DEF NoCall
    <3>2. CallOK(k)'
      BY <2>1, <3>1, <1>2 DEF CallOK, RidsOK, LinkerOK, NamerOK, RemoverOK, TakerOK, Linkers, RowTypes
    <3> QED
      BY <3>1, <3>2, Mine
  <2>3. CASE m.op = "createAndLink"
    <3>1. k = [m EXCEPT !.at = "linking"]
      BY <1>5, <2>3
    <3>2. k \in TagCall
      BY <1>2, <3>1 DEF TagCall, Places
    <3>3. /\ k.op = m.op /\ k.at = "linking" /\ k.e = m.e /\ k.f = m.f /\ k.d = m.d /\ k.todo = m.todo
          /\ k.files = m.files
      BY <1>2, <3>1 DEF TagCall
    <3>4. PlaceOK(k)
      BY <1>2, <2>3, <3>3 DEF PlaceOK, InPlace
    <3>5. CallOK(k)'
      BY <1>2, <2>1, <2>3, <3>3 DEF CallOK, RidsOK, LinkerOK, NamerOK, RemoverOK, TakerOK
    <3> QED
      BY <3>2, <3>3, <3>4, <3>5
  <2>4. CASE m.op = "import"
    <3>1. k = [m EXCEPT !.at = "importing"]
      BY <1>5, <2>4
    <3>2. k \in TagCall
      BY <1>2, <3>1 DEF TagCall, Places
    <3>3. k.op = m.op /\ k.at = "importing" /\ k.e = m.e /\ k.d = m.d /\ k.todo = m.todo /\ k.files = m.files /\ k.f = m.f
      BY <1>2, <3>1 DEF TagCall
    <3>4. PlaceOK(k)
      BY <1>2, <2>4, <3>3 DEF PlaceOK, InPlace
    <3>5. CallOK(k)'
      BY <1>2, <2>1, <2>4, <3>3 DEF CallOK, RidsOK, LinkerOK, NamerOK, RemoverOK, TakerOK, Linkers, Known, Machine
    <3> QED
      BY <3>2, <3>3, <3>4, <3>5
  <2> QED
    BY <1>3, <2>2, <2>3, <2>4
<1>8. Acts(c, m.op, k) /\ HandsOver(c, k)
  BY <1>1, <1>2, <1>6, <1>7, GotoActs, FreeHands
<1>9. SyncTypes' /\ UNCHANGED <<nameVars, links, types, desks, files>> /\ vocabulary' = vocabulary \cup {<<m.e, m.d>>}
  BY <1>1, <1>2 DEF attachToDesk, SyncTypes, syncVars, baseVars
<1>10. m.op \in Attachers
  BY <1>3 DEF Attachers, Namers
<1>11. RowsInv'
  BY <1>3, <1>7, <1>8, <1>9, <1>10, RowComes
<1>12. m.files = {} /\ (\A e : ~LooksAt(m, e)) /\ (\A f : ~WillRead(m, f))
  BY <1>1, <1>2, <1>3, MyFiles DEF LooksAt, WillRead
<1>13. UNCHANGED <<entities, links, files>> /\ UNCHANGED syncVars
  BY DEF attachToDesk, nameVars, baseVars
<1>14. k.files = {} /\ k.at \in {"idle", "linking", "importing"} /\ k.op \in {"none", "createAndLink", "import"}
  <2>1. CASE m.op = "createInDesk"
    BY <1>5, <2>1 DEF NoCall
  <2>2. CASE m.op = "createAndLink"
    BY <1>2, <1>5, <1>12, <2>2 DEF TagCall
  <2>3. CASE m.op = "import"
    BY <1>2, <1>5, <1>12, <2>3 DEF TagCall
  <2> QED
    BY <1>3, <2>1, <2>2, <2>3
<1>15. FilesOK(k)'
  BY <1>14 DEF FilesOK
<1>16. m.at \notin {"finding", "making", "sending"} /\ k.at \notin {"finding", "making", "sending"}
  BY <1>2, <1>14
<1>17. SyncInv'
  BY <1>1, <1>8, <1>12, <1>13, <1>15, <1>16, SyncStays
<1> QED
  BY <1>11, <1>17

LEMMA ImportNextKeeps ==
  ASSUME RowsInv, SyncInv, NoneBreak, NEW c \in Calls, importNext(c)
  PROVE  RowsInv' /\ SyncInv'
<1>1. PICK m : m = call[c]
  OBVIOUS
<1>2. m \in TagCall /\ PlaceOK(m) /\ CallOK(m) /\ m.at = "importing" /\ RowTypes /\ SyncTypes
  BY <1>1, Mine DEF importNext, At
<1>3. /\ m.op = "import" /\ m.d \in desks /\ m.todo \subseteq EntityRids
      /\ \A e \in m.todo : e \in Known /\ ~Machine(e) /\ e \in 0..MaxEntities /\ e <= lastEntity
  BY <1>2, KnownRids DEF PlaceOK, InPlace, CallOK, NamerOK, RidsOK, RowTypes, TagCall
<1>4. UNCHANGED <<nameVars, links, vocabulary, baseVars, syncVars>>
  BY DEF importNext
<1>8. m.files = {} /\ (\A e : ~LooksAt(m, e)) /\ (\A f : ~WillRead(m, f))
  BY <1>1, <1>2, <1>3, MyFiles DEF LooksAt, WillRead
<1>5. \A k : HandsOver(c, k)
  BY <1>1, <1>2, FreeHands
<1>6. CASE Goto(c, NoCall)
  BY <1>1, <1>2, <1>4, <1>5, <1>6, <1>8, EndsOK, Mine, MovedOn
<1>7. ASSUME NEW e \in m.todo, NEW at \in {"importing", "attaching"},
             at = "attaching" => ~(<<e, m.d>> \in vocabulary \/ (e \in Known /\ findHumanInDesk(entities[e].name, m.d) # {})),
             Goto(c, [m EXCEPT !.todo = m.todo \ {e}, !.e = e, !.at = at])
      PROVE  RowsInv' /\ SyncInv'
  <2>1. PICK k : k = [m EXCEPT !.todo = m.todo \ {e}, !.e = e, !.at = at]
    OBVIOUS
  <2>2. k \in TagCall
    BY <1>2, <1>3, <2>1 DEF TagCall, Places
  <2>3. k.op = "import" /\ k.at = at /\ k.e = e /\ k.d = m.d /\ k.todo = m.todo \ {e} /\ k.files = m.files
    BY <1>2, <1>3, <2>1 DEF TagCall
  <2>4. PlaceOK(k)
    BY <1>2, <1>3, <2>3 DEF PlaceOK, InPlace, Linkers
  <2>5. RidsOK(k)
    BY <1>2, <1>3, <2>3 DEF CallOK, RidsOK
  <2>6. NamerOK(k)
    BY <1>3, <1>7, <2>3 DEF NamerOK, Free
  <2>7. LinkerOK(k) /\ RemoverOK(k) /\ TakerOK(k)
    BY <2>3 DEF LinkerOK, RemoverOK, TakerOK, Linkers
  <2>8. CallOK(k)
    BY <2>5, <2>6, <2>7 DEF CallOK
  <2>9. FilesOK(k)
    BY <1>8, <2>3 DEF FilesOK
  <2> QED
    BY <1>1, <1>2, <1>3, <1>4, <1>5, <1>7, <1>8, <2>1, <2>2, <2>3, <2>4, <2>8, <2>9, MovedOn
<1> QED
  <2>1. \/ Goto(c, NoCall)
        \/ \E e \in m.todo : \E at \in {"importing", "attaching"} :
             /\ at = "attaching" => ~(<<e, m.d>> \in vocabulary \/ (e \in Known /\ findHumanInDesk(entities[e].name, m.d) # {}))
             /\ Goto(c, [m EXCEPT !.todo = m.todo \ {e}, !.e = e, !.at = at])
    BY <1>1 DEF importNext
  <2> QED
    BY <1>6, <1>7, <2>1

LEMMA RenameEntityKeeps ==
  ASSUME RowsInv, SyncInv, NoneBreak, NEW c \in Calls, renameEntity(c)
  PROVE  RowsInv' /\ SyncInv'
<1>1. PICK m : m = call[c]
  OBVIOUS
<1>2. m \in TagCall /\ PlaceOK(m) /\ CallOK(m) /\ m.at = "renaming" /\ RowTypes /\ SyncTypes
  BY <1>1, Mine DEF renameEntity, At
<1>3. m.op = "rename" /\ m.n \in Names /\ ByHand(m.e) /\ \A d \in DesksOf(m.e) : Free(m.n, d)
  BY <1>2 DEF PlaceOK, InPlace, CallOK, NamerOK
<1>4. PICK k : k = [m EXCEPT !.at = "reading", !.files = linkedFiles(m.e, Desks)]
  OBVIOUS
<1>5. k \in TagCall
  <2>1. linkedFiles(m.e, Desks) \in SUBSET Files
    BY <1>2, LinkedAreFiles
  <2> QED
    BY <1>2, <1>4, <2>1 DEF TagCall, Places
<1>6. k.op = "rename" /\ k.at = "reading" /\ k.e = m.e /\ k.todo = m.todo /\ k.files = linkedFiles(m.e, Desks)
  BY <1>2, <1>3, <1>4 DEF TagCall
<1>7. PlaceOK(k)
  BY <1>6 DEF PlaceOK, InPlace, Linkers
<1>8. CallOK(k)'
  BY <1>2, <1>6 DEF CallOK, RidsOK, LinkerOK, NamerOK, RemoverOK, TakerOK, Linkers, renameEntity
<1>9. Acts(c, "rename", k) /\ HandsOver(c, k)
  <2>1. Goto(c, k)
    BY <1>1, <1>4 DEF renameEntity
  <2> QED
    BY <1>1, <1>2, <1>3, <1>5, <1>6, <1>7, <2>1, GotoActs, FreeHands
<1>10. /\ SyncTypes' /\ UNCHANGED <<lastEntity, links, vocabulary, types, desks, files>>
       /\ entities' = [e \in Known |-> IF e = m.e THEN [entities[e] EXCEPT !.name = m.n] ELSE entities[e]]
  BY <1>1, <1>2 DEF renameEntity, SyncTypes, syncVars, baseVars
<1>11. RowsInv'
  BY <1>3, <1>8, <1>9, <1>10, TagRenamed
<1>12. m.files = {} /\ (\A e : ~LooksAt(m, e)) /\ (\A f : ~WillRead(m, f))
  BY <1>1, <1>2, <1>3, MyFiles DEF LooksAt, WillRead
<1>13. links' = links /\ files' = files /\ UNCHANGED syncVars
  BY DEF renameEntity, baseVars
<1>14. /\ Known' = Known /\ \A e \in Known : entities'[e].by = entities[e].by
       /\ \A e \in Known : e # m.e => entities'[e].name = entities[e].name
  BY <1>2, <1>10 DEF Known, RowTypes, Entity
<1>15. \A e \in Known' : Machine(e)' => e \in Known /\ Machine(e) /\ entities'[e].name = entities[e].name
  BY <1>3, <1>14 DEF Machine, ByHand
<1>16. \A e \in Known' : Machine(e)' /\ LinksOf(e)' = {} /\ (LinksOf(e) # {} \/ LooksAt(m, e)) => LooksAt(k, e)
  BY <1>12, <1>13 DEF LinksOf
<1>17. \A f \in files' : WillRead(k, f) \/ (FieldsOf(f)' = FieldsOf(f) /\ ~WillRead(m, f))
  <2> SUFFICES ASSUME NEW f, ~WillRead(k, f) PROVE FieldsOf(f)' = FieldsOf(f)
    BY <1>12
  <2>1. f \notin linkedFiles(m.e, Desks)
    BY <1>6 DEF WillRead
  <2>2. \A l \in links : l.f = f /\ ~l.region => l.e # m.e
    BY <1>2, <2>1 DEF linkedFiles, LinksOf, RowTypes, TagLink
  <2> QED
    BY <1>13, <1>14, <2>2, FieldsFrom
<1>18. FilesOK(k)'
  BY <1>6 DEF FilesOK
<1>19. m.at \notin {"finding", "making", "sending"} /\ k.at \notin {"finding", "making", "sending"}
  BY <1>2, <1>6
<1>20. SyncInv'
  BY <1>1, <1>9, <1>13, <1>15, <1>16, <1>17, <1>18, <1>19, SyncFollows
<1> QED
  BY <1>11, <1>20

LEMMA LinkFoundKeeps ==
  ASSUME RowsInv, SyncInv, NoneBreak, NEW c \in Calls, linkFound(c)
  PROVE  RowsInv' /\ SyncInv'
<1>1. PICK m : m = call[c]
  OBVIOUS
<1>2. m \in TagCall /\ PlaceOK(m) /\ CallOK(m) /\ m.at = "linking" /\ RowTypes /\ SyncTypes
  BY <1>1, Mine DEF linkFound, At
<1>3. m.op \in {"createAndLink", "autotag"}
  BY <1>2 DEF PlaceOK, InPlace
<1>4. UNCHANGED <<nameVars, links, vocabulary, baseVars, syncVars>>
  BY DEF linkFound
<1>9. m.files = {}
  BY <1>1, <1>2, <1>3, MyFiles
<1>5. \A k : HandsOver(c, k)
  BY <1>1, <1>2, FreeHands
<1>6. CASE MayLink(m.e, m.f)
  <2>1. PICK k : k = [m EXCEPT !.at = "inserting"]
    OBVIOUS
  <2>2. k \in TagCall
    BY <1>2, <2>1 DEF TagCall, Places
  <2>3. k.op = m.op /\ k.at = "inserting" /\ k.e = m.e /\ k.f = m.f /\ k.d = m.d /\ k.todo = m.todo /\ k.files = m.files
    BY <1>2, <2>1 DEF TagCall
  <2>4. PlaceOK(k)
    BY <1>2, <1>3, <2>3 DEF PlaceOK, InPlace
  <2>5. CallOK(k)
    BY <1>2, <1>3, <1>6, <2>3 DEF CallOK, RidsOK, LinkerOK, NamerOK, RemoverOK, TakerOK, MayLink
  <2>6. Goto(c, k)
    BY <1>1, <1>6, <2>1 DEF linkFound
  <2>7. FilesOK(k) /\ (\A e : LooksAt(m, e) => LooksAt(k, e)) /\ (\A f : WillRead(m, f) => WillRead(k, f))
    BY <1>2, <1>3, <1>9, <2>3 DEF FilesOK, LooksAt, WillRead
  <2> QED
    BY <1>1, <1>2, <1>4, <1>5, <2>2, <2>3, <2>4, <2>5, <2>6, <2>7, MovedOn
<1>7. CASE ~MayLink(m.e, m.f) /\ m.op = "createAndLink"
  <2>1. AfterLink(m, FALSE) = NoCall /\ NoCall.at = "idle"
    BY <1>7 DEF AfterLink, NoCall
  <2>2. Goto(c, NoCall)
    BY <1>1, <1>7, <2>1 DEF linkFound
  <2>3. (\A e : ~LooksAt(m, e)) /\ (\A f : ~WillRead(m, f))
    BY <1>2, <1>7, <1>9 DEF LooksAt, WillRead
  <2> QED
    BY <1>1, <1>2, <1>4, <1>5, <2>1, <2>2, <2>3, EndsOK, Mine, MovedOn
<1>8. CASE ~MayLink(m.e, m.f) /\ m.op = "autotag"
  <2>1. PICK k : k = [m EXCEPT !.at = "naming"]
    OBVIOUS
  <2>2. k \in TagCall
    BY <1>2, <2>1 DEF TagCall, Places
  <2>3. k.op = m.op /\ k.at = "naming" /\ k.e = m.e /\ k.f = m.f /\ k.d = m.d /\ k.todo = m.todo /\ k.files = m.files
    BY <1>2, <2>1 DEF TagCall
  <2>4. PlaceOK(k)
    BY <1>2, <1>8, <2>3 DEF PlaceOK, InPlace
  <2>5. CallOK(k)
    BY <1>2, <1>8, <2>3 DEF CallOK, RidsOK, LinkerOK, NamerOK, RemoverOK, TakerOK
  <2>6. AfterLink(m, FALSE) = k
    BY <1>8, <2>1 DEF AfterLink
  <2>7. Goto(c, k)
    BY <1>1, <1>8, <2>6 DEF linkFound
  <2>8. FilesOK(k) /\ \A f : WillRead(m, f) => WillRead(k, f)
    BY <1>2, <1>8, <1>9, <2>3 DEF FilesOK, WillRead
  <2>9. \A e \in Known : Machine(e) => ~LooksAt(m, e)
    <3>1. m.e \in Known => ~Machine(m.e)
      BY <1>2, <1>8 DEF MayLink, CallOK, LinkerOK, Owned, Linkers
    <3> QED
      BY <1>2, <1>8, <3>1 DEF LooksAt
  <2> QED
    BY <1>1, <1>2, <1>4, <1>5, <2>2, <2>3, <2>4, <2>5, <2>7, <2>8, <2>9, MovedOn
<1> QED
  BY <1>3, <1>6, <1>7, <1>8

\* Where a call goes after its link.
LEMMA AfterLinkIs ==
  ASSUME NEW m \in TagCall, PlaceOK(m), m.at = "inserting", m.f \in Files, NEW k, k = AfterLink(m, TRUE),
         NoCall \in TagCall, PlaceOK(NoCall)
  PROVE  /\ k \in TagCall /\ PlaceOK(k)
         /\ \/ k = NoCall
            \/ m.op = "autotag" /\ k = [m EXCEPT !.at = "naming"]
            \/ m.op # "autotag" /\ k = [m EXCEPT !.at = "reading", !.files = {m.f}]
<1>1. m.op \in {"createAndLink", "link", "autotag"}
  BY DEF PlaceOK, InPlace
<1>2. \/ k = NoCall
      \/ m.op = "autotag" /\ k = [m EXCEPT !.at = "naming"]
      \/ m.op # "autotag" /\ k = [m EXCEPT !.at = "reading", !.files = {m.f}]
  BY DEF AfterLink
<1>3. CASE k = NoCall
  BY <1>3
<1>4. CASE m.op = "autotag" /\ k = [m EXCEPT !.at = "naming"]
  <2>1. k \in TagCall
    BY <1>4 DEF TagCall, Places
  <2>2. k.op = m.op /\ k.at = "naming" /\ k.f = m.f /\ k.files = m.files
    BY <1>4 DEF TagCall
  <2>3. PlaceOK(k)
    BY <1>4, <2>2 DEF PlaceOK, InPlace
  <2> QED
    BY <1>2, <2>1, <2>3
<1>5. CASE m.op # "autotag" /\ k = [m EXCEPT !.at = "reading", !.files = {m.f}]
  <2>1. k \in TagCall
    <3>1. {m.f} \in SUBSET Files
      OBVIOUS
    <3> QED
      BY <1>5, <3>1 DEF TagCall, Places
  <2>2. k.op = m.op /\ k.at = "reading" /\ k.f = m.f /\ k.files = {m.f}
    BY <1>5 DEF TagCall
  <2>3. PlaceOK(k)
    BY <1>1, <1>5, <2>2 DEF PlaceOK, InPlace
  <2> QED
    BY <1>2, <2>1, <2>3
<1> QED
  BY <1>2, <1>3, <1>4, <1>5

LEMMA CreateTagLinkKeeps ==
  ASSUME RowsInv, SyncInv, NoneBreak, NEW c \in Calls, createTagLink(c)
  PROVE  RowsInv' /\ SyncInv'
<1>1. PICK m : m = call[c]
  OBVIOUS
<1>2. m \in TagCall /\ PlaceOK(m) /\ CallOK(m) /\ m.at = "inserting" /\ RowTypes /\ SyncTypes
  BY <1>1, Mine DEF createTagLink, At
<1>3. m.op \in Linkers /\ m.f \in files /\ m.f \in Files /\ m.e \in Known /\ (Machine(m.e) \/ <<m.e, DeskOf[m.f]>> \in vocabulary)
  BY <1>2 DEF PlaceOK, InPlace, CallOK, LinkerOK, Linkers, RowTypes
<1>4. PICK k : k = AfterLink(m, TRUE)
  OBVIOUS
<1>5. /\ k \in TagCall /\ PlaceOK(k)
      /\ \/ k = NoCall
         \/ m.op = "autotag" /\ k = [m EXCEPT !.at = "naming"]
         \/ m.op # "autotag" /\ k = [m EXCEPT !.at = "reading", !.files = {m.f}]
  BY <1>1, <1>2, <1>3, <1>4, Mine, AfterLinkIs
<1>6. /\ k.at \in {"idle", "naming", "reading"} /\ (k.at = "idle" \/ k.op = m.op)
      /\ \/ k.op = "none" /\ k.e = 0 /\ k.todo = {}
         \/ k.op = m.op /\ k.e = m.e /\ k.f = m.f /\ k.d = m.d /\ k.todo = m.todo
  <2>1. CASE k = NoCall
    BY <2>1 DEF NoCall
  <2>2. CASE k = [m EXCEPT !.at = "naming"]
    BY <1>2, <2>2 DEF TagCall
  <2>3. CASE k = [m EXCEPT !.at = "reading", !.files = {m.f}]
    BY <1>2, <2>3 DEF TagCall
  <2> QED
    BY <1>5, <2>1, <2>2, <2>3
<1>7. UNCHANGED <<nameVars, vocabulary, types, desks, files>> /\ SyncTypes' /\ entities' = entities /\ lastEntity' = lastEntity
      /\ Goto(c, k) /\ links' = links \cup {Row(m)}
  BY <1>1, <1>2, <1>4 DEF createTagLink, SyncTypes, syncVars, baseVars, nameVars
<1>8. CallOK(k)'
  BY <1>2, <1>3, <1>6, <1>7 DEF CallOK, RidsOK, LinkerOK, NamerOK, RemoverOK, TakerOK, Linkers, RowTypes
<1>9. Acts(c, m.op, k) /\ HandsOver(c, k)
  BY <1>1, <1>2, <1>5, <1>6, <1>7, GotoActs, FreeHands
<1>10. PICK r : r = Row(m)
  OBVIOUS
<1>11. r \in TagLink
  <2>1. m.e \in EntityRids /\ DeskOf[m.f] \in Desks
    BY <1>2, <1>3, KnownRids, TagsConstants
  <2> QED
    BY <1>2, <1>3, <1>10, <2>1 DEF Row, TagLink, TagCall
<1>12. r.e = m.e /\ r.f = m.f /\ r.desk = DeskOf[m.f] /\ links' = links \cup {r}
  BY <1>7, <1>10 DEF Row
<1>13. r.e \in Known /\ r.f \in files /\ r.desk = DeskOf[r.f] /\ (Machine(r.e) \/ <<r.e, r.desk>> \in vocabulary)
  BY <1>3, <1>12
<1>14. RowsInv'
  BY <1>3, <1>7, <1>8, <1>9, <1>11, <1>12, <1>13, LinkComes
<1>15. m.files = {} /\ (\A e : LooksAt(m, e) => m.op = "autotag" /\ e = m.e)
       /\ (\A f : WillRead(m, f) => m.op = "autotag" /\ f = m.f)
  BY <1>1, <1>2, <1>3, MyFiles DEF LooksAt, WillRead, Linkers
<1>16. UNCHANGED <<files, entities>> /\ UNCHANGED syncVars /\ r.region = m.region
  BY <1>10 DEF createTagLink, baseVars, nameVars, Row
<1>17. \A e \in Known' : Machine(e)' => e \in Known /\ Machine(e) /\ entities'[e].name = entities[e].name
  BY <1>16 DEF Machine, Known
<1>18. \A e : LinksOf(e)' = {} => LinksOf(e) = {} /\ e # m.e
  BY <1>12 DEF LinksOf
<1>19. m.op = "autotag" => k.op = "autotag" /\ k.at = "naming" /\ k.f = m.f
  BY <1>2, <1>4 DEF AfterLink, TagCall
<1>20. (k.at = "reading" => k.files = {m.f}) /\ (k.at # "reading" => k.files = {})
  <2>1. CASE k = NoCall
    BY <2>1 DEF NoCall
  <2>2. CASE k = [m EXCEPT !.at = "naming"]
    BY <1>2, <1>15, <2>2 DEF TagCall
  <2>3. CASE k = [m EXCEPT !.at = "reading", !.files = {m.f}]
    BY <1>2, <2>3 DEF TagCall
  <2> QED
    BY <1>5, <2>1, <2>2, <2>3
<1>21. m.op # "autotag" /\ ~m.region => k.at = "reading"
  BY <1>2, <1>4 DEF AfterLink, TagCall
<1>23. \A f \in files' : WillRead(k, f) \/ (FieldsOf(f)' = FieldsOf(f) /\ ~WillRead(m, f))
  <2>1. ASSUME NEW f, f # m.f \/ m.region PROVE FieldsOf(f)' = FieldsOf(f)
    <3>1. {l \in links' : l.f = f /\ ~l.region} = {l \in links : l.f = f /\ ~l.region}
      BY <1>12, <1>16, <2>1
    <3>2. Known' = Known
      BY <1>16 DEF Known
    <3> QED
      BY <1>16, <3>1, <3>2, FieldsFrom
  <2>2. m.op = "autotag" \/ ~m.region => WillRead(k, m.f)
    BY <1>19, <1>20, <1>21 DEF WillRead
  <2> QED
    BY <1>15, <2>1, <2>2
<1>24. FilesOK(k)'
  BY <1>3, <1>6, <1>20 DEF FilesOK, Linkers
<1>25. m.at \notin {"finding", "making", "sending"} /\ k.at \notin {"finding", "making", "sending"}
  BY <1>2, <1>6
<1>26. \A e \in Known' : Machine(e)' /\ LinksOf(e)' = {} /\ (LinksOf(e) # {} \/ LooksAt(m, e)) => LooksAt(k, e)
  BY <1>15, <1>18
<1>27. SyncInv'
  BY <1>1, <1>3, <1>9, <1>16, <1>17, <1>23, <1>24, <1>25, <1>26, SyncFollows
<1> QED
  BY <1>14, <1>27

\* What is read of a file.
LEMMA FieldsTyped ==
  ASSUME RowTypes, NEW f
  PROVE  FieldsOf(f) \in SUBSET Field
<1>1. \A e \in Known : e \in EntityRids /\ entities[e].name \in Names
  BY KnownRids DEF RowTypes, Entity
<1>2. ASSUME NEW x \in FieldsOf(f) PROVE x \in Field
  <2>1. PICK e \in Known : x = [e |-> e, name |-> entities[e].name,
          by |-> IF \E l \in LinksOf(e) : l.f = f /\ ~l.region /\ l.by = "user" THEN "user" ELSE "machine"]
    BY DEF FieldsOf
  <2>2. PICK b \in {"user", "machine"} : x = [e |-> e, name |-> entities[e].name, by |-> b]
    BY <2>1
  <2> QED
    BY <1>1, <2>2 DEF Field
<1> QED
  BY <1>2

\* Call c reads the fields of file f.
LEMMA FieldsRead ==
  ASSUME RowsInv, NoneBreak, IndexInv, NEW c \in Calls, NEW op, NEW k, NEW f, Acts(c, op, k),
         UNCHANGED <<entities, links, files, index>>, FilesOK(k)',
         crossed' = crossed \cup {g \in {f} : \E o \in Calls : Sends(o, g)},
         call[c].at # "sending", k.at = "sending", k.f = f, k.fields = FieldsOf(f),
         \A g : g # f /\ WillRead(call[c], g) => WillRead(k, g)
  PROVE  IndexInv'
<1>1. /\ call'[c] = k /\ \A o \in Calls \ {c} : call'[o] = call[o]
  BY ActsShape
<1>2. (\A o \in Calls : FilesOK(call[o]))'
  BY ListsFollow
<1>3. ~(\E g : Sends(c, g)) /\ \A g : Sends(c, g)' <=> g = f
  BY <1>1 DEF Sends, At
<1>4. \A o \in Calls \ {c} : \A g : Sends(o, g)' <=> Sends(o, g)
  BY <1>1 DEF Sends, At
<1>5. \A g : FieldsOf(g)' = FieldsOf(g)
  BY FieldsSame
<1>6. ASSUME NEW g \in files, g \notin crossed'
      PROVE  /\ \A a, o \in Calls : Sends(a, g)' /\ Sends(o, g)' => a = o
             /\ \/ \E o \in Calls : WillRead(call'[o], g)
                \/ \E o \in Calls : Sends(o, g)' /\ call'[o].fields = FieldsOf(g)'
                \/ index[g] = FieldsOf(g)' /\ \A o \in Calls : ~Sends(o, g)'
  <2>1. g \notin crossed /\ (g = f => ~\E o \in Calls : Sends(o, g))
    BY <1>6
  <2>2. /\ \A a, o \in Calls : Sends(a, g) /\ Sends(o, g) => a = o
        /\ \/ \E o \in Calls : WillRead(call[o], g)
           \/ \E o \in Calls : Sends(o, g) /\ call[o].fields = FieldsOf(g)
           \/ index[g] = FieldsOf(g) /\ \A o \in Calls : ~Sends(o, g)
    BY <2>1 DEF IndexInv
  <2>3. CASE g = f
    BY <1>1, <1>3, <1>4, <1>5, <2>1, <2>3
  <2>4. CASE g # f
    <3>1. \A o \in Calls : Sends(o, g)' <=> Sends(o, g)
      BY <1>3, <1>4, <2>4
    <3>2. ASSUME NEW o \in Calls, WillRead(call[o], g) PROVE WillRead(call'[o], g)
      BY <1>1, <2>4, <3>2
    <3>3. ASSUME NEW o \in Calls, Sends(o, g), call[o].fields = FieldsOf(g)
          PROVE  call'[o].fields = FieldsOf(g)'
      BY <1>1, <1>3, <1>5, <3>3
    <3> QED
      BY <1>5, <2>2, <3>1, <3>2, <3>3
  <2> QED
    BY <2>3, <2>4
<1>7. (\A g \in files \ crossed :
         /\ \A a, o \in Calls : Sends(a, g) /\ Sends(o, g) => a = o
         /\ \/ \E o \in Calls : WillRead(call[o], g)
            \/ \E o \in Calls : Sends(o, g) /\ call[o].fields = FieldsOf(g)
            \/ index[g] = FieldsOf(g) /\ \A o \in Calls : ~Sends(o, g))'
  BY <1>6 DEF WillRead
<1> QED
  BY <1>2, <1>7 DEF IndexInv

LEMMA ReindexReadKeeps ==
  ASSUME RowsInv, SyncInv, NoneBreak, NEW c \in Calls, reindexRead(c)
  PROVE  RowsInv' /\ SyncInv'
<1>1. PICK m : m = call[c]
  OBVIOUS
<1>2. m \in TagCall /\ PlaceOK(m) /\ CallOK(m) /\ m.at = "reading" /\ RowTypes /\ SyncTypes /\ m.op # "none"
  BY <1>1, Mine DEF reindexRead, At, PlaceOK, InPlace
<1>3. UNCHANGED <<nameVars, links, vocabulary, baseVars>> /\ index' = index /\ creating' = creating
  BY DEF reindexRead
<1>4. SyncTypes'
  BY <1>1, <1>2 DEF reindexRead, SyncTypes, TagCall
<1>5. \A k : HandsOver(c, k)
  BY <1>1, <1>2, FreeHands
<1>6. CASE Goto(c, AfterReindex(m)) /\ m.op # "unlink" /\ m.files = {} /\ crossed' = crossed
  <2>1. Goto(c, NoCall) /\ NoCall.at = "idle"
    BY <1>6 DEF AfterReindex, NoCall
  <2>2. UNCHANGED syncVars
    BY <1>3, <1>6 DEF syncVars
  <2>3. (\A e : ~LooksAt(m, e)) /\ \A f : ~WillRead(m, f)
    BY <1>2, <1>6 DEF LooksAt, WillRead
  <2> QED
    BY <1>1, <1>2, <1>3, <1>5, <2>1, <2>2, <2>3, Mine, EndsOK, MovedOn
<1>7. CASE Goto(c, AfterReindex(m)) /\ m.op = "unlink" /\ m.files = {} /\ crossed' = crossed
  <2>1. PICK k : k = [m EXCEPT !.at = "counting"]
    OBVIOUS
  <2>2. k \in TagCall
    BY <1>2, <2>1 DEF TagCall, Places
  <2>3. k.op = "unlink" /\ k.at = "counting" /\ k.e = m.e /\ k.todo = m.todo /\ k.files = {}
    BY <1>2, <1>7, <2>1 DEF TagCall
  <2>4. PlaceOK(k)
    BY <2>3 DEF PlaceOK, InPlace, Linkers
  <2>5. CallOK(k)
    BY <1>2, <2>3 DEF CallOK, RidsOK, LinkerOK, NamerOK, RemoverOK, TakerOK, Linkers
  <2>6. Goto(c, k)
    BY <1>7, <2>1 DEF AfterReindex
  <2>7. UNCHANGED syncVars /\ FilesOK(k)
    BY <1>3, <1>7, <2>3 DEF syncVars, FilesOK
  <2>8. (\A e : LooksAt(m, e) => LooksAt(k, e)) /\ \A f : ~WillRead(m, f)
    BY <1>2, <1>7, <2>3 DEF LooksAt, WillRead
  <2> QED
    BY <1>1, <1>2, <1>3, <1>5, <1>7, <2>2, <2>3, <2>4, <2>5, <2>6, <2>7, <2>8, MovedOn
<1>8. ASSUME NEW f \in m.files, Goto(c, [m EXCEPT !.at = "sending", !.f = f, !.fields = FieldsOf(f)]),
             crossed' = crossed \cup {g \in {f} : \E o \in Calls : At(o, "sending") /\ call[o].f = g}
      PROVE  RowsInv' /\ SyncInv'
  <2>1. PICK k : k = [m EXCEPT !.at = "sending", !.f = f, !.fields = FieldsOf(f)]
    OBVIOUS
  <2>2. k \in TagCall
    <3>1. FieldsOf(f) \in SUBSET Field /\ f \in Files
      BY <1>2, FieldsTyped DEF TagCall
    <3> QED
      BY <1>2, <2>1, <3>1 DEF TagCall, Places
  <2>3. /\ k.op = m.op /\ k.at = "sending" /\ k.e = m.e /\ k.f = f /\ k.d = m.d /\ k.todo = m.todo /\ k.files = m.files
        /\ f \in Files /\ k.fields = FieldsOf(f)
    BY <1>2, <2>1 DEF TagCall
  <2>4. m.op \in Linkers => f = m.f
    BY <1>2 DEF PlaceOK
  <2>5. PlaceOK(k)
    BY <1>2, <2>3, <2>4 DEF PlaceOK, InPlace
  <2>6. LinkerOK(k)
    BY <1>2, <2>3, <2>4 DEF CallOK, LinkerOK, Linkers
  <2>7. RidsOK(k) /\ NamerOK(k) /\ TakerOK(k) /\ RemoverOK(k)
    BY <1>2, <2>3 DEF PlaceOK, InPlace, CallOK, RidsOK, NamerOK, TakerOK, RemoverOK
  <2>8. CallOK(k)
    BY <2>6, <2>7 DEF CallOK
  <2>9. RowsInv'
    BY <1>1, <1>2, <1>3, <1>4, <1>5, <1>8, <2>1, <2>2, <2>3, <2>5, <2>8, Moved
  <2>10. Acts(c, m.op, k) /\ Goes(c, k) /\ UsedInv /\ MachineInv /\ IndexInv
    BY <1>1, <1>2, <1>8, <2>1, <2>2, <2>3, <2>5, GotoActs, ActsGoes DEF SyncInv
  <2>11. UNCHANGED <<entities, links, files, index>>
    BY <1>3 DEF nameVars, baseVars
  <2>12. FilesOK(k)'
    <3>1. FilesOK(m) /\ m.op # "deleteFile"
      BY <1>1, <1>2, MyFiles DEF PlaceOK, InPlace
    <3>2. FilesOK(k)
      BY <2>3, <3>1 DEF FilesOK
    <3> QED
      BY <2>11, <3>2, FilesSame
  <2>13. \A e : LooksAt(m, e) => LooksAt(k, e)
    BY <1>2, <2>3 DEF LooksAt
  <2>14. \A e \in Known' : Machine(e)' => e \in Known /\ Machine(e) /\ entities'[e].name = entities[e].name
    BY <2>11 DEF Machine, Known
  <2>15. \A e : LinksOf(e)' = LinksOf(e)
    BY <2>11 DEF LinksOf
  <2>16. UsedInv'
    BY <1>1, <2>10, <2>13, <2>14, <2>15, UsedFollows
  <2>17. MachineInv'
    BY <1>1, <1>2, <1>3, <2>3, <2>10, <2>14, MachinesFollow
  <2>18. \A g : g # f /\ WillRead(m, g) => WillRead(k, g)
    BY <1>2, <2>3 DEF WillRead
  <2>19. crossed' = crossed \cup {g \in {f} : \E o \in Calls : Sends(o, g)}
    BY <1>8 DEF Sends
  <2>20. IndexInv'
    BY <1>1, <1>2, <2>3, <2>10, <2>11, <2>12, <2>18, <2>19, FieldsRead
  <2> QED
    BY <2>9, <2>16, <2>17, <2>20 DEF SyncInv
<1>9. \/ Goto(c, AfterReindex(m)) /\ m.files = {} /\ crossed' = crossed
      \/ \E f \in m.files :
           /\ Goto(c, [m EXCEPT !.at = "sending", !.f = f, !.fields = FieldsOf(f)])
           /\ crossed' = crossed \cup {g \in {f} : \E o \in Calls : At(o, "sending") /\ call[o].f = g}
  BY <1>1 DEF reindexRead
<1> QED
  BY <1>6, <1>7, <1>8, <1>9

\* Call c sends the fields it read.
LEMMA FieldsSent ==
  ASSUME RowsInv, NoneBreak, IndexInv, NEW c \in Calls, NEW op, NEW k, NEW f, NEW fields, Acts(c, op, k),
         UNCHANGED <<entities, links, files, crossed>>, FilesOK(k)', Sends(c, f), fields = call[c].fields,
         k.at # "sending", f \in files => index'[f] = fields, \A g \in files : g # f => index'[g] = index[g],
         \A g : WillRead(call[c], g) => g # f /\ WillRead(k, g)
  PROVE  IndexInv'
<1>1. /\ call'[c] = k /\ \A o \in Calls \ {c} : call'[o] = call[o]
  BY ActsShape
<1>2. (\A o \in Calls : FilesOK(call[o]))'
  BY ListsFollow
<1>3. (\A g : Sends(c, g) <=> g = f) /\ \A g : ~Sends(c, g)'
  BY <1>1 DEF Sends, At
<1>4. \A o \in Calls \ {c} : \A g : Sends(o, g)' <=> Sends(o, g)
  BY <1>1 DEF Sends, At
<1>5. \A g : FieldsOf(g)' = FieldsOf(g)
  BY FieldsSame
<1>6. ASSUME NEW g \in files, g \notin crossed
      PROVE  /\ \A a, o \in Calls : Sends(a, g)' /\ Sends(o, g)' => a = o
             /\ \/ \E o \in Calls : WillRead(call'[o], g)
                \/ \E o \in Calls : Sends(o, g)' /\ call'[o].fields = FieldsOf(g)'
                \/ index'[g] = FieldsOf(g)' /\ \A o \in Calls : ~Sends(o, g)'
  <2>1. /\ \A a, o \in Calls : Sends(a, g) /\ Sends(o, g) => a = o
        /\ \/ \E o \in Calls : WillRead(call[o], g)
           \/ \E o \in Calls : Sends(o, g) /\ call[o].fields = FieldsOf(g)
           \/ index[g] = FieldsOf(g) /\ \A o \in Calls : ~Sends(o, g)
    BY <1>6 DEF IndexInv
  <2>2. \A o \in Calls : Sends(o, g)' => Sends(o, g)
    BY <1>3, <1>4
  <2>3. CASE \E o \in Calls : WillRead(call[o], g)
    <3>1. PICK o \in Calls : WillRead(call[o], g)
      BY <2>3
    <3>2. WillRead(call'[o], g)
      BY <1>1, <3>1
    <3> QED
      BY <2>1, <2>2, <3>2
  <2>4. CASE g = f /\ ~\E o \in Calls : WillRead(call[o], g)
    <3>1. \A o \in Calls : Sends(o, g) => o = c
      BY <1>3, <2>1, <2>4
    <3>2. call[c].fields = FieldsOf(g)
      BY <1>3, <2>1, <2>4, <3>1
    <3> QED
      BY <1>3, <1>4, <1>5, <2>1, <2>2, <2>4, <3>1, <3>2
  <2>5. CASE g # f /\ ~\E o \in Calls : WillRead(call[o], g)
    <3>1. \A o \in Calls : Sends(o, g)' <=> Sends(o, g)
      BY <1>3, <1>4, <2>5
    <3>2. ASSUME NEW o \in Calls, Sends(o, g), call[o].fields = FieldsOf(g)
          PROVE  call'[o].fields = FieldsOf(g)'
      BY <1>1, <1>3, <1>5, <2>5, <3>2
    <3> QED
      BY <1>5, <2>1, <2>5, <3>1, <3>2
  <2> QED
    BY <2>3, <2>4, <2>5
<1>7. (\A g \in files \ crossed :
         /\ \A a, o \in Calls : Sends(a, g) /\ Sends(o, g) => a = o
         /\ \/ \E o \in Calls : WillRead(call[o], g)
            \/ \E o \in Calls : Sends(o, g) /\ call[o].fields = FieldsOf(g)
            \/ index[g] = FieldsOf(g) /\ \A o \in Calls : ~Sends(o, g))'
  BY <1>6 DEF WillRead
<1> QED
  BY <1>2, <1>7 DEF IndexInv

LEMMA ReindexSendKeeps ==
  ASSUME RowsInv, SyncInv, NoneBreak, NEW c \in Calls, reindexSend(c)
  PROVE  RowsInv' /\ SyncInv'
<1>1. PICK m : m = call[c]
  OBVIOUS
<1>2. m \in TagCall /\ PlaceOK(m) /\ CallOK(m) /\ m.at = "sending" /\ RowTypes /\ SyncTypes /\ m.op # "none"
  BY <1>1, Mine DEF reindexSend, At, PlaceOK, InPlace
<1>3. UNCHANGED <<nameVars, links, vocabulary, baseVars>>
  BY DEF reindexSend
<1>4. SyncTypes'
  <2>1. index' = [index EXCEPT ![m.f] = m.fields] \/ index' = index
    BY <1>1 DEF reindexSend
  <2>2. index' \in [Files -> SUBSET Field]
    BY <1>2, <2>1 DEF SyncTypes, TagCall
  <2> QED
    BY <1>2, <2>2 DEF reindexSend, SyncTypes
<1>5. PICK k : k = [m EXCEPT !.at = "reading", !.files = m.files \ {m.f}, !.fields = {}]
  OBVIOUS
<1>6. k \in TagCall
  BY <1>2, <1>5 DEF TagCall, Places
<1>7. /\ k.op = m.op /\ k.at = "reading" /\ k.e = m.e /\ k.f = m.f /\ k.d = m.d /\ k.todo = m.todo
      /\ k.files = m.files \ {m.f}
  BY <1>2, <1>5 DEF TagCall
<1>8. PlaceOK(k)
  BY <1>2, <1>7 DEF PlaceOK, InPlace
<1>9. RidsOK(k) /\ LinkerOK(k) /\ NamerOK(k) /\ TakerOK(k) /\ RemoverOK(k)
  BY <1>2, <1>7 DEF PlaceOK, InPlace, CallOK, RidsOK, LinkerOK, NamerOK, TakerOK, RemoverOK
<1>10. CallOK(k) /\ Goto(c, k) /\ HandsOver(c, k)
  BY <1>1, <1>2, <1>5, <1>9, FreeHands DEF CallOK, reindexSend
<1>11. RowsInv'
  BY <1>1, <1>2, <1>3, <1>4, <1>6, <1>7, <1>8, <1>10, Moved
<1>12. Acts(c, m.op, k) /\ Goes(c, k) /\ UsedInv /\ MachineInv /\ IndexInv
  BY <1>1, <1>2, <1>6, <1>7, <1>8, <1>10, GotoActs, ActsGoes DEF SyncInv
<1>13. UNCHANGED <<entities, links, files, crossed>> /\ creating' = creating
  BY DEF reindexSend, nameVars, baseVars
<1>14. FilesOK(k)'
  <2>1. FilesOK(m) /\ m.op # "deleteFile"
    BY <1>1, <1>2, MyFiles DEF PlaceOK, InPlace
  <2>2. FilesOK(k)
    BY <1>7, <2>1 DEF FilesOK
  <2> QED
    BY <1>13, <2>2, FilesSame
<1>15. \A e : LooksAt(m, e) => LooksAt(k, e)
  BY <1>2, <1>7 DEF LooksAt
<1>16. \A e \in Known' : Machine(e)' => e \in Known /\ Machine(e) /\ entities'[e].name = entities[e].name
  BY <1>13 DEF Machine, Known
<1>17. \A e : LinksOf(e)' = LinksOf(e)
  BY <1>13 DEF LinksOf
<1>18. UsedInv'
  BY <1>1, <1>12, <1>15, <1>16, <1>17, UsedFollows
<1>19. MachineInv'
  BY <1>1, <1>2, <1>7, <1>12, <1>13, <1>16, MachinesFollow
<1>20. PICK f : f = m.f
  OBVIOUS
<1>21. \A g : WillRead(m, g) => g # f /\ WillRead(k, g)
  BY <1>2, <1>7, <1>20 DEF WillRead
<1>22. (f \in files => index'[f] = m.fields) /\ \A g \in files : g # f => index'[g] = index[g]
  <2>1. index' = IF f \in files THEN [index EXCEPT ![f] = m.fields] ELSE index
    BY <1>1, <1>20 DEF reindexSend, Owned
  <2> QED
    BY <1>2, <2>1 DEF SyncTypes, RowTypes
<1>23. Sends(c, f) /\ m.fields = call[c].fields
  BY <1>1, <1>2, <1>20 DEF Sends, At
<1>24. IndexInv'
  BY <1>1, <1>7, <1>12, <1>13, <1>14, <1>21, <1>22, <1>23, FieldsSent
<1> QED
  BY <1>11, <1>18, <1>19, <1>24 DEF SyncInv

LEMMA PruneCountKeeps ==
  ASSUME RowsInv, SyncInv, NoneBreak, NEW c \in Calls, pruneCount(c)
  PROVE  RowsInv' /\ SyncInv'
<1>1. PICK m : m = call[c]
  OBVIOUS
<1>2. m \in TagCall /\ PlaceOK(m) /\ CallOK(m) /\ m.at = "counting" /\ RowTypes /\ SyncTypes
  BY <1>1, Mine DEF pruneCount, At
<1>3. m.op \in {"unlink", "deleteFile", "removeRun", "deleteDesk"} /\ m.todo \subseteq EntityRids /\ m.todo \subseteq 1..lastEntity
  BY <1>2 DEF PlaceOK, InPlace, CallOK, RidsOK, TagCall
<1>4. UNCHANGED <<nameVars, links, vocabulary, baseVars, syncVars>> /\ m.files = {} /\ FilesOK(m)
  BY <1>1, <1>2, <1>3, MyFiles DEF pruneCount
<1>5. CASE Goto(c, AfterPrune(m)) /\ m.todo = {} /\ m.op \in {"unlink", "deleteFile"}
  <2>1. Goto(c, NoCall) /\ NoCall.at = "idle"
    BY <1>5 DEF AfterPrune, NoCall
  <2>2. HandsOver(c, NoCall)
    BY <1>1, <1>2, <1>5 DEF HandsOver, At
  <2>3. (\A e : ~LooksAt(m, e)) /\ \A f : ~WillRead(m, f)
    BY <1>2, <1>4, <1>5 DEF LooksAt, WillRead
  <2> QED
    BY <1>1, <1>2, <1>4, <2>1, <2>2, <2>3, Mine, EndsOK, MovedOn
<1>6. CASE Goto(c, AfterPrune(m)) /\ m.todo = {} /\ m.op = "removeRun"
  <2>1. PICK k : k = [m EXCEPT !.at = "reading", !.files = {m.f}]
    OBVIOUS
  <2>2. k \in TagCall
    <3>1. {m.f} \in SUBSET Files
      BY <1>2, <1>6 DEF PlaceOK
    <3> QED
      BY <1>2, <2>1, <3>1 DEF TagCall, Places
  <2>3. k.op = "removeRun" /\ k.at = "reading" /\ k.e = m.e /\ k.f = m.f /\ k.todo = m.todo /\ k.files = {m.f}
    BY <1>2, <1>6, <2>1 DEF TagCall
  <2>4. PlaceOK(k)
    BY <1>2, <1>6, <2>3 DEF PlaceOK, InPlace, Linkers
  <2>5. CallOK(k)
    BY <1>2, <2>3 DEF CallOK, RidsOK, LinkerOK, NamerOK, RemoverOK, TakerOK, Linkers
  <2>6. Goto(c, k) /\ HandsOver(c, k)
    BY <1>1, <1>2, <1>6, <2>1 DEF AfterPrune, HandsOver, At
  <2>7. (\A e : ~LooksAt(m, e)) /\ (\A f : WillRead(m, f) => WillRead(k, f)) /\ FilesOK(k)
    BY <1>2, <1>4, <1>6, <2>3 DEF LooksAt, WillRead, FilesOK
  <2> QED
    BY <1>1, <1>2, <1>4, <1>6, <2>2, <2>3, <2>4, <2>5, <2>6, <2>7, MovedOn
<1>7. CASE Goto(c, AfterPrune(m)) /\ m.todo = {} /\ m.op = "deleteDesk"
  <2>1. PICK k : k = [m EXCEPT !.at = "leaving"]
    OBVIOUS
  <2>2. k \in TagCall
    BY <1>2, <2>1 DEF TagCall, Places
  <2>3. k.op = "deleteDesk" /\ k.at = "leaving" /\ k.e = m.e /\ k.d = m.d /\ k.todo = m.todo /\ k.files = m.files
    BY <1>2, <1>7, <2>1 DEF TagCall
  <2>4. PlaceOK(k)
    BY <2>3 DEF PlaceOK, InPlace, Linkers
  <2>5. CallOK(k)
    BY <1>2, <1>7, <2>3 DEF CallOK, RidsOK, LinkerOK, NamerOK, RemoverOK, TakerOK, Linkers
  <2>6. Goto(c, k) /\ HandsOver(c, k)
    BY <1>1, <1>2, <1>7, <2>1, <2>3 DEF AfterPrune, HandsOver, At
  <2>7. (\A e : ~LooksAt(m, e)) /\ (\A f : ~WillRead(m, f)) /\ FilesOK(k)
    BY <1>2, <1>4, <1>7, <2>3 DEF LooksAt, WillRead, FilesOK
  <2> QED
    BY <1>1, <1>2, <1>4, <1>7, <2>2, <2>3, <2>4, <2>5, <2>6, <2>7, MovedOn
<1>8. ASSUME NEW e \in m.todo, NEW at \in {"pruning", "counting"},
             at = "pruning" <=> e \in Known /\ Machine(e) /\ LinksOf(e) = {},
             Goto(c, [m EXCEPT !.todo = m.todo \ {e}, !.e = e, !.at = at])
      PROVE  RowsInv' /\ SyncInv'
  <2>1. PICK k : k = [m EXCEPT !.todo = m.todo \ {e}, !.e = e, !.at = at]
    OBVIOUS
  <2>2. e \in 0..MaxEntities /\ e <= lastEntity
    BY <1>2, <1>3, KnownRids DEF RowTypes
  <2>3. k \in TagCall
    BY <1>2, <2>1, <2>2 DEF TagCall, Places
  <2>4. /\ k.op = m.op /\ k.at = at /\ k.e = e /\ k.f = m.f /\ k.d = m.d /\ k.todo = m.todo \ {e}
        /\ k.files = m.files
    BY <1>2, <2>1, <2>2 DEF TagCall
  <2>5. PlaceOK(k)
    BY <1>2, <1>3, <2>4 DEF PlaceOK, InPlace, Linkers
  <2>6. RidsOK(k) /\ LinkerOK(k) /\ NamerOK(k) /\ TakerOK(k)
    BY <1>3, <2>2, <2>4 DEF RidsOK, LinkerOK, NamerOK, TakerOK, Linkers
  <2>7. RemoverOK(k)
    BY <1>2, <1>8, <2>4 DEF CallOK, RemoverOK
  <2>8. Goto(c, k) /\ HandsOver(c, k) /\ CallOK(k)
    BY <1>1, <1>2, <1>8, <2>1, <2>4, <2>6, <2>7 DEF HandsOver, At, CallOK
  <2>9. FilesOK(k) /\ \A f : WillRead(m, f) => WillRead(k, f)
    BY <1>2, <1>4, <1>8, <2>4 DEF WillRead, FilesOK
  <2>10. \A x \in Known : Machine(x) /\ LinksOf(x) = {} /\ LooksAt(m, x) => LooksAt(k, x)
    BY <1>2, <1>3, <1>8, <2>4 DEF LooksAt
  <2> QED
    BY <1>1, <1>2, <1>4, <1>8, <2>3, <2>4, <2>5, <2>8, <2>9, <2>10, MovedOn
<1>9. \/ Goto(c, AfterPrune(m)) /\ m.todo = {}
      \/ \E e \in m.todo : \E at \in {"pruning", "counting"} :
           /\ at = "pruning" <=> e \in Known /\ Machine(e) /\ LinksOf(e) = {}
           /\ Goto(c, [m EXCEPT !.todo = m.todo \ {e}, !.e = e, !.at = at])
  BY <1>1 DEF pruneCount
<1> QED
  BY <1>3, <1>5, <1>6, <1>7, <1>8, <1>9

LEMMA PruneDeleteKeeps ==
  ASSUME RowsInv, SyncInv, NoneBreak, NEW c \in Calls, pruneDelete(c)
  PROVE  RowsInv' /\ SyncInv'
<1>1. PICK m : m = call[c]
  OBVIOUS
<1>2. m \in TagCall /\ PlaceOK(m) /\ CallOK(m) /\ m.at = "pruning" /\ RowTypes /\ SyncTypes
  BY <1>1, Mine DEF pruneDelete, At
<1>3. m.op \in {"unlink", "deleteFile", "removeRun", "deleteDesk"}
  BY <1>2 DEF PlaceOK, InPlace
<1>4. /\ SyncTypes' /\ UNCHANGED <<lastEntity, links, vocabulary, types, desks, files>>
      /\ entities' = Without(m.e)
  BY <1>1, <1>2 DEF pruneDelete, SyncTypes, syncVars, baseVars
<1>5. PICK k : k = [m EXCEPT !.at = "counting"]
  OBVIOUS
<1>6. k \in TagCall
  BY <1>2, <1>5 DEF TagCall, Places
<1>7. /\ k.op = m.op /\ k.at = "counting" /\ k.e = m.e /\ k.f = m.f /\ k.d = m.d /\ k.todo = m.todo
      /\ k.files = m.files
  BY <1>2, <1>5 DEF TagCall
<1>8. PlaceOK(k)
  BY <1>2, <1>3, <1>7 DEF PlaceOK, InPlace, Linkers
<1>9. CallOK(k)'
  BY <1>2, <1>3, <1>4, <1>7 DEF CallOK, RidsOK, LinkerOK, NamerOK, RemoverOK, TakerOK, Linkers
<1>10. Acts(c, m.op, k) /\ HandsOver(c, k)
  <2>1. Goto(c, k)
    BY <1>1, <1>5 DEF pruneDelete
  <2>2. HandsOver(c, k)
    BY <1>1, <1>2, <1>7 DEF HandsOver, At
  <2> QED
    BY <1>1, <1>2, <1>6, <1>7, <1>8, <2>1, <2>2, GotoActs
<1>11. m.op \in Removers /\ (m.e \in Known => LinksOf(m.e) = {} /\ Machine(m.e))
  BY <1>2, <1>3 DEF Removers, CallOK, RemoverOK
<1>12. RowsInv'
  BY <1>4, <1>9, <1>10, <1>11, TagGoes
<1>13. UNCHANGED syncVars /\ files' = files /\ links' = links /\ m.files = {} /\ FilesOK(m)
  BY <1>1, <1>2, <1>3, MyFiles DEF pruneDelete, baseVars
<1>14. Known' = Known \ {m.e} /\ \A e \in Known' : entities'[e] = entities[e]
  BY <1>4 DEF Without, Known
<1>15. \A e \in Known' : Machine(e)' => e \in Known /\ Machine(e) /\ entities'[e].name = entities[e].name
  BY <1>14 DEF Machine
<1>16. \A e \in Known' : Machine(e)' /\ LinksOf(e)' = {} /\ (LinksOf(e) # {} \/ LooksAt(m, e)) => LooksAt(k, e)
  BY <1>2, <1>3, <1>7, <1>13, <1>14 DEF LooksAt, LinksOf
<1>17. \A f : FieldsOf(f)' = FieldsOf(f)
  BY <1>11, <1>13, <1>14, FieldsFrom DEF LinksOf
<1>18. FilesOK(k)' /\ \A f : WillRead(m, f) => WillRead(k, f)
  BY <1>2, <1>3, <1>7, <1>13 DEF FilesOK, WillRead
<1>19. \A f \in files' : WillRead(k, f) \/ (FieldsOf(f)' = FieldsOf(f) /\ ~WillRead(m, f))
  BY <1>17, <1>18
<1>20. SyncInv'
  BY <1>1, <1>2, <1>7, <1>10, <1>13, <1>15, <1>16, <1>18, <1>19, SyncFollows
<1> QED
  BY <1>12, <1>20

\* Call c is the first that asks for its key.
LEMMA FindsNext ==
  ASSUME MachineInv, NEW c \in Calls, NEW k, Goes(c, k), UNCHANGED <<entities>>,
         call[c].at \notin {"finding", "making"}, k.at = "finding",
         <<k.d, k.n>> \notin creating, creating' = creating \cup {<<k.d, k.n>>}
  PROVE  MachineInv'
<1>1. /\ call'[c] = k /\ \A o \in Calls \ {c} : call'[o] = call[o]
  BY DEF Goes
<1>2. Finders' = Finders \cup {c} /\ c \notin Finders /\ \A o \in Finders : call'[o] = call[o]
  BY <1>1 DEF Finders
<1>3. (\A o \in Finders : <<call[o].d, call[o].n>> \in creating)'
  BY <1>1, <1>2 DEF MachineInv
<1>4. (\A a, o \in Finders : call[a].d = call[o].d /\ call[a].n = call[o].n => a = o)'
  BY <1>1, <1>2 DEF MachineInv
<1>5. \A n : Making(n)' = Making(n) /\ Machines(n)' = Machines(n)
  BY <1>1 DEF Making, Machines, Known, Machine, At
<1>6. (\A n \in Names : Cardinality(Machines(n)) + Cardinality(Making(n)) <= Cardinality(Desks))'
  BY <1>5 DEF MachineInv
<1> QED
  BY <1>3, <1>4, <1>6 DEF MachineInv

LEMMA AutotagNextKeeps ==
  ASSUME RowsInv, SyncInv, NoneBreak, NEW c \in Calls, autotagNext(c)
  PROVE  RowsInv' /\ SyncInv'
<1>1. PICK m : m = call[c]
  OBVIOUS
<1>2. m \in TagCall /\ PlaceOK(m) /\ CallOK(m) /\ m.at = "naming" /\ RowTypes /\ SyncTypes
  BY <1>1, Mine DEF autotagNext, At
<1>3. m.op = "autotag" /\ m.f \in files /\ m.f \in Files /\ m.d = DeskOf[m.f] /\ m.d \in Desks /\ m.names \subseteq Names
      /\ m.files = {}
  BY <1>1, <1>2, MyFiles, TagsConstants DEF PlaceOK, InPlace, CallOK, LinkerOK, Linkers, RowTypes, TagCall
<1>4. UNCHANGED <<nameVars, links, vocabulary, baseVars>> /\ index' = index /\ crossed' = crossed
  BY DEF autotagNext
<1>5. SyncTypes'
  <2>1. creating' = creating \/ \E n \in Names : creating' = creating \cup {<<m.d, n>>}
    BY <1>1, <1>3 DEF autotagNext
  <2>2. index' = index /\ crossed' = crossed
    BY DEF autotagNext
  <2>3. \A n \in Names : <<m.d, n>> \in (Desks \cup {NoDesk}) \X Names
    BY <1>3
  <2>4. creating' \subseteq (Desks \cup {NoDesk}) \X Names
    BY <1>2, <2>1, <2>3 DEF SyncTypes
  <2> QED
    BY <1>2, <2>2, <2>4 DEF SyncTypes
<1>6. \A k : HandsOver(c, k)
  BY <1>1, <1>2, FreeHands
<1>7. ASSUME Goto(c, [m EXCEPT !.at = "reading", !.files = {m.f}]), creating' = creating
      PROVE  RowsInv' /\ SyncInv'
  <2>1. PICK k : k = [m EXCEPT !.at = "reading", !.files = {m.f}]
    OBVIOUS
  <2>2. k \in TagCall
    <3>1. {m.f} \in SUBSET Files
      BY <1>3
    <3> QED
      BY <1>2, <2>1, <3>1 DEF TagCall, Places
  <2>3. /\ k.op = "autotag" /\ k.at = "reading" /\ k.e = m.e /\ k.f = m.f /\ k.d = m.d /\ k.todo = m.todo
        /\ k.files = {m.f}
    BY <1>2, <1>3, <2>1 DEF TagCall
  <2>4. PlaceOK(k)
    BY <2>3 DEF PlaceOK, InPlace
  <2>5. CallOK(k)
    BY <1>2, <1>3, <2>3 DEF CallOK, RidsOK, LinkerOK, NamerOK, RemoverOK, TakerOK
  <2>6. UNCHANGED syncVars /\ FilesOK(k)
    BY <1>4, <1>7, <2>3 DEF syncVars, FilesOK
  <2>7. (\A e : ~LooksAt(m, e)) /\ \A f : WillRead(m, f) => WillRead(k, f)
    BY <1>2, <1>3, <2>3 DEF LooksAt, WillRead
  <2> QED
    BY <1>1, <1>2, <1>3, <1>4, <1>6, <1>7, <2>1, <2>2, <2>3, <2>4, <2>5, <2>6, <2>7, MovedOn
<1>8. ASSUME NEW n \in m.names, NEW at \in {"waiting", "finding"},
             Goto(c, [[m EXCEPT !.names = m.names \ {n}, !.n = n] EXCEPT !.at = at]),
             IF at = "waiting" THEN creating' = creating
             ELSE creating' = creating \cup {<<m.d, n>>} /\ <<m.d, n>> \notin creating
      PROVE  RowsInv' /\ SyncInv'
  <2>1. PICK k : k = [[m EXCEPT !.names = m.names \ {n}, !.n = n] EXCEPT !.at = at]
    OBVIOUS
  <2>2. k \in TagCall
    BY <1>2, <1>3, <2>1 DEF TagCall, Places
  <2>3. /\ k.op = "autotag" /\ k.at = at /\ k.e = m.e /\ k.f = m.f /\ k.d = m.d /\ k.todo = m.todo
        /\ k.files = m.files /\ k.n = n
    BY <1>2, <1>3, <2>1 DEF TagCall
  <2>4. PlaceOK(k)
    BY <1>3, <2>3 DEF PlaceOK, InPlace
  <2>5. CallOK(k)
    BY <1>2, <1>3, <2>3 DEF CallOK, RidsOK, LinkerOK, NamerOK, RemoverOK, TakerOK
  <2>6. RowsInv'
    BY <1>1, <1>2, <1>3, <1>4, <1>5, <1>6, <1>8, <2>1, <2>2, <2>3, <2>4, <2>5, Moved
  <2>7. Acts(c, m.op, k) /\ Goes(c, k) /\ UsedInv /\ MachineInv /\ IndexInv
    BY <1>1, <1>2, <1>3, <1>8, <2>1, <2>2, <2>3, <2>4, GotoActs, ActsGoes DEF SyncInv
  <2>8. UNCHANGED <<entities, links, files>>
    BY <1>4 DEF nameVars, baseVars
  <2>9. \A e \in Known' : Machine(e)' => e \in Known /\ Machine(e) /\ entities'[e].name = entities[e].name
    BY <2>8 DEF Machine, Known
  <2>10. (\A e : ~LooksAt(m, e)) /\ (\A f : WillRead(m, f) => WillRead(k, f))
    BY <1>2, <1>3, <2>3 DEF LooksAt, WillRead
  <2>11. (\A e : LinksOf(e)' = LinksOf(e)) /\ \A f : FieldsOf(f)' = FieldsOf(f)
    BY <2>8, FieldsSame DEF LinksOf
  <2>12. UsedInv'
    BY <1>1, <2>7, <2>9, <2>10, <2>11, UsedFollows
  <2>13. FilesOK(k)'
    BY <1>3, <2>3 DEF FilesOK
  <2>14. IndexInv'
    BY <1>1, <1>2, <1>4, <2>3, <2>7, <2>8, <2>10, <2>11, <2>13, IndexFollows
  <2>15. MachineInv'
    BY <1>1, <1>2, <1>3, <1>8, <2>3, <2>7, <2>8, <2>9, MachinesFollow, FindsNext
  <2> QED
    BY <2>6, <2>12, <2>14, <2>15 DEF SyncInv
<1> QED
  <2>1. \/ Goto(c, [m EXCEPT !.at = "reading", !.files = {m.f}]) /\ creating' = creating
        \/ \E n \in m.names : \E at \in {"waiting", "finding"} :
             /\ Goto(c, [[m EXCEPT !.names = m.names \ {n}, !.n = n] EXCEPT !.at = at])
             /\ IF at = "waiting" THEN creating' = creating
                ELSE creating' = creating \cup {<<m.d, n>>} /\ <<m.d, n>> \notin creating
    BY <1>1 DEF autotagNext
  <2> QED
    BY <1>7, <1>8, <2>1

LEMMA DropLinksKeeps ==
  ASSUME RowsInv, SyncInv, NoneBreak, NEW c \in Calls, dropLinks(c)
  PROVE  RowsInv' /\ SyncInv'
<1>1. PICK m : m = call[c]
  OBVIOUS
<1>2. m \in TagCall /\ PlaceOK(m) /\ CallOK(m) /\ m.at = "dropping" /\ RowTypes /\ SyncTypes
  BY <1>1, Mine DEF dropLinks, At
<1>3. m.op \in {"deleteFile", "removeRun", "deleteDesk"}
  BY <1>2 DEF PlaceOK, InPlace
<1>4. /\ SyncTypes' /\ UNCHANGED <<nameVars, vocabulary, types, desks, files>> /\ links' \subseteq links
      /\ lastEntity' = lastEntity /\ entities' = entities /\ vocabulary' = vocabulary /\ links' = links \ RowsToDrop(m)
  BY <1>1, <1>2 DEF dropLinks, SyncTypes, syncVars, baseVars, nameVars
<1>5. PICK k : k = [m EXCEPT !.at = "counting"]
  OBVIOUS
<1>6. k \in TagCall
  BY <1>2, <1>5 DEF TagCall, Places
<1>7. k.op = m.op /\ k.at = "counting" /\ k.e = m.e /\ k.f = m.f /\ k.d = m.d /\ k.todo = m.todo /\ k.run = m.run
      /\ k.files = m.files
  BY <1>2, <1>5 DEF TagCall
<1>8. PlaceOK(k)
  BY <1>2, <1>3, <1>7 DEF PlaceOK, InPlace, Linkers
<1>9. CallOK(k)'
  <2>1. RidsOK(k)' /\ LinkerOK(k)' /\ NamerOK(k)'
    BY <1>2, <1>3, <1>4, <1>7 DEF CallOK, RidsOK, LinkerOK, NamerOK, Linkers
  <2>2. RemoverOK(k)'
    BY <1>2, <1>3, <1>4, <1>7 DEF CallOK, RemoverOK, RowsToDrop
  <2>3. TakerOK(k)'
    BY <1>2, <1>3, <1>4, <1>7 DEF CallOK, TakerOK, ByHand, Known, Machine, LinksOf, NoDeskHas
  <2> QED
    BY <2>1, <2>2, <2>3 DEF CallOK
<1>10. Acts(c, m.op, k) /\ HandsOver(c, k)
  <2>1. Goto(c, k)
    BY <1>1, <1>5 DEF dropLinks
  <2>2. HandsOver(c, k)
    BY <1>1, <1>2, <1>4, <1>7, FreeHands DEF HandsOver, At
  <2> QED
    BY <1>1, <1>2, <1>3, <1>6, <1>7, <1>8, <2>1, <2>2, GotoActs
<1>11. RowsInv'
  BY <1>4, <1>9, <1>10, LinksGo
<1>12. UNCHANGED syncVars /\ files' = files /\ m.files = {} /\ FilesOK(m)
  BY <1>1, <1>2, <1>3, MyFiles DEF dropLinks, baseVars
<1>13. \A e \in Known' : Machine(e)' => e \in Known /\ Machine(e) /\ entities'[e].name = entities[e].name
  BY <1>4 DEF Machine, Known
<1>14. \A e : LinksOf(e)' = {} /\ (LinksOf(e) # {} \/ LooksAt(m, e)) => LooksAt(k, e)
  <2>1. \A l \in links : l \notin links' => l.e \in m.todo
    BY <1>2, <1>4 DEF CallOK, RemoverOK
  <2>2. \A e : LinksOf(e)' = {} /\ LinksOf(e) # {} => e \in m.todo
    BY <2>1 DEF LinksOf
  <2>3. \A e : LooksAt(m, e) => e \in m.todo
    BY <1>2, <1>3 DEF LooksAt
  <2> QED
    BY <1>7, <2>2, <2>3 DEF LooksAt
<1>15. FilesOK(k)' /\ \A f : WillRead(m, f) => WillRead(k, f)
  BY <1>2, <1>3, <1>7, <1>12 DEF FilesOK, WillRead
<1>16. ASSUME NEW f \in files', ~WillRead(k, f) PROVE FieldsOf(f)' = FieldsOf(f)
  <2>1. \A l \in links : l.f = f => l \in links'
    BY <1>3, <1>4, <1>7, <1>12, <1>16 DEF RowsToDrop, FilesOK, WillRead
  <2>2. {l \in links' : l.f = f /\ ~l.region} = {l \in links : l.f = f /\ ~l.region}
    BY <1>4, <2>1
  <2>3. Known' = Known
    BY <1>4 DEF Known
  <2> QED
    BY <1>4, <2>2, <2>3, FieldsFrom
<1>17. \A f \in files' : WillRead(k, f) \/ (FieldsOf(f)' = FieldsOf(f) /\ ~WillRead(m, f))
  BY <1>15, <1>16
<1>18. SyncInv'
  BY <1>1, <1>2, <1>4, <1>7, <1>10, <1>12, <1>13, <1>14, <1>15, <1>17, SyncFollows
<1> QED
  BY <1>11, <1>18

LEMMA DeleteDeskLinksKeeps ==
  ASSUME RowsInv, SyncInv, NoneBreak, NEW c \in Calls, deleteDeskLinks(c)
  PROVE  RowsInv' /\ SyncInv'
<1>1. PICK m : m = call[c]
  OBVIOUS
<1>2. m \in TagCall /\ PlaceOK(m) /\ CallOK(m) /\ m.at = "deskLinks" /\ RowTypes /\ SyncTypes
  BY <1>1, Mine DEF deleteDeskLinks, At
<1>3. m.op = "removeFromDesk"
  BY <1>2 DEF PlaceOK, InPlace
<1>4. /\ SyncTypes' /\ UNCHANGED <<nameVars, vocabulary, types, desks, files>> /\ links' \subseteq links
      /\ lastEntity' = lastEntity /\ entities' = entities /\ vocabulary' = vocabulary /\ links' = {l \in links : ~(l.e = m.e /\ l.desk = m.d)}
  BY <1>1, <1>2 DEF deleteDeskLinks, SyncTypes, syncVars, baseVars, nameVars
<1>5. PICK k : k = [m EXCEPT !.at = "deskRow"]
  OBVIOUS
<1>6. k \in TagCall
  BY <1>2, <1>5 DEF TagCall, Places
<1>7. k.op = m.op /\ k.at = "deskRow" /\ k.e = m.e /\ k.f = m.f /\ k.d = m.d /\ k.todo = m.todo /\ k.run = m.run
      /\ k.files = m.files
  BY <1>2, <1>5 DEF TagCall
<1>8. PlaceOK(k)
  BY <1>2, <1>3, <1>7 DEF PlaceOK, InPlace, Linkers
<1>9. CallOK(k)'
  <2>1. RidsOK(k)' /\ LinkerOK(k)' /\ NamerOK(k)'
    BY <1>2, <1>3, <1>4, <1>7 DEF CallOK, RidsOK, LinkerOK, NamerOK, Linkers
  <2>2. RemoverOK(k)'
    BY <1>2, <1>3, <1>4, <1>7 DEF CallOK, RemoverOK, RowsToDrop
  <2>3. TakerOK(k)'
    BY <1>2, <1>3, <1>4, <1>7 DEF CallOK, TakerOK, ByHand, Known, Machine, LinksOf, NoDeskHas
  <2> QED
    BY <2>1, <2>2, <2>3 DEF CallOK
<1>10. Acts(c, m.op, k) /\ HandsOver(c, k)
  <2>1. Goto(c, k)
    BY <1>1, <1>5 DEF deleteDeskLinks
  <2>2. HandsOver(c, k)
    BY <1>1, <1>2, <1>4, <1>7, FreeHands
  <2> QED
    BY <1>1, <1>2, <1>3, <1>6, <1>7, <1>8, <2>1, <2>2, GotoActs
<1>11. RowsInv'
  BY <1>4, <1>9, <1>10, LinksGo
<1>12. UNCHANGED syncVars /\ files' = files /\ FilesOK(m)
  BY <1>1, MyFiles DEF deleteDeskLinks, baseVars
<1>13. \A e \in Known' : Machine(e)' => e \in Known /\ Machine(e) /\ entities'[e].name = entities[e].name
  BY <1>4 DEF Machine, Known
<1>14. \A e \in Known' : Machine(e)' /\ LinksOf(e)' = {} /\ (LinksOf(e) # {} \/ LooksAt(m, e)) => LooksAt(k, e)
  <2>1. \A l \in links : l \notin links' => l.e = m.e
    BY <1>4 DEF LinksOf
  <2>2. \A e : LinksOf(e)' = {} /\ LinksOf(e) # {} => e = m.e
    BY <2>1 DEF LinksOf
  <2>3. (\A e : ~LooksAt(m, e)) /\ ByHand(m.e)
    BY <1>2, <1>3 DEF LooksAt, CallOK, TakerOK
  <2> QED
    BY <1>13, <2>2, <2>3 DEF ByHand
<1>15. FilesOK(k)' /\ \A f : WillRead(m, f) => WillRead(k, f)
  BY <1>2, <1>3, <1>7, <1>12 DEF FilesOK, WillRead
<1>16. ASSUME NEW f \in files', ~WillRead(k, f) PROVE FieldsOf(f)' = FieldsOf(f)
  <2>1. \A l \in links : l.f = f /\ ~l.region => l \in links'
    <3>1. f \notin linkedFiles(m.e, {m.d})
      BY <1>2, <1>7, <1>12, <1>16 DEF FilesOK, WillRead
    <3> QED
      BY <1>4, <3>1 DEF linkedFiles, LinksOf
  <2>2. {l \in links' : l.f = f /\ ~l.region} = {l \in links : l.f = f /\ ~l.region}
    BY <1>4, <2>1
  <2>3. Known' = Known
    BY <1>4 DEF Known
  <2> QED
    BY <1>4, <2>2, <2>3, FieldsFrom
<1>17. \A f \in files' : WillRead(k, f) \/ (FieldsOf(f)' = FieldsOf(f) /\ ~WillRead(m, f))
  BY <1>15, <1>16
<1>18. SyncInv'
  BY <1>1, <1>2, <1>4, <1>7, <1>10, <1>12, <1>13, <1>14, <1>15, <1>17, SyncFollows
<1> QED
  BY <1>11, <1>18

LEMMA DeleteAllLinksKeeps ==
  ASSUME RowsInv, SyncInv, NoneBreak, NEW c \in Calls, deleteAllLinks(c)
  PROVE  RowsInv' /\ SyncInv'
<1>1. PICK m : m = call[c]
  OBVIOUS
<1>2. m \in TagCall /\ PlaceOK(m) /\ CallOK(m) /\ m.at = "allLinks" /\ RowTypes /\ SyncTypes
  BY <1>1, Mine DEF deleteAllLinks, At
<1>3. m.op \in {"removeFromDesk", "deleteEverywhere", "deleteDesk"}
  BY <1>2 DEF PlaceOK, InPlace
<1>4. /\ SyncTypes' /\ UNCHANGED <<nameVars, vocabulary, types, desks, files>> /\ links' \subseteq links
      /\ lastEntity' = lastEntity /\ entities' = entities /\ vocabulary' = vocabulary /\ links' = links \ LinksOf(m.e)
  BY <1>1, <1>2 DEF deleteAllLinks, SyncTypes, syncVars, baseVars, nameVars
<1>5. PICK k : k = [m EXCEPT !.at = IF m.op = "deleteEverywhere" THEN "allRows" ELSE "entity"]
  OBVIOUS
<1>6. k \in TagCall
  BY <1>2, <1>5 DEF TagCall, Places
<1>7. k.op = m.op /\ k.at = (IF m.op = "deleteEverywhere" THEN "allRows" ELSE "entity") /\ k.e = m.e /\ k.f = m.f /\ k.d = m.d /\ k.todo = m.todo /\ k.run = m.run
      /\ k.files = m.files
  BY <1>2, <1>5 DEF TagCall
<1>8. PlaceOK(k)
  BY <1>2, <1>3, <1>7 DEF PlaceOK, InPlace, Linkers
<1>9. CallOK(k)'
  <2>1. RidsOK(k)' /\ LinkerOK(k)' /\ NamerOK(k)'
    BY <1>2, <1>3, <1>4, <1>7 DEF CallOK, RidsOK, LinkerOK, NamerOK, Linkers
  <2>2. RemoverOK(k)'
    BY <1>2, <1>3, <1>4, <1>7 DEF CallOK, RemoverOK, RowsToDrop
  <2>3. TakerOK(k)'
    BY <1>2, <1>3, <1>4, <1>7 DEF CallOK, TakerOK, ByHand, Known, Machine, LinksOf, NoDeskHas
  <2> QED
    BY <2>1, <2>2, <2>3 DEF CallOK
<1>10. Acts(c, m.op, k) /\ HandsOver(c, k)
  <2>1. Goto(c, k)
    BY <1>1, <1>5 DEF deleteAllLinks
  <2>2. HandsOver(c, k)
    BY <1>1, <1>2, <1>4, <1>7, FreeHands
  <2> QED
    BY <1>1, <1>2, <1>3, <1>6, <1>7, <1>8, <2>1, <2>2, GotoActs
<1>11. RowsInv'
  BY <1>4, <1>9, <1>10, LinksGo
<1>12. UNCHANGED syncVars /\ files' = files /\ FilesOK(m)
      /\ (m.op = "deleteDesk" => m.files = {})
  BY <1>1, <1>2, MyFiles DEF deleteAllLinks, baseVars
<1>13. \A e \in Known' : Machine(e)' => e \in Known /\ Machine(e) /\ entities'[e].name = entities[e].name
  BY <1>4 DEF Machine, Known
<1>14. \A e \in Known' : Machine(e)' /\ LinksOf(e)' = {} /\ (LinksOf(e) # {} \/ LooksAt(m, e)) => LooksAt(k, e)
  <2>1. \A l \in links : l \notin links' => l.e = m.e
    BY <1>4 DEF LinksOf
  <2>2. \A e : LinksOf(e)' = {} /\ LinksOf(e) # {} => e = m.e
    BY <2>1 DEF LinksOf
  <2>3. (\A e : ~LooksAt(m, e)) /\ ByHand(m.e)
    BY <1>2, <1>3 DEF LooksAt, CallOK, TakerOK
  <2> QED
    BY <1>13, <2>2, <2>3 DEF ByHand
<1>15. FilesOK(k)' /\ \A f : WillRead(m, f) => WillRead(k, f)
  BY <1>2, <1>3, <1>7, <1>12 DEF FilesOK, WillRead
<1>16. ASSUME NEW f \in files', ~WillRead(k, f) PROVE FieldsOf(f)' = FieldsOf(f)
  <2>1. \A l \in links : l.f = f /\ ~l.region => l \in links'
    <3>1. CASE m.op = "deleteEverywhere"
      <4>1. f \notin linkedFiles(m.e, Desks)
        BY <1>2, <1>7, <1>12, <1>16, <3>1 DEF FilesOK, WillRead
      <4>2. \A l \in links : l.desk \in Desks
        BY <1>2 DEF RowTypes, TagLink
      <4> QED
        BY <1>4, <4>1, <4>2 DEF linkedFiles, LinksOf
    <3>2. CASE m.op # "deleteEverywhere"
      <4>1. NoDeskHas(m.e) /\ ByHand(m.e)
        BY <1>2, <3>2 DEF CallOK, TakerOK
      <4>2. LinksOf(m.e) = {}
        BY <4>1 DEF NoDeskHas, ByHand, RowsInv, LinksOK, LinksOf
      <4> QED
        BY <1>4, <4>2
    <3> QED
      BY <3>1, <3>2
  <2>2. {l \in links' : l.f = f /\ ~l.region} = {l \in links : l.f = f /\ ~l.region}
    BY <1>4, <2>1
  <2>3. Known' = Known
    BY <1>4 DEF Known
  <2> QED
    BY <1>4, <2>2, <2>3, FieldsFrom
<1>17. \A f \in files' : WillRead(k, f) \/ (FieldsOf(f)' = FieldsOf(f) /\ ~WillRead(m, f))
  BY <1>15, <1>16
<1>18. SyncInv'
  BY <1>1, <1>2, <1>4, <1>7, <1>10, <1>12, <1>13, <1>14, <1>15, <1>17, SyncFollows
<1> QED
  BY <1>11, <1>18

LEMMA DeleteDeskRowKeeps ==
  ASSUME RowsInv, SyncInv, NoneBreak, NEW c \in Calls, deleteDeskRow(c)
  PROVE  RowsInv' /\ SyncInv'
<1>1. PICK m : m = call[c]
  OBVIOUS
<1>2. m \in TagCall /\ PlaceOK(m) /\ CallOK(m) /\ m.at = "deskRow" /\ RowTypes /\ SyncTypes
  BY <1>1, Mine DEF deleteDeskRow, At
<1>3. m.op = "removeFromDesk" /\ {m.e} \in SUBSET EntityRids /\ m.e \in 1..lastEntity
  <2>1. m.op = "removeFromDesk" /\ m.e # 0 /\ m.e \in 0..MaxEntities /\ m.e <= lastEntity
    BY <1>2 DEF PlaceOK, InPlace, CallOK, RidsOK, TagCall
  <2>2. lastEntity \in Nat /\ MaxEntities \in Nat
    BY <1>2, TagsConstants DEF RowTypes
  <2> QED
    BY <2>1, <2>2 DEF EntityRids
<1>4. /\ SyncTypes' /\ UNCHANGED <<nameVars, links, types, desks, files>> /\ vocabulary' \subseteq vocabulary
      /\ lastEntity' = lastEntity /\ entities' = entities /\ links' = links /\ vocabulary' = vocabulary \ {<<m.e, m.d>>}
  BY <1>1, <1>2 DEF deleteDeskRow, SyncTypes, syncVars, baseVars, nameVars
<1>5. PICK k : k = [m EXCEPT !.at = "lastDesk", !.todo = {m.e}]
  OBVIOUS
<1>6. k \in TagCall
  BY <1>2, <1>3, <1>5 DEF TagCall, Places
<1>7. k.op = m.op /\ k.at = "lastDesk" /\ k.e = m.e /\ k.f = m.f /\ k.d = m.d /\ k.run = m.run /\ k.todo = {m.e}
      /\ k.files = m.files
  BY <1>2, <1>5 DEF TagCall
<1>8. PlaceOK(k)
  BY <1>2, <1>3, <1>7 DEF PlaceOK, InPlace, Linkers
<1>9. CallOK(k)'
  <2>1. RidsOK(k)' /\ LinkerOK(k)' /\ NamerOK(k)' /\ RemoverOK(k)'
    BY <1>2, <1>3, <1>4, <1>7 DEF CallOK, RidsOK, LinkerOK, NamerOK, RemoverOK, Linkers
  <2>2. TakerOK(k)'
    BY <1>2, <1>3, <1>4, <1>7 DEF CallOK, TakerOK, ByHand, Known, Machine, LinksOf, NoDeskHas
  <2> QED
    BY <2>1, <2>2 DEF CallOK
<1>10. Acts(c, m.op, k) /\ HandsOver(c, k)
  <2>1. Goto(c, k)
    BY <1>1, <1>5 DEF deleteDeskRow
  <2>2. HandsOver(c, k)
    BY <1>1, <1>2, <1>3, <1>4, <1>7, FreeHands
  <2> QED
    BY <1>1, <1>2, <1>3, <1>6, <1>7, <1>8, <2>1, <2>2, GotoActs
<1>11. \A l \in links : Machine(l.e) \/ <<l.e, l.desk>> \in vocabulary'
  <2> SUFFICES ASSUME NEW l \in links, ~Machine(l.e) PROVE <<l.e, l.desk>> \in vocabulary'
    OBVIOUS
  <2>1. <<l.e, l.desk>> \in vocabulary /\ l.desk = DeskOf[l.f]
    BY DEF RowsInv, LinksOK
  <2> QED
    BY <1>2, <1>3, <1>4, <2>1 DEF CallOK, TakerOK, RemoverOK, LinksOf
<1>12. m.op \in Takers
  BY <1>3 DEF Takers
<1>13. RowsInv'
  BY <1>4, <1>9, <1>10, <1>11, <1>12, RowsGo
<1>14. UNCHANGED syncVars /\ UNCHANGED <<entities, links>> /\ files' = files /\ FilesOK(m)
  BY <1>1, <1>4, MyFiles DEF deleteDeskRow, baseVars
<1>15. (\A e : ~LooksAt(m, e)) /\ (\A f : WillRead(m, f) => WillRead(k, f))
  BY <1>2, <1>3, <1>7 DEF LooksAt, WillRead
<1>16. FilesOK(k)'
  <2>1. FilesOK(k)
    BY <1>2, <1>3, <1>7, <1>14 DEF FilesOK
  <2> QED
    BY <1>14, <2>1, FilesSame
<1>17. SyncInv'
  BY <1>1, <1>2, <1>7, <1>10, <1>14, <1>15, <1>16, SyncStays
<1> QED
  BY <1>13, <1>17

LEMMA VacateDeskKeeps ==
  ASSUME RowsInv, SyncInv, NoneBreak, NEW c \in Calls, vacateDesk(c)
  PROVE  RowsInv' /\ SyncInv'
<1>1. PICK m : m = call[c]
  OBVIOUS
<1>2. m \in TagCall /\ PlaceOK(m) /\ CallOK(m) /\ m.at = "vacating" /\ RowTypes /\ SyncTypes
  BY <1>1, Mine DEF vacateDesk, At
<1>3. m.op = "deleteDesk"
  BY <1>2 DEF PlaceOK, InPlace
<1>4. /\ SyncTypes' /\ UNCHANGED <<nameVars, links, types, desks, files>> /\ vocabulary' \subseteq vocabulary
      /\ lastEntity' = lastEntity /\ entities' = entities /\ links' = links /\ vocabulary' = {v \in vocabulary : v[2] # m.d}
  BY <1>1, <1>2 DEF vacateDesk, SyncTypes, syncVars, baseVars, nameVars
<1>5. PICK k : k = [m EXCEPT !.at = "lastDesk"]
  OBVIOUS
<1>6. k \in TagCall
  BY <1>2, <1>3, <1>5 DEF TagCall, Places
<1>7. k.op = m.op /\ k.at = "lastDesk" /\ k.e = m.e /\ k.f = m.f /\ k.d = m.d /\ k.run = m.run /\ k.todo = m.todo
      /\ k.files = m.files
  BY <1>2, <1>5 DEF TagCall
<1>8. PlaceOK(k)
  BY <1>2, <1>3, <1>7 DEF PlaceOK, InPlace, Linkers
<1>9. CallOK(k)'
  <2>1. RidsOK(k)' /\ LinkerOK(k)' /\ NamerOK(k)' /\ RemoverOK(k)'
    BY <1>2, <1>3, <1>4, <1>7 DEF CallOK, RidsOK, LinkerOK, NamerOK, RemoverOK, Linkers
  <2>2. TakerOK(k)'
    BY <1>2, <1>3, <1>4, <1>7 DEF CallOK, TakerOK, ByHand, Known, Machine, LinksOf, NoDeskHas
  <2> QED
    BY <2>1, <2>2 DEF CallOK
<1>10. Acts(c, m.op, k) /\ HandsOver(c, k)
  <2>1. Goto(c, k)
    BY <1>1, <1>5 DEF vacateDesk
  <2>2. HandsOver(c, k)
    BY <1>1, <1>2, <1>3, <1>4, <1>7, FreeHands DEF HandsOver, At
  <2> QED
    BY <1>1, <1>2, <1>3, <1>6, <1>7, <1>8, <2>1, <2>2, GotoActs
<1>11. \A l \in links : Machine(l.e) \/ <<l.e, l.desk>> \in vocabulary'
  <2> SUFFICES ASSUME NEW l \in links, ~Machine(l.e) PROVE <<l.e, l.desk>> \in vocabulary'
    OBVIOUS
  <2>1. <<l.e, l.desk>> \in vocabulary /\ l.desk = DeskOf[l.f]
    BY DEF RowsInv, LinksOK
  <2> QED
    BY <1>2, <1>3, <1>4, <2>1 DEF CallOK, TakerOK, RemoverOK, LinksOf
<1>12. m.op \in Takers
  BY <1>3 DEF Takers
<1>13. RowsInv'
  BY <1>4, <1>9, <1>10, <1>11, <1>12, RowsGo
<1>14. UNCHANGED syncVars /\ UNCHANGED <<entities, links>> /\ files' = files /\ FilesOK(m)
  BY <1>1, <1>4, MyFiles DEF vacateDesk, baseVars
<1>15. (\A e : ~LooksAt(m, e)) /\ (\A f : WillRead(m, f) => WillRead(k, f))
  BY <1>2, <1>3, <1>7 DEF LooksAt, WillRead
<1>16. FilesOK(k)'
  <2>1. FilesOK(k)
    BY <1>2, <1>3, <1>7, <1>14 DEF FilesOK
  <2> QED
    BY <1>14, <2>1, FilesSame
<1>17. SyncInv'
  BY <1>1, <1>2, <1>7, <1>10, <1>14, <1>15, <1>16, SyncStays
<1> QED
  BY <1>13, <1>17

LEMMA DeleteAllRowsKeeps ==
  ASSUME RowsInv, SyncInv, NoneBreak, NEW c \in Calls, deleteAllRows(c)
  PROVE  RowsInv' /\ SyncInv'
<1>1. PICK m : m = call[c]
  OBVIOUS
<1>2. m \in TagCall /\ PlaceOK(m) /\ CallOK(m) /\ m.at = "allRows" /\ RowTypes /\ SyncTypes
  BY <1>1, Mine DEF deleteAllRows, At
<1>3. m.op = "deleteEverywhere"
  BY <1>2 DEF PlaceOK, InPlace
<1>4. /\ SyncTypes' /\ UNCHANGED <<nameVars, links, types, desks, files>> /\ vocabulary' \subseteq vocabulary
      /\ lastEntity' = lastEntity /\ entities' = entities /\ links' = links /\ vocabulary' = {v \in vocabulary : v[1] # m.e}
  BY <1>1, <1>2 DEF deleteAllRows, SyncTypes, syncVars, baseVars, nameVars
<1>5. PICK k : k = [m EXCEPT !.at = "entity"]
  OBVIOUS
<1>6. k \in TagCall
  BY <1>2, <1>3, <1>5 DEF TagCall, Places
<1>7. k.op = m.op /\ k.at = "entity" /\ k.e = m.e /\ k.f = m.f /\ k.d = m.d /\ k.run = m.run /\ k.todo = m.todo
      /\ k.files = m.files
  BY <1>2, <1>5 DEF TagCall
<1>8. PlaceOK(k)
  BY <1>2, <1>3, <1>7 DEF PlaceOK, InPlace, Linkers
<1>9. CallOK(k)'
  <2>1. RidsOK(k)' /\ LinkerOK(k)' /\ NamerOK(k)' /\ RemoverOK(k)'
    BY <1>2, <1>3, <1>4, <1>7 DEF CallOK, RidsOK, LinkerOK, NamerOK, RemoverOK, Linkers
  <2>2. TakerOK(k)'
    BY <1>2, <1>3, <1>4, <1>7 DEF CallOK, TakerOK, ByHand, Known, Machine, LinksOf, NoDeskHas
  <2> QED
    BY <2>1, <2>2 DEF CallOK
<1>10. Acts(c, m.op, k) /\ HandsOver(c, k)
  <2>1. Goto(c, k)
    BY <1>1, <1>5 DEF deleteAllRows
  <2>2. HandsOver(c, k)
    BY <1>1, <1>2, <1>3, <1>4, <1>7, FreeHands
  <2> QED
    BY <1>1, <1>2, <1>3, <1>6, <1>7, <1>8, <2>1, <2>2, GotoActs
<1>11. \A l \in links : Machine(l.e) \/ <<l.e, l.desk>> \in vocabulary'
  <2> SUFFICES ASSUME NEW l \in links, ~Machine(l.e) PROVE <<l.e, l.desk>> \in vocabulary'
    OBVIOUS
  <2>1. <<l.e, l.desk>> \in vocabulary /\ l.desk = DeskOf[l.f]
    BY DEF RowsInv, LinksOK
  <2> QED
    BY <1>2, <1>3, <1>4, <2>1 DEF CallOK, TakerOK, RemoverOK, LinksOf
<1>12. m.op \in Takers
  BY <1>3 DEF Takers
<1>13. RowsInv'
  BY <1>4, <1>9, <1>10, <1>11, <1>12, RowsGo
<1>14. UNCHANGED syncVars /\ UNCHANGED <<entities, links>> /\ files' = files /\ FilesOK(m)
  BY <1>1, <1>4, MyFiles DEF deleteAllRows, baseVars
<1>15. (\A e : ~LooksAt(m, e)) /\ (\A f : WillRead(m, f) => WillRead(k, f))
  BY <1>2, <1>3, <1>7 DEF LooksAt, WillRead
<1>16. FilesOK(k)'
  <2>1. FilesOK(k)
    BY <1>2, <1>3, <1>7, <1>14 DEF FilesOK
  <2> QED
    BY <1>14, <2>1, FilesSame
<1>17. SyncInv'
  BY <1>1, <1>2, <1>7, <1>10, <1>14, <1>15, <1>16, SyncStays
<1> QED
  BY <1>13, <1>17

LEMMA LeaveDeskKeeps ==
  ASSUME RowsInv, SyncInv, NoneBreak, NEW c \in Calls, leaveDesk(c)
  PROVE  RowsInv' /\ SyncInv'
<1>1. PICK m : m = call[c]
  OBVIOUS
<1>2. m \in TagCall /\ PlaceOK(m) /\ CallOK(m) /\ m.at = "leaving" /\ RowTypes /\ SyncTypes
  BY <1>1, Mine DEF leaveDesk, At
<1>3. m.op = "deleteDesk"
  BY <1>2 DEF PlaceOK, InPlace
<1>4. UNCHANGED <<nameVars, links, vocabulary, baseVars, syncVars>> /\ FilesOK(m)
  BY <1>1, MyFiles DEF leaveDesk
<1>5. PICK t : t = {e \in 1..lastEntity : <<e, m.d>> \in vocabulary}
  OBVIOUS
<1>6. t \in SUBSET EntityRids /\ t \subseteq 1..lastEntity /\ \A e \in t : ByHand(e)
  <2>1. \A e \in t : e \in 1..lastEntity /\ <<e, m.d>> \in vocabulary
    BY <1>5
  <2>2. \A e \in t : ByHand(e)
    BY <2>1 DEF RowsInv, VocabularyOK, ByHand
  <2> QED
    BY <1>2, <2>1, <2>2, KnownRids
<1>7. PICK k : k = [m EXCEPT !.at = "vacating", !.todo = t]
  OBVIOUS
<1>8. k \in TagCall
  BY <1>2, <1>6, <1>7 DEF TagCall, Places
<1>9. k.op = "deleteDesk" /\ k.at = "vacating" /\ k.e = m.e /\ k.f = m.f /\ k.d = m.d /\ k.todo = t /\ k.files = m.files
  BY <1>2, <1>3, <1>7 DEF TagCall
<1>10. PlaceOK(k)
  BY <1>9 DEF PlaceOK, InPlace, Linkers
<1>11. CallOK(k)
  BY <1>2, <1>3, <1>6, <1>9 DEF CallOK, RidsOK, LinkerOK, NamerOK, RemoverOK, TakerOK, Linkers
<1>12. Goto(c, k) /\ HandsOver(c, k)
  BY <1>1, <1>2, <1>3, <1>5, <1>7, <1>9 DEF leaveDesk, HandsOver, At
<1>13. (\A e : ~LooksAt(m, e)) /\ (\A f : WillRead(m, f) => WillRead(k, f)) /\ FilesOK(k)
  BY <1>2, <1>3, <1>4, <1>9 DEF LooksAt, WillRead, FilesOK
<1> QED
  BY <1>1, <1>2, <1>3, <1>4, <1>8, <1>9, <1>10, <1>11, <1>12, <1>13, MovedOn

LEMMA CountDesksKeeps ==
  ASSUME RowsInv, SyncInv, NoneBreak, NEW c \in Calls, countDesks(c)
  PROVE  RowsInv' /\ SyncInv'
<1>1. PICK m : m = call[c]
  OBVIOUS
<1>2. m \in TagCall /\ PlaceOK(m) /\ CallOK(m) /\ m.at = "lastDesk" /\ RowTypes /\ SyncTypes
  BY <1>1, Mine DEF countDesks, At
<1>3. m.op \in {"removeFromDesk", "deleteDesk"} /\ m.todo \subseteq EntityRids /\ m.todo \subseteq 1..lastEntity
  BY <1>2 DEF PlaceOK, InPlace, CallOK, RidsOK, TagCall
<1>4. UNCHANGED <<nameVars, links, vocabulary, baseVars, syncVars>> /\ FilesOK(m) /\ \A e : ~LooksAt(m, e)
  BY <1>1, <1>2, <1>3, MyFiles DEF countDesks, LooksAt
<1>5. \A k : HandsOver(c, k)
  BY <1>1, <1>2, FreeHands
<1>6. ASSUME Goto(c, [m EXCEPT !.at = "reading"]) PROVE RowsInv' /\ SyncInv'
  <2>1. PICK k : k = [m EXCEPT !.at = "reading"]
    OBVIOUS
  <2>2. k \in TagCall
    BY <1>2, <2>1 DEF TagCall, Places
  <2>3. k.op = m.op /\ k.at = "reading" /\ k.e = m.e /\ k.f = m.f /\ k.d = m.d /\ k.todo = m.todo /\ k.files = m.files
    BY <1>2, <2>1 DEF TagCall
  <2>4. PlaceOK(k)
    BY <1>2, <1>3, <2>3 DEF PlaceOK, InPlace, Linkers
  <2>5. CallOK(k)
    BY <1>2, <1>3, <2>3 DEF CallOK, RidsOK, LinkerOK, NamerOK, RemoverOK, TakerOK, Linkers
  <2>6. (\A f : WillRead(m, f) => WillRead(k, f)) /\ FilesOK(k)
    BY <1>2, <1>3, <1>4, <2>3 DEF WillRead, FilesOK
  <2> QED
    BY <1>1, <1>2, <1>4, <1>5, <1>6, <2>1, <2>2, <2>3, <2>4, <2>5, <2>6, MovedOn
<1>7. ASSUME NEW e \in m.todo, NEW at \in {"lastDesk", "allLinks"},
             at = "allLinks" => ~\E d \in Desks : <<e, d>> \in vocabulary,
             Goto(c, [m EXCEPT !.todo = m.todo \ {e}, !.e = e, !.at = at])
      PROVE  RowsInv' /\ SyncInv'
  <2>1. PICK k : k = [m EXCEPT !.todo = m.todo \ {e}, !.e = e, !.at = at]
    OBVIOUS
  <2>2. e \in 0..MaxEntities /\ e <= lastEntity /\ e # 0
    BY <1>2, <1>3, KnownRids DEF RowTypes
  <2>3. k \in TagCall
    BY <1>2, <2>1, <2>2 DEF TagCall, Places
  <2>4. k.op = m.op /\ k.at = at /\ k.e = e /\ k.f = m.f /\ k.d = m.d /\ k.todo = m.todo \ {e} /\ k.files = m.files
    BY <1>2, <2>1, <2>2 DEF TagCall
  <2>5. PlaceOK(k)
    BY <1>2, <1>3, <2>2, <2>4 DEF PlaceOK, InPlace, Linkers
  <2>6. RidsOK(k) /\ LinkerOK(k) /\ NamerOK(k) /\ RemoverOK(k)
    BY <1>3, <2>2, <2>4 DEF RidsOK, LinkerOK, NamerOK, RemoverOK, Linkers
  <2>7. TakerOK(k)
    <3>1. at = "allLinks" => NoDeskHas(e)
      BY <1>2, <1>7 DEF RowTypes, NoDeskHas
    <3> QED
      BY <1>2, <2>4, <3>1 DEF CallOK, TakerOK
  <2>8. Goto(c, k) /\ CallOK(k)
    BY <1>7, <2>1, <2>6, <2>7 DEF CallOK
  <2>9. (\A f : WillRead(m, f) => WillRead(k, f)) /\ FilesOK(k)
    BY <1>2, <1>3, <1>4, <2>4 DEF WillRead, FilesOK
  <2> QED
    BY <1>1, <1>2, <1>4, <1>5, <2>3, <2>4, <2>5, <2>8, <2>9, MovedOn
<1> QED
  <2>1. \/ Goto(c, [m EXCEPT !.at = "reading"])
        \/ \E e \in m.todo : \E at \in {"lastDesk", "allLinks"} :
             /\ at = "allLinks" => ~\E d \in Desks : <<e, d>> \in vocabulary
             /\ Goto(c, [m EXCEPT !.todo = m.todo \ {e}, !.e = e, !.at = at])
    BY <1>1 DEF countDesks
  <2> QED
    BY <1>6, <1>7, <2>1

LEMMA DeleteEntityKeeps ==
  ASSUME RowsInv, SyncInv, NoneBreak, NEW c \in Calls, deleteEntity(c)
  PROVE  RowsInv' /\ SyncInv'
<1>1. PICK m : m = call[c]
  OBVIOUS
<1>2. m \in TagCall /\ PlaceOK(m) /\ CallOK(m) /\ m.at = "entity" /\ RowTypes /\ SyncTypes
  BY <1>1, Mine DEF deleteEntity, At
<1>3. m.op \in Takers /\ m.op \in Removers
  BY <1>2 DEF PlaceOK, InPlace, Takers, Removers
<1>4. /\ SyncTypes' /\ UNCHANGED <<lastEntity, links, vocabulary, types, desks, files>>
      /\ entities' = Without(m.e)
  BY <1>1, <1>2 DEF deleteEntity, SyncTypes, syncVars, baseVars
<1>5. PICK at \in {"lastDesk", "reading"} : at = (IF m.op = "deleteDesk" THEN "lastDesk" ELSE "reading")
  OBVIOUS
<1>6. PICK k : k = [m EXCEPT !.at = at]
  OBVIOUS
<1>7. k \in TagCall
  BY <1>2, <1>6 DEF TagCall, Places
<1>8. k.op = m.op /\ k.at = at /\ k.e = m.e /\ k.f = m.f /\ k.d = m.d /\ k.todo = m.todo /\ k.files = m.files
  BY <1>2, <1>6 DEF TagCall
<1>9. PlaceOK(k)
  BY <1>2, <1>3, <1>5, <1>8 DEF PlaceOK, InPlace, Linkers, Takers
<1>10. CallOK(k)'
  <2>1. \A e \in Known' : e \in Known /\ Machine(e)' = Machine(e)
    BY <1>4 DEF Without, Known, Machine
  <2>2. \A e \in m.todo : ByHand(e)'
    BY <1>2, <2>1 DEF CallOK, TakerOK, ByHand
  <2> QED
    BY <1>2, <1>3, <1>4, <1>8, <2>2 DEF CallOK, RidsOK, LinkerOK, NamerOK, RemoverOK, TakerOK, Linkers, Takers
<1>11. Acts(c, m.op, k) /\ HandsOver(c, k)
  <2>1. Goto(c, k)
    BY <1>1, <1>5, <1>6 DEF deleteEntity
  <2> QED
    BY <1>1, <1>2, <1>7, <1>8, <1>9, <2>1, GotoActs, FreeHands
<1>12. (m.e \in Known => LinksOf(m.e) = {}) /\ NoDeskHas(m.e)
  BY <1>2 DEF CallOK, TakerOK
<1>13. RowsInv'
  BY <1>3, <1>4, <1>10, <1>11, <1>12, TagGoes
<1>14. UNCHANGED syncVars /\ files' = files /\ links' = links /\ FilesOK(m)
  BY <1>1, MyFiles DEF deleteEntity, baseVars
<1>15. Known' = Known \ {m.e} /\ \A e \in Known' : entities'[e] = entities[e]
  BY <1>4 DEF Without, Known
<1>16. \A e \in Known' : Machine(e)' => e \in Known /\ Machine(e) /\ entities'[e].name = entities[e].name
  BY <1>15 DEF Machine
<1>17. (\A e : ~LooksAt(m, e)) /\ \A e : LinksOf(e)' = LinksOf(e)
  BY <1>2, <1>3, <1>14 DEF LooksAt, LinksOf, Takers
<1>18. \A f : FieldsOf(f)' = FieldsOf(f)
  BY <1>12, <1>14, <1>15, FieldsFrom DEF LinksOf
<1>19. \A f : WillRead(m, f) => WillRead(k, f)
  BY <1>2, <1>3, <1>8 DEF WillRead, Takers
<1>20. FilesOK(k)'
  <2>1. FilesOK(k)
    BY <1>2, <1>3, <1>5, <1>8, <1>14 DEF FilesOK, Takers
  <2> QED
    BY <1>14, <2>1, FilesSame
<1>21. SyncInv'
  BY <1>1, <1>2, <1>5, <1>8, <1>11, <1>14, <1>16, <1>17, <1>18, <1>19, <1>20, SyncFollows
<1> QED
  BY <1>13, <1>21

\* A machine tag is found or made: its caller and all who wait go on with it.
GoesOn(m, k, e) ==
  /\ m.op = "autotag" /\ m.at \in {"waiting", "finding", "making"} /\ k.op = "autotag" /\ k.at = "linking" /\ k.e = e
  /\ k.f = m.f /\ k.d = m.d /\ k.n = m.n /\ k.todo = m.todo /\ k.files = m.files /\ k.fields = m.fields

LEMMA ResolvedCalls ==
  ASSUME RowsInv, NEW c \in Calls, call[c].at \in {"finding", "making"}, NEW e \in EntityRids, Resolve(c, e)
  PROVE  /\ call' \in [Calls -> TagCall] /\ (\A o \in Calls : PlaceOK(call[o]))' /\ Meet'
         /\ \A o \in Calls :
              \/ call'[o] = call[o] /\ o # c
              \/ call[o].d = call[c].d /\ call[o].n = call[c].n /\ GoesOn(call[o], call'[o], e)
<1>1. e \in 0..MaxEntities /\ \A o \in Calls : call[o] \in TagCall /\ PlaceOK(call[o])
  BY KnownRids DEF RowsInv
<1>2. DOMAIN call' = Calls
  BY DEF Resolve
<1>3. ASSUME NEW o \in Calls
      PROVE  /\ call'[o] \in TagCall /\ PlaceOK(call'[o]) /\ call'[o].op = call[o].op
             /\ (call'[o].at = "idle" <=> call[o].at = "idle")
             /\ \/ call'[o] = call[o] /\ o # c
                \/ call[o].d = call[c].d /\ call[o].n = call[c].n /\ GoesOn(call[o], call'[o], e)
  <2>1. PICK m : m = call[o]
    OBVIOUS
  <2>2. m \in TagCall /\ PlaceOK(m)
    BY <1>1, <2>1
  <2>3. CASE ~(o = c \/ (At(o, "waiting") /\ call[o].d = call[c].d /\ call[o].n = call[c].n))
    BY <1>1, <2>3 DEF Resolve
  <2>4. CASE o = c \/ (At(o, "waiting") /\ call[o].d = call[c].d /\ call[o].n = call[c].n)
    <3>1. call'[o] = [m EXCEPT !.at = "linking", !.e = e]
      BY <2>1, <2>4 DEF Resolve
    <3>2. PICK k : k = [m EXCEPT !.at = "linking", !.e = e]
      OBVIOUS
    <3>3. k \in TagCall
      BY <1>1, <2>2, <3>2 DEF TagCall, Places
    <3>4. /\ k.op = m.op /\ k.at = "linking" /\ k.e = e /\ k.f = m.f /\ k.d = m.d /\ k.todo = m.todo /\ k.n = m.n /\ k.files = m.files
          /\ k.fields = m.fields
      BY <1>1, <2>2, <3>2 DEF TagCall
    <3>5. m.op = "autotag" /\ m.at \in {"waiting", "finding", "making"} /\ m.d = call[c].d /\ m.n = call[c].n
      BY <2>1, <2>2, <2>4 DEF PlaceOK, InPlace, At
    <3>6. PlaceOK(k)
      BY <2>2, <3>4, <3>5 DEF PlaceOK, InPlace
    <3> QED
      BY <2>1, <3>1, <3>2, <3>3, <3>4, <3>5, <3>6 DEF GoesOn
  <2> QED
    BY <2>3, <2>4
<1>4. call' \in [Calls -> TagCall]
  <2>1. call' = [o \in Calls |-> call'[o]]
    BY DEF Resolve
  <2> QED
    BY <1>3, <2>1
<1>5. (\A o \in Calls : PlaceOK(call[o]))'
  BY <1>3
<1>6. Meet'
  <2>1. UnderWay' = UnderWay
    BY <1>3 DEF UnderWay
  <2>2. \A o \in UnderWay : call'[o].op = call[o].op
    BY <1>3 DEF UnderWay
  <2> QED
    BY <2>1, <2>2 DEF RowsInv, Meet
<1> QED
  BY <1>3, <1>4, <1>5, <1>6

LEMMA ResolveKeeps ==
  ASSUME RowsInv, NEW c \in Calls, call[c].at \in {"finding", "making"}, NEW e \in EntityRids, Resolve(c, e),
         UNCHANGED <<links, vocabulary, types, desks, files>>, index' = index, crossed' = crossed,
         RowTypes', NamesOK', e \in Known', Known \subseteq Known', \A a \in Known : Machine(a)' = Machine(a),
         \A m \in TagCall : CallOK(m) => CallOK(m)'
  PROVE  RowsInv'
<1>1. links' = links /\ vocabulary' = vocabulary /\ desks' = desks /\ files' = files
  OBVIOUS
<1>2. /\ call' \in [Calls -> TagCall] /\ (\A o \in Calls : PlaceOK(call[o]))' /\ Meet'
      /\ \A o \in Calls :
           \/ call'[o] = call[o]
           \/ /\ call[o].op = "autotag" /\ call[o].at \in {"waiting", "finding", "making"}
              /\ call'[o].op = "autotag" /\ call'[o].at = "linking" /\ call'[o].e = e
              /\ call'[o].f = call[o].f /\ call'[o].d = call[o].d /\ call'[o].todo = call[o].todo
  BY ResolvedCalls DEF GoesOn
<1>3. SyncTypes'
  BY DEF RowsInv, SyncTypes, Resolve
<1>4. \A o \in Calls : call[o] \in TagCall /\ CallOK(call[o])
  BY DEF RowsInv, CallsOK
<1>5. CallsOK'
  <2> SUFFICES ASSUME NEW o \in Calls PROVE CallOK(call[o])'
    BY DEF CallsOK
  <2>1. PICK m : m = call[o]
    OBVIOUS
  <2>2. CallOK(m)'
    BY <1>4, <2>1
  <2>3. CASE call'[o] = call[o]
    BY <2>1, <2>2, <2>3
  <2>4. CASE call'[o] # call[o]
    <3>1. PICK k : k = call'[o]
      OBVIOUS
    <3>2. /\ m.op = "autotag" /\ k.op = "autotag" /\ k.at = "linking" /\ k.e = e
          /\ k.f = m.f /\ k.d = m.d /\ k.todo = m.todo
      BY <1>2, <2>1, <2>4, <3>1
    <3>3. e <= lastEntity'
      BY TagsConstants DEF RowTypes
    <3>4. CallOK(k)'
      BY <2>2, <3>2, <3>3 DEF CallOK, RidsOK, LinkerOK, NamerOK, RemoverOK, TakerOK
    <3> QED
      BY <3>1, <3>4
  <2> QED
    BY <2>3, <2>4
<1>6. LinksOK'
  <2> SUFFICES ASSUME NEW l \in links
               PROVE  /\ l.e \in Known' /\ l.desk = DeskOf[l.f]
                      /\ l.f \in files \/ (\E o \in Calls : At(o, "dropping") /\ l \in RowsToDrop(call[o]))'
                      /\ Machine(l.e)' \/ <<l.e, l.desk>> \in vocabulary
    BY <1>1 DEF LinksOK
  <2>1. /\ l.e \in Known /\ l.desk = DeskOf[l.f]
        /\ l.f \in files \/ \E o \in Calls : At(o, "dropping") /\ l \in RowsToDrop(call[o])
        /\ Machine(l.e) \/ <<l.e, l.desk>> \in vocabulary
    BY DEF RowsInv, LinksOK
  <2>2. ASSUME NEW o \in Calls, At(o, "dropping"), l \in RowsToDrop(call[o])
        PROVE  (\E a \in Calls : At(a, "dropping") /\ l \in RowsToDrop(call[a]))'
    <3>1. call'[o] = call[o] /\ call[o].op \in {"removeRun", "deleteFile", "deleteDesk"}
      BY <1>2, <2>2 DEF At, RowsInv, PlaceOK, InPlace
    <3>2. (l \in RowsToDrop(call[o]))'
      BY <1>1, <2>2, <3>1 DEF RowsToDrop
    <3> QED
      BY <2>2, <3>1, <3>2 DEF At
  <2> QED
    BY <2>1, <2>2
<1>7. VocabularyOK'
  <2>1. \A d : Vacates(d) => Vacates(d)'
    BY <1>2 DEF Vacates
  <2> QED
    BY <1>1, <2>1 DEF RowsInv, VocabularyOK
<1> QED
  BY <1>2, <1>3, <1>5, <1>6, <1>7 DEF RowsInv

\* What is looked at or will be read stays so when a key is resolved.
LEMMA ResolvedSees ==
  ASSUME RowsInv, SyncInv, NEW e, NEW m, NEW k, NEW o \in Calls, m = call[o], GoesOn(m, k, e)
  PROVE  /\ \A a : ~LooksAt(m, a) /\ LooksAt(k, e)
         /\ \A f : WillRead(m, f) => WillRead(k, f)
         /\ FilesOK(k)'
<1>1. m.files = {} /\ k.files = {}
  BY MyFiles DEF GoesOn
<1> QED
  BY <1>1 DEF GoesOn, LooksAt, WillRead, FilesOK

LEMMA ResolveSyncs ==
  ASSUME RowsInv, SyncInv, NEW c \in Calls, call[c].at \in {"finding", "making"}, NEW e \in EntityRids, Resolve(c, e),
         UNCHANGED <<links, files>>, index' = index, crossed' = crossed,
         Known \subseteq Known', Known' \subseteq Known \cup {e}, \A a \in Known : entities'[a] = entities[a],
         \A n \in Names :
           (Cardinality(Machines(n)) + Cardinality(Making(n)) <= Cardinality(Desks))'
  PROVE  SyncInv'
<1>1. /\ call' \in [Calls -> TagCall]
      /\ \A o \in Calls :
           \/ call'[o] = call[o] /\ o # c
           \/ call[o].d = call[c].d /\ call[o].n = call[c].n /\ GoesOn(call[o], call'[o], e)
  BY ResolvedCalls
<1>2. ASSUME NEW o \in Calls
      PROVE  /\ \A a : LooksAt(call[o], a) => LooksAt(call'[o], a)
             /\ \A f : WillRead(call[o], f) => WillRead(call'[o], f)
             /\ FilesOK(call[o])'
  <2>1. CASE call'[o] = call[o] /\ o # c
    <3>1. PICK m : m = call[o]
      OBVIOUS
    <3>2. FilesOK(m)'
      BY <3>1, MyFiles, FilesSame
    <3> QED
      BY <2>1, <3>1, <3>2
  <2>2. CASE GoesOn(call[o], call'[o], e)
    <3>1. PICK m : m = call[o]
      OBVIOUS
    <3>2. PICK k : k = call'[o]
      OBVIOUS
    <3>3. GoesOn(m, k, e)
      BY <2>2, <3>1, <3>2
    <3>4. (\A a : ~LooksAt(m, a)) /\ (\A f : WillRead(m, f) => WillRead(k, f)) /\ FilesOK(k)'
      BY <3>1, <3>3, ResolvedSees
    <3> QED
      BY <3>1, <3>2, <3>4
  <2> QED
    BY <1>1, <2>1, <2>2
<1>3. LooksAt(call'[c], e)
  <2>1. GoesOn(call[c], call'[c], e)
    BY <1>1
  <2> QED
    BY <2>1 DEF GoesOn, LooksAt
<1>4. UsedInv'
  <2> SUFFICES ASSUME NEW a \in Known', Machine(a)', LinksOf(a)' = {}
               PROVE  \E o \in Calls : LooksAt(call'[o], a)
    BY DEF UsedInv, LooksAt
  <2>1. CASE a = e
    BY <1>3, <2>1
  <2>2. CASE a # e
    <3>1. a \in Known /\ Machine(a) /\ LinksOf(a) = {}
      BY <2>2 DEF Machine, LinksOf
    <3>2. PICK o \in Calls : LooksAt(call[o], a)
      BY <3>1 DEF SyncInv, UsedInv
    <3> QED
      BY <1>2, <3>2
  <2> QED
    BY <2>1, <2>2
<1>5. MachineInv'
  <2>1. \A o \in Finders' : o \in Finders /\ o # c /\ call'[o] = call[o]
    BY <1>1 DEF Finders, GoesOn
  <2>2. c \in Finders
    BY DEF Finders
  <2>3. creating' = creating \ {<<call[c].d, call[c].n>>}
    BY DEF Resolve
  <2>4. ASSUME NEW o \in Finders' PROVE <<call'[o].d, call'[o].n>> \in creating'
    <3>1. <<call[o].d, call[o].n>> \in creating /\ (call[o].d # call[c].d \/ call[o].n # call[c].n)
      BY <2>1, <2>2 DEF SyncInv, MachineInv
    <3> QED
      BY <2>1, <2>3, <3>1
  <2>5. (\A a, o \in Finders : call[a].d = call[o].d /\ call[a].n = call[o].n => a = o)'
    BY <2>1 DEF SyncInv, MachineInv
  <2>6. (\A o \in Finders : <<call[o].d, call[o].n>> \in creating)'
    BY <2>4
  <2> QED
    BY <2>5, <2>6 DEF MachineInv
<1>6. IndexInv'
  <2>1. \A o \in Calls : \A f : (Sends(o, f)' <=> Sends(o, f)) /\ (Sends(o, f) => call'[o] = call[o])
    BY <1>1 DEF Sends, At, GoesOn
  <2>2. \A f : FieldsOf(f)' = FieldsOf(f)
    <3>1. \A l \in links : l.e \in Known
      BY DEF RowsInv, LinksOK
    <3> QED
      BY <3>1, FieldsFrom
  <2>3. ASSUME NEW f \in files \ crossed
        PROVE  /\ \A a, o \in Calls : Sends(a, f)' /\ Sends(o, f)' => a = o
               /\ \/ \E o \in Calls : WillRead(call'[o], f)
                  \/ \E o \in Calls : Sends(o, f)' /\ call'[o].fields = FieldsOf(f)'
                  \/ index[f] = FieldsOf(f)' /\ \A o \in Calls : ~Sends(o, f)'
    <3>1. /\ \A a, o \in Calls : Sends(a, f) /\ Sends(o, f) => a = o
          /\ \/ \E o \in Calls : WillRead(call[o], f)
             \/ \E o \in Calls : Sends(o, f) /\ call[o].fields = FieldsOf(f)
             \/ index[f] = FieldsOf(f) /\ \A o \in Calls : ~Sends(o, f)
      BY DEF SyncInv, IndexInv
    <3> QED
      BY <1>2, <2>1, <2>2, <3>1
  <2>4. (\A f \in files \ crossed :
           /\ \A a, o \in Calls : Sends(a, f) /\ Sends(o, f) => a = o
           /\ \/ \E o \in Calls : WillRead(call[o], f)
              \/ \E o \in Calls : Sends(o, f) /\ call[o].fields = FieldsOf(f)
              \/ index[f] = FieldsOf(f) /\ \A o \in Calls : ~Sends(o, f))'
    BY <2>3 DEF WillRead
  <2> QED
    BY <1>2, <2>4 DEF IndexInv
<1> QED
  BY <1>4, <1>5, <1>6 DEF SyncInv

\* Whose key is resolved makes no tag any more, and nobody else makes that one.
LEMMA MakingAfter ==
  ASSUME RowsInv, MachineInv, NEW c \in Calls, call[c].at \in {"finding", "making"}, NEW e \in EntityRids, Resolve(c, e),
         NEW n
  PROVE  Making(n)' \in SUBSET Making(n) /\ (n = call[c].n => call[c].d \notin Making(n)')
<1>1. \A o \in Calls : (At(o, "making")' => call'[o] = call[o] /\ o # c)
  BY ResolvedCalls DEF GoesOn, At
<1>2. c \in Finders /\ \A o \in Calls : At(o, "making") => o \in Finders
  BY DEF Finders, At
<1>3. \A o \in Calls : At(o, "making")' => At(o, "making") /\ (call[o].d # call[c].d \/ call[o].n # call[c].n)
  BY <1>1, <1>2 DEF MachineInv, At
<1> QED
  BY <1>1, <1>3 DEF Making

\* Call c has found no tag of its name.
LEMMA MakesNext ==
  ASSUME RowsInv, MachineInv, NEW c \in Calls, NEW k, Goes(c, k), UNCHANGED <<entities>>, creating' = creating,
         call[c].at = "finding", k.at = "making", k.d = call[c].d, k.n = call[c].n, Machines(k.n) = {}
  PROVE  MachineInv'
<1>1. /\ call'[c] = k /\ \A o \in Calls \ {c} : call'[o] = call[o]
  BY DEF Goes
<1>2. Finders' = Finders /\ \A o \in Finders : call'[o].d = call[o].d /\ call'[o].n = call[o].n
  BY <1>1 DEF Finders
<1>3. (\A o \in Finders : <<call[o].d, call[o].n>> \in creating)'
  BY <1>2 DEF MachineInv
<1>4. (\A a, o \in Finders : call[a].d = call[o].d /\ call[a].n = call[o].n => a = o)'
  BY <1>2 DEF MachineInv
<1>5. ASSUME NEW n \in Names
      PROVE  (Cardinality(Machines(n)) + Cardinality(Making(n)) <= Cardinality(Desks))'
  <2>1. Machines(n)' = Machines(n)
    BY DEF Machines, Known, Machine
  <2>2. (Cardinality(Machines(n)) + Cardinality(Making(n)) <= Cardinality(Desks))' <=>
          Cardinality(Machines(n)) + Cardinality(Making(n)') <= Cardinality(Desks)
    BY <2>1
  <2>3. CASE n = k.n
    <3>1. Cardinality(Machines(n)) = 0
      BY <2>3, FS_EmptySet
    <3>2. Making(n)' \in SUBSET Desks
      BY DEF Making
    <3>3. Cardinality(Making(n)') <= Cardinality(Desks) /\ Cardinality(Making(n)') \in Nat
      BY <3>2, MachinesFinite, FS_Subset, FS_CardinalityType
    <3> QED
      BY <2>2, <3>1, <3>3
  <2>4. CASE n # k.n
    <3>1. Making(n)' = Making(n)
      BY <1>1, <2>4 DEF Making, At
    <3> QED
      BY <2>2, <3>1 DEF MachineInv
  <2> QED
    BY <2>3, <2>4
<1> QED
  BY <1>3, <1>4, <1>5 DEF MachineInv

LEMMA FindMachineKeeps ==
  ASSUME RowsInv, SyncInv, NoneBreak, NEW c \in Calls, findMachineEntity(c)
  PROVE  RowsInv' /\ SyncInv'
<1>1. PICK m : m = call[c]
  OBVIOUS
<1>2. m \in TagCall /\ PlaceOK(m) /\ CallOK(m) /\ m.at = "finding" /\ RowTypes /\ SyncTypes
  BY <1>1, Mine DEF findMachineEntity, At
<1>3. UNCHANGED <<nameVars, links, vocabulary, baseVars>> /\ index' = index /\ crossed' = crossed
  BY DEF findMachineEntity
<1>4. CASE Goto(c, [m EXCEPT !.at = "making"]) /\ creating' = creating /\ findEntityForDesk(m.n, m.d) = {}
  <2>1. PICK k : k = [m EXCEPT !.at = "making"]
    OBVIOUS
  <2>2. k \in TagCall
    BY <1>2, <2>1 DEF TagCall, Places
  <2>3. /\ k.op = m.op /\ k.at = "making" /\ k.e = m.e /\ k.f = m.f /\ k.d = m.d /\ k.todo = m.todo
        /\ k.files = m.files /\ k.n = m.n
    BY <1>2, <2>1 DEF TagCall
  <2>4. m.op = "autotag" /\ PlaceOK(k)
    BY <1>2, <2>3 DEF PlaceOK, InPlace
  <2>5. CallOK(k)
    BY <1>2, <2>3, <2>4 DEF CallOK, RidsOK, LinkerOK, NamerOK, RemoverOK, TakerOK
  <2>6. SyncTypes' /\ HandsOver(c, k)
    BY <1>1, <1>2, <1>3, <1>4, FreeHands DEF SyncTypes
  <2>7. RowsInv'
    BY <1>1, <1>2, <1>3, <1>4, <2>1, <2>2, <2>3, <2>4, <2>5, <2>6, Moved
  <2>8. Acts(c, m.op, k) /\ Goes(c, k) /\ UsedInv /\ MachineInv /\ IndexInv
    BY <1>1, <1>2, <1>4, <2>1, <2>2, <2>3, <2>4, GotoActs, ActsGoes DEF SyncInv
  <2>9. UNCHANGED <<entities, links, files>> /\ m.files = {} /\ k.files = {}
    BY <1>1, <1>2, <1>3, <2>3, <2>4, MyFiles DEF nameVars, baseVars
  <2>10. \A e \in Known' : Machine(e)' => e \in Known /\ Machine(e) /\ entities'[e].name = entities[e].name
    BY <2>9 DEF Machine, Known
  <2>11. (\A e : ~LooksAt(m, e)) /\ (\A f : WillRead(m, f) => WillRead(k, f))
    BY <1>2, <2>3, <2>4, <2>9 DEF LooksAt, WillRead
  <2>12. (\A e : LinksOf(e)' = LinksOf(e)) /\ \A f : FieldsOf(f)' = FieldsOf(f)
    BY <2>9, FieldsSame DEF LinksOf
  <2>13. UsedInv'
    BY <1>1, <2>8, <2>10, <2>11, <2>12, UsedFollows
  <2>14. FilesOK(k)'
    BY <2>3, <2>4, <2>9 DEF FilesOK
  <2>15. IndexInv'
    BY <1>1, <1>2, <1>3, <2>3, <2>8, <2>9, <2>11, <2>12, <2>14, IndexFollows
  <2>16. Machines(m.n) = {}
    BY <1>1, <1>4 DEF findEntityForDesk, Machines
  <2>17. MachineInv'
    BY <1>1, <1>2, <1>4, <2>3, <2>8, <2>9, <2>16, MakesNext
  <2> QED
    BY <2>7, <2>13, <2>15, <2>17 DEF SyncInv
<1>5. ASSUME NEW e \in findEntityForDesk(m.n, m.d), Resolve(c, e) PROVE RowsInv' /\ SyncInv'
  <2>1. e \in Known /\ e \in EntityRids
    BY <1>2, KnownRids DEF findEntityForDesk, findHumanInDesk
  <2>2. /\ entities' = entities /\ lastEntity' = lastEntity /\ links' = links /\ vocabulary' = vocabulary
        /\ desks' = desks /\ files' = files /\ types' = types
    BY <1>3 DEF nameVars, baseVars
  <2>3. RowTypes' /\ NamesOK'
    BY <1>2, <2>2 DEF RowTypes, Known, RowsInv, NamesOK, findHumanInDesk, Machine
  <2>4. e \in Known' /\ Known \subseteq Known' /\ \A a \in Known : Machine(a)' = Machine(a)
    BY <2>1, <2>2 DEF Known, Machine
  <2>5. \A k \in TagCall : CallOK(k) => CallOK(k)'
    BY <1>3, <2>2, CallSame
  <2>6. RowsInv'
    BY <1>1, <1>2, <1>3, <1>5, <2>1, <2>2, <2>3, <2>4, <2>5, ResolveKeeps
  <2>7. Known' = Known /\ \A a \in Known : entities'[a] = entities[a]
    BY <2>2 DEF Known
  <2>8. ASSUME NEW n \in Names
        PROVE  (Cardinality(Machines(n)) + Cardinality(Making(n)) <= Cardinality(Desks))'
    <3>1. Machines(n)' = Machines(n)
      BY <2>2 DEF Machines, Known, Machine
    <3>2. Making(n)' \in SUBSET Making(n) /\ Cardinality(Machines(n)) + Cardinality(Making(n)) <= Cardinality(Desks)
      BY <1>1, <1>2, <1>5, <2>1, MakingAfter DEF SyncInv, MachineInv
    <3>3. Cardinality(Making(n)') <= Cardinality(Making(n)) /\ Cardinality(Making(n)') \in Nat
      BY <3>2, MachinesFinite, FS_Subset, FS_CardinalityType
    <3>4. (Cardinality(Machines(n)) + Cardinality(Making(n)) <= Cardinality(Desks))' <=>
            Cardinality(Machines(n)) + Cardinality(Making(n)') <= Cardinality(Desks)
      BY <3>1
    <3> QED
      BY <3>2, <3>3, <3>4, MachinesFinite
  <2>9. SyncInv'
    BY <1>1, <1>2, <1>3, <1>5, <2>1, <2>2, <2>7, <2>8, ResolveSyncs
  <2> QED
    BY <2>6, <2>9
<1> QED
  BY <1>1, <1>4, <1>5 DEF findMachineEntity

LEMMA CreateMachineKeeps ==
  ASSUME RowsInv, SyncInv, NoneBreak, NEW c \in Calls, createMachineEntity(c)
  PROVE  RowsInv' /\ SyncInv'
<1>1. PICK m : m = call[c]
  OBVIOUS
<1>2. m \in TagCall /\ PlaceOK(m) /\ m.at = "making" /\ m.n \in Names /\ RowTypes /\ m.d \in Desks
  <2>1. m \in TagCall /\ PlaceOK(m) /\ CallOK(m) /\ m.at = "making" /\ RowTypes
    BY <1>1, Mine DEF createMachineEntity, At
  <2>2. m.f \in Files /\ m.d = DeskOf[m.f]
    BY <2>1 DEF PlaceOK, InPlace, CallOK, LinkerOK, Linkers, RowTypes
  <2> QED
    BY <2>1, <2>2, TagsConstants DEF PlaceOK
<1>3. UNCHANGED <<links, vocabulary, types, desks, files>> /\ index' = index /\ crossed' = crossed
  BY DEF createMachineEntity, baseVars
<1>4. Create(m.n, "machine") /\ Resolve(c, lastEntity')
  BY <1>1 DEF createMachineEntity
<1>5. PICK e : e = lastEntity + 1
  OBVIOUS
<1>6. /\ Known' = Known \cup {e} /\ e \notin Known /\ (\A a \in Known : entities'[a] = entities[a])
      /\ entities'[e] = [name |-> m.n, by |-> "machine"]
      /\ e \in EntityRids /\ lastEntity' = e /\ 1..lastEntity \subseteq 1..lastEntity' /\ lastEntity \in Nat
      /\ \A n, d : findHumanInDesk(n, d)' = findHumanInDesk(n, d)
  BY <1>2, <1>3, <1>4, <1>5, CreateAdds
<1>7. RowTypes'
  <2>1. lastEntity' \in 0..MaxEntities /\ Known' \subseteq 1..lastEntity'
    <3>1. e \in 1..lastEntity' /\ lastEntity' \in 0..MaxEntities
      BY <1>5, <1>6, KnownRids, <1>2
    <3> QED
      BY <1>2, <1>6, <3>1 DEF RowTypes
  <2>2. entities' \in [Known' -> Entity]
    <3>1. entities' = [a \in Known' |-> entities'[a]]
      BY <1>4 DEF Create, Known
    <3>2. \A a \in Known' : entities'[a] \in Entity
      BY <1>2, <1>6 DEF RowTypes, Entity
    <3> QED
      BY <3>1, <3>2
  <2> QED
    BY <1>2, <1>3, <2>1, <2>2 DEF RowTypes
<1>8. NamesOK'
  BY <1>3, <1>6 DEF RowsInv, NamesOK
<1>9. e \in Known' /\ Known \subseteq Known' /\ \A a \in Known : Machine(a)' = Machine(a)
  BY <1>6 DEF Machine
<1>10. \A k \in TagCall : CallOK(k) => CallOK(k)'
  BY <1>2, <1>3, <1>4, CreateKeepsCall
<1>11. Resolve(c, e)
  BY <1>4, <1>6
<1>12. RowsInv'
  BY <1>1, <1>2, <1>3, <1>6, <1>7, <1>8, <1>9, <1>10, <1>11, ResolveKeeps
<1>13. ASSUME NEW n \in Names
       PROVE  (Cardinality(Machines(n)) + Cardinality(Making(n)) <= Cardinality(Desks))'
  <2>1. Making(n)' \in SUBSET Making(n) /\ (n = m.n => m.d \notin Making(n)')
    BY <1>1, <1>2, <1>6, <1>11, MakingAfter DEF SyncInv
  <2>2. Cardinality(Machines(n)) + Cardinality(Making(n)) <= Cardinality(Desks)
    BY DEF SyncInv, MachineInv
  <2>3. PICK made : made = Making(n)'
    OBVIOUS
  <2>4. PICK its : its = Machines(n)'
    OBVIOUS
  <2>5. (Cardinality(Machines(n)) + Cardinality(Making(n)) <= Cardinality(Desks))' <=>
          Cardinality(its) + Cardinality(made) <= Cardinality(Desks)
    BY <2>3, <2>4
  <2>6. /\ IsFiniteSet(Machines(n)) /\ IsFiniteSet(Making(n))
        /\ Cardinality(Machines(n)) \in Nat /\ Cardinality(Making(n)) \in Nat /\ Cardinality(Desks) \in Nat
    BY MachinesFinite
  <2>7. CASE n = m.n
    <3>1. its = Machines(n) \cup {e} /\ e \notin Machines(n)
      BY <1>6, <2>4, <2>7 DEF Machines, Machine
    <3>2. Cardinality(its) = Cardinality(Machines(n)) + 1
      BY <2>6, <3>1, FS_AddElement
    <3>3. m.d \in Making(n)
      BY <1>1, <1>2, <2>7 DEF Making, At
    <3>4. Cardinality(Making(n) \ {m.d}) = Cardinality(Making(n)) - 1 /\ IsFiniteSet(Making(n) \ {m.d})
      BY <2>6, <3>3, FS_RemoveElement
    <3>5. made \in SUBSET (Making(n) \ {m.d})
      BY <2>1, <2>3, <2>7
    <3>6. Cardinality(made) <= Cardinality(Making(n)) - 1 /\ Cardinality(made) \in Nat
      BY <3>4, <3>5, FS_Subset, FS_CardinalityType
    <3> QED
      BY <2>2, <2>5, <2>6, <3>2, <3>6
  <2>8. CASE n # m.n
    <3>1. its = Machines(n)
      BY <1>6, <2>4, <2>8 DEF Machines, Machine
    <3>2. Cardinality(made) <= Cardinality(Making(n)) /\ Cardinality(made) \in Nat
      BY <2>1, <2>3, <2>6, FS_Subset, FS_CardinalityType
    <3> QED
      BY <2>2, <2>5, <2>6, <3>1, <3>2
  <2> QED
    BY <2>7, <2>8
<1>14. SyncInv'
  BY <1>1, <1>2, <1>3, <1>6, <1>11, <1>13, ResolveSyncs
<1> QED
  BY <1>12, <1>14

-----------------------------------------------------------------------------
(* The invariants of the specification.                                    *)

LEMMA RowsStart ==
  ASSUME TagsInit
  PROVE  RowsInv
<1>1. PICK n \in 0..MaxEntities : DOMAIN StartEntities = 1..n
  BY StartIsSound
<1>2. MaxEntities \in Nat /\ n \in Nat /\ n <= MaxEntities
  BY <1>1, TagsConstants
<1>3. lastEntity = n
  <2>1. Cardinality(1..n) = n
    BY <1>2, FS_Interval
  <2> QED
    BY <1>1, <2>1 DEF TagsInit
<1>4. /\ Known = 1..n /\ entities = StartEntities /\ links = StartLinks /\ vocabulary = StartVocabulary
      /\ types = Types /\ desks = Desks /\ files = Files
  BY <1>1 DEF TagsInit, Known
<1>5. /\ entities \in [Known -> Entity]
      /\ links \subseteq [e: Known, f: Files, region: BOOLEAN, run: Runs \cup {NoRun}, by: {"user", "machine"}, desk: Desks]
      /\ \A l \in links : l.desk = DeskOf[l.f] /\ (Machine(l.e) \/ <<l.e, l.desk>> \in vocabulary)
      /\ vocabulary \subseteq {e \in Known : ~Machine(e)} \X Desks
      /\ \A a, b \in Known : a # b /\ entities[a].name = entities[b].name /\ ~Machine(a) =>
           \A v, w \in vocabulary : v[1] = a /\ w[1] = b => v[2] # w[2]
  BY <1>1, <1>4, StartIsSound DEF Entity, Machine
<1>6. RowTypes
  <2>1. Known \subseteq EntityRids
    BY <1>2, <1>4 DEF EntityRids
  <2>2. links \subseteq TagLink /\ vocabulary \subseteq EntityRids \X Desks
    BY <1>5, <2>1 DEF TagLink
  <2> QED
    BY <1>2, <1>3, <1>4, <1>5, <2>2 DEF RowTypes
<1>7. SyncTypes
  <2>1. \A f \in Files : FieldsOf(f) \in SUBSET Field
    BY <1>6, FieldsTyped
  <2> QED
    BY <2>1 DEF TagsInit, SyncTypes
<1>8. NoCall \in TagCall /\ PlaceOK(NoCall) /\ CallOK(NoCall) /\ NoCall.at = "idle"
  BY <1>6, NoCallOK DEF NoCall
<1>9. call = [c \in Calls |-> NoCall]
  BY DEF TagsInit
<1>10. call \in [Calls -> TagCall] /\ (\A c \in Calls : PlaceOK(call[c])) /\ Meet /\ CallsOK
  BY <1>8, <1>9 DEF Meet, UnderWay, CallsOK
<1>11. LinksOK
  BY <1>4, <1>5 DEF LinksOK
<1>12. VocabularyOK
  BY <1>4, <1>5, TagsConstants DEF VocabularyOK
<1>13. NamesOK
  <2> SUFFICES ASSUME NEW d \in desks, NEW m \in Names, NEW a \in findHumanInDesk(m, d), NEW b \in findHumanInDesk(m, d), a # b
               PROVE  FALSE
    BY DEF NamesOK
  <2>1. /\ a \in Known /\ b \in Known /\ ~Machine(a) /\ entities[a].name = entities[b].name
        /\ <<a, d>> \in vocabulary /\ <<b, d>> \in vocabulary
    BY DEF findHumanInDesk
  <2>2. \A v, w \in vocabulary : v[1] = a /\ w[1] = b => v[2] # w[2]
    BY <1>5, <2>1
  <2> QED
    BY <2>1, <2>2
<1> QED
  BY <1>6, <1>7, <1>10, <1>11, <1>12, <1>13 DEF RowsInv

LEMMA SyncStart ==
  ASSUME TagsInit
  PROVE  SyncInv
<1>1. /\ Known = DOMAIN StartEntities /\ entities = StartEntities /\ links = StartLinks /\ files = Files
      /\ call = [c \in Calls |-> NoCall] /\ index = [f \in Files |-> FieldsOf(f)]
  BY DEF TagsInit, Known
<1>2. \A e \in Known : Machine(e) => \E l \in links : l.e = e /\ l.desk \in Desks
  BY <1>1, StartIsSound DEF Machine
<1>3. \A n \in Names : Cardinality(Machines(n)) <= Cardinality(Desks)
  BY <1>1, StartIsSound DEF Machine, Machines
<1>4. UsedInv
  BY <1>2 DEF UsedInv, LinksOf
<1>5. NoCall.at = "idle" /\ NoCall.op = "none" /\ NoCall.files = {} /\ FilesOK(NoCall)
  BY DEF NoCall, FilesOK
<1>6. Finders = {} /\ \A n : Making(n) = {}
  BY <1>1, <1>5 DEF Finders, Making, At
<1>7. ASSUME NEW n \in Names PROVE Cardinality(Machines(n)) + Cardinality(Making(n)) <= Cardinality(Desks)
  <2>1. Cardinality(Making(n)) = 0
    BY <1>6, FS_EmptySet
  <2>2. IsFiniteSet(Desks) /\ Cardinality(Desks) \in Nat
    BY TagsConstants, FS_CardinalityType
  <2>3. Cardinality(Machines(n)) <= Cardinality(Desks)
    BY <1>3
  <2>4. Machines(n) \in SUBSET (DOMAIN StartEntities) /\ \E m \in Nat : DOMAIN StartEntities = 1..m
    BY <1>1, StartIsSound, TagsConstants DEF Machines
  <2>5. IsFiniteSet(Machines(n))
    <3>1. PICK m \in Nat : DOMAIN StartEntities = 1..m
      BY <2>4
    <3>2. IsFiniteSet(1..m)
      BY FS_Interval
    <3> QED
      BY <2>4, <3>1, <3>2, FS_Subset
  <2>6. Cardinality(Machines(n)) \in Nat
    BY <2>5, FS_CardinalityType
  <2> QED
    BY <2>1, <2>2, <2>3, <2>6
<1>8. MachineInv
  BY <1>6, <1>7 DEF MachineInv
<1>9. IndexInv
  BY <1>1, <1>5 DEF IndexInv, Sends, At
<1> QED
  BY <1>4, <1>8, <1>9 DEF SyncInv

LEMMA RequestsKeep ==
  ASSUME RowsInv, SyncInv, NoneBreak, NEW c \in Calls, TagRequest(c)
  PROVE  RowsInv' /\ SyncInv'
<1>1. CASE \E t \in Types : createEntityType(c, t) \/ deleteEntityType(c, t)
  BY <1>1, TypeRequestsKeep
<1>2. CASE \E d \in Desks, n \in Names : createInDesk(c, d, n)
  BY <1>2, CreateInDeskKeeps
<1>3. CASE \E f \in Files, n \in Names : createEntitiesAndLink(c, f, n)
  BY <1>3, CreateAndLinkKeeps
<1>4. CASE \E d, from \in Desks : importIntoDesk(c, d, {e \in Known : <<e, from>> \in vocabulary})
  <2>1. PICK d \in Desks, from \in Desks : importIntoDesk(c, d, {e \in Known : <<e, from>> \in vocabulary})
    BY <1>4
  <2>2. {e \in Known : <<e, from>> \in vocabulary} \in SUBSET Known
    OBVIOUS
  <2> QED
    BY <2>1, <2>2, ImportKeeps
<1>5. CASE \E d \in Desks, e \in Known : importIntoDesk(c, d, {e})
  <2>1. PICK d \in Desks, e \in Known : importIntoDesk(c, d, {e})
    BY <1>5
  <2>2. {e} \in SUBSET Known
    OBVIOUS
  <2> QED
    BY <2>1, <2>2, ImportKeeps
<1>6. CASE \E e \in Known, n \in Names : rename(c, e, n)
  BY <1>6, RenameKeeps
<1>7. CASE \E e \in Known, f \in Files, region \in BOOLEAN : link(c, e, f, region)
  BY <1>7, LinkKeeps
<1>8. CASE \E e \in Known, f \in Files : unlink(c, e, f)
  BY <1>8, UnlinkKeeps
<1>9. CASE \E e \in Known, d \in Desks : removeFromDesk(c, e, d)
  BY <1>9, RemoveFromDeskKeeps
<1>10. CASE \E e \in Known : deleteEverywhere(c, e)
  BY <1>10, DeleteEverywhereKeeps
<1> QED
  BY <1>1, <1>2, <1>3, <1>4, <1>5, <1>6, <1>7, <1>8, <1>9, <1>10 DEF TagRequest

LEMMA CallbacksKeep ==
  ASSUME RowsInv, SyncInv, NoneBreak, NEW c \in Calls, RunCallback(c)
  PROVE  RowsInv' /\ SyncInv'
<1>1. CASE \E f \in Files, run \in Runs, names \in SUBSET Names : autotag(c, f, names, run)
  BY <1>1, AutotagKeeps
<1>2. CASE \E f \in Files, run \in Runs : removeMachineLinksOfRun(c, f, run)
  BY <1>2, RemoveRunKeeps
<1>3. CASE \E f \in Files : deleteFile(c, f)
  BY <1>3, DeleteFileKeeps
<1>4. CASE \E d \in Desks : deleteDesk(c, d)
  BY <1>4, DeleteDeskKeeps
<1> QED
  BY <1>1, <1>2, <1>3, <1>4 DEF RunCallback

LEMMA StepsKeep ==
  ASSUME RowsInv, SyncInv, NoneBreak, NEW c \in Calls, TagStep(c)
  PROVE  RowsInv' /\ SyncInv'
BY WriteTypeKeeps, CreateEntityKeeps, AttachKeeps, ImportNextKeeps, RenameEntityKeeps, LinkFoundKeeps,
   CreateTagLinkKeeps, ReindexReadKeeps, ReindexSendKeeps, PruneCountKeeps, PruneDeleteKeeps, AutotagNextKeeps,
   FindMachineKeeps, CreateMachineKeeps, DropLinksKeeps, DeleteDeskLinksKeeps, DeleteDeskRowKeeps, LeaveDeskKeeps,
   VacateDeskKeeps, CountDesksKeeps, DeleteAllLinksKeeps, DeleteAllRowsKeeps, DeleteEntityKeeps DEF TagStep

LEMMA RowsIdle ==
  ASSUME RowsInv, UNCHANGED tagVars
  PROVE  RowsInv'
<1>1. /\ entities' = entities /\ lastEntity' = lastEntity /\ links' = links /\ vocabulary' = vocabulary
      /\ types' = types /\ desks' = desks /\ files' = files /\ index' = index /\ crossed' = crossed
      /\ creating' = creating /\ call' = call
  BY DEF tagVars
<1>2. RowTypes' /\ SyncTypes'
  BY <1>1 DEF RowsInv, RowTypes, SyncTypes, Known
<1>3. call' \in [Calls -> TagCall] /\ (\A c \in Calls : PlaceOK(call[c]))' /\ Meet'
  BY <1>1 DEF RowsInv, Meet, UnderWay
<1>4. CallsOK'
  <2> SUFFICES ASSUME NEW c \in Calls PROVE CallOK(call[c])'
    BY DEF CallsOK
  <2>1. PICK m : m = call[c]
    OBVIOUS
  <2>2. CallOK(m)
    BY <2>1 DEF RowsInv, CallsOK
  <2>3. CallOK(m)'
    BY <1>1, <2>2, CallSame DEF nameVars
  <2> QED
    BY <1>1, <2>1, <2>3
<1>5. LinksOK'
  BY <1>1 DEF RowsInv, LinksOK, Known, Machine, At, RowsToDrop
<1>6. VocabularyOK' /\ NamesOK'
  BY <1>1 DEF RowsInv, VocabularyOK, NamesOK, Known, Machine, Vacates, findHumanInDesk
<1> QED
  BY <1>2, <1>3, <1>4, <1>5, <1>6 DEF RowsInv

LEMMA SyncIdle ==
  ASSUME SyncInv, UNCHANGED tagVars
  PROVE  SyncInv'
<1>1. /\ entities' = entities /\ links' = links /\ files' = files /\ index' = index /\ crossed' = crossed
      /\ creating' = creating /\ call' = call
  BY DEF tagVars
<1>2. /\ Known' = Known /\ (\A e \in Known : Machine(e)' = Machine(e)) /\ (\A e : LinksOf(e)' = LinksOf(e))
      /\ \A f : FieldsOf(f)' = FieldsOf(f)
  BY <1>1, FieldsSame
<1>3. UsedInv'
  BY <1>1, <1>2 DEF SyncInv, UsedInv, LooksAt
<1>4. \A n : Machines(n)' = Machines(n) /\ Making(n)' = Making(n) /\ Finders' = Finders
  BY <1>1 DEF Machines, Making, Finders, Known, Machine, At
<1>5. MachineInv'
  BY <1>1, <1>4 DEF SyncInv, MachineInv
<1>6. (\A c \in Calls : FilesOK(call[c]))'
  <2> SUFFICES ASSUME NEW c \in Calls PROVE FilesOK(call[c])'
    OBVIOUS
  <2>1. PICK m : m = call[c]
    OBVIOUS
  <2>2. FilesOK(m)'
    BY <1>1, <2>1, FilesSame DEF SyncInv, IndexInv
  <2> QED
    BY <1>1, <2>1, <2>2
<1>7. \A c \in Calls : \A f : (Sends(c, f)' <=> Sends(c, f)) /\ call'[c] = call[c]
  BY <1>1 DEF Sends, At
<1>8. ASSUME NEW f \in files \ crossed
      PROVE  /\ \A c, o \in Calls : Sends(c, f)' /\ Sends(o, f)' => c = o
             /\ \/ \E c \in Calls : WillRead(call'[c], f)
                \/ \E c \in Calls : Sends(c, f)' /\ call'[c].fields = FieldsOf(f)'
                \/ index'[f] = FieldsOf(f)' /\ \A c \in Calls : ~Sends(c, f)'
  <2>1. /\ \A c, o \in Calls : Sends(c, f) /\ Sends(o, f) => c = o
        /\ \/ \E c \in Calls : WillRead(call[c], f)
           \/ \E c \in Calls : Sends(c, f) /\ call[c].fields = FieldsOf(f)
           \/ index[f] = FieldsOf(f) /\ \A c \in Calls : ~Sends(c, f)
    BY DEF SyncInv, IndexInv
  <2> QED
    BY <1>1, <1>2, <1>7, <2>1
<1>9. (\A f \in files \ crossed :
         /\ \A c, o \in Calls : Sends(c, f) /\ Sends(o, f) => c = o
         /\ \/ \E c \in Calls : WillRead(call[c], f)
            \/ \E c \in Calls : Sends(c, f) /\ call[c].fields = FieldsOf(f)
            \/ index[f] = FieldsOf(f) /\ \A c \in Calls : ~Sends(c, f))'
  BY <1>1, <1>8 DEF WillRead
<1>10. IndexInv'
  BY <1>6, <1>9 DEF IndexInv
<1> QED
  BY <1>3, <1>5, <1>10 DEF SyncInv

LEMMA TagsHold ==
  ASSUME NoneBreak
  PROVE  TagsSpec => [](RowsInv /\ SyncInv)
<1>1. TagsInit => RowsInv /\ SyncInv
  BY RowsStart, SyncStart
<1>2. RowsInv /\ SyncInv /\ [TagsNext]_tagVars => RowsInv' /\ SyncInv'
  BY RequestsKeep, CallbacksKeep, StepsKeep, RowsIdle, SyncIdle DEF TagsNext
<1> QED
  BY <1>1, <1>2, PTL DEF TagsSpec

-----------------------------------------------------------------------------
(* What the runs check, for every value of the constants.                  *)

LEMMA OneTag ==
  ASSUME RowsInv, SyncInv
  PROVE  TagsTypeOK /\ OneTagPerName
<1>1. TagsTypeOK
  <2>1. \A c \in Calls : call[c].e \in 0..MaxEntities /\ call[c].todo \subseteq EntityRids
    BY DEF RowsInv, TagCall
  <2>2. /\ DOMAIN index = Files /\ crossed \subseteq Files
        /\ creating \subseteq (Desks \cup {NoDesk}) \X Names
    BY DEF RowsInv, SyncTypes
  <2> QED
    BY <2>1, <2>2 DEF RowsInv, RowTypes, TagsTypeOK, Entity, TagLink
<1>2. ASSUME NEW d \in desks, NEW n \in Names PROVE Cardinality(findHumanInDesk(n, d)) <= 1
  <2>1. \A a, b \in findHumanInDesk(n, d) : a = b
    BY DEF RowsInv, NamesOK
  <2>2. CASE findHumanInDesk(n, d) = {}
    BY <2>2, FS_EmptySet
  <2>3. CASE findHumanInDesk(n, d) # {}
    <3>1. PICK a : a \in findHumanInDesk(n, d)
      BY <2>3
    <3>2. findHumanInDesk(n, d) = {a}
      BY <2>1, <3>1
    <3>3. Cardinality({a}) = 1
      BY FS_Singleton
    <3>4. Cardinality(findHumanInDesk(n, d)) = 1
      BY <3>2, <3>3
    <3> QED
      BY <3>4
  <2> QED
    BY <2>2, <2>3
<1>3. ASSUME NEW n \in Names
      PROVE  Cardinality({e \in Known : Machine(e) /\ entities[e].name = n}) <= Cardinality(Desks)
  <2>1. Cardinality(Machines(n)) + Cardinality(Making(n)) <= Cardinality(Desks)
    BY DEF SyncInv, MachineInv
  <2>2. Cardinality(Machines(n)) <= Cardinality(Desks)
    BY <2>1, MachinesFinite
  <2> QED
    BY <2>2 DEF Machines
<1> QED
  BY <1>1, <1>2, <1>3 DEF OneTagPerName

\* The rows of the tags hold together, whatever calls are under way and however
\* their statements interleave, as long as none that would break them overlap:
\* the checks that create, import, rename and link make before they write, and
\* the order in which the deletes take their rows away, are enough.
THEOREM VocabularyStaysSound ==
  ASSUME NoneBreak
  PROVE  TagsSpec => []VocabularyIsSound
<1>1. ASSUME RowsInv, SyncInv PROVE VocabularyIsSound
  <2>1. TagsTypeOK /\ OneTagPerName
    BY <1>1, OneTag
  <2>2. ASSUME Quiet
        PROVE  /\ \A c \in Calls : call[c].at = "idle" /\ call[c].op = "none"
               /\ \A l \in links : l.e \in Known /\ l.f \in files /\ (Machine(l.e) \/ <<l.e, l.desk>> \in vocabulary)
               /\ \A v \in vocabulary : v[1] \in Known /\ v[2] \in desks
    <3>1. \A c \in Calls : call[c].at = "idle" /\ call[c].op = "none"
      BY <1>1, <2>2 DEF Quiet, UnderWay, RowsInv, PlaceOK, InPlace
    <3>2. \A l \in links : l.e \in Known /\ l.f \in files /\ (Machine(l.e) \/ <<l.e, l.desk>> \in vocabulary)
      BY <1>1, <3>1 DEF RowsInv, LinksOK, At
    <3>3. \A v \in vocabulary : v[1] \in Known /\ v[2] \in desks
      BY <1>1, <3>1 DEF RowsInv, VocabularyOK, Vacates
    <3> QED
      BY <3>1, <3>2, <3>3
  <2>3. NothingDangles /\ LinksFollowVocabulary
    BY <2>2 DEF NothingDangles, LinksFollowVocabulary
  <2> QED
    BY <2>1, <2>3 DEF VocabularyIsSound
<1> QED
  BY <1>1, TagsHold, PTL

\* A machine tag that no file carries is gone when the calls are over: who
\* takes its last row away has noted it, and looks again before it deletes.
THEOREM MachineTagsStayUsed ==
  ASSUME NoneBreak
  PROVE  TagsSpec => []MachineTagsAreUsed
<1>1. ASSUME RowsInv, SyncInv PROVE MachineTagsAreUsed
  <2> SUFFICES ASSUME Quiet, NEW e \in Known, Machine(e), LinksOf(e) = {} PROVE FALSE
    BY DEF MachineTagsAreUsed
  <2>1. \A c \in Calls : call[c].at = "idle" /\ call[c].op = "none"
    BY <1>1 DEF Quiet, UnderWay, RowsInv, PlaceOK, InPlace
  <2>2. PICK c \in Calls : LooksAt(call[c], e)
    BY <1>1 DEF SyncInv, UsedInv
  <2> QED
    BY <2>1, <2>2 DEF LooksAt
<1> QED
  BY <1>1, TagsHold, PTL

\* The tag fields of a file in the search index are those of its rows when the
\* calls are over, unless two calls were sending fields of it at once: whoever
\* changes a row reads the fields of its file after the change.
THEOREM IndexFollowsRows ==
  ASSUME NoneBreak
  PROVE  TagsSpec => []IndexIsCurrent
<1>1. ASSUME RowsInv, SyncInv PROVE IndexIsCurrent
  <2> SUFFICES ASSUME Quiet, NEW f \in files \ crossed PROVE index[f] = FieldsOf(f)
    BY DEF IndexIsCurrent
  <2>1. \A c \in Calls : call[c].at = "idle" /\ call[c].op = "none"
    BY <1>1 DEF Quiet, UnderWay, RowsInv, PlaceOK, InPlace
  <2>2. \A c \in Calls : ~WillRead(call[c], f) /\ ~Sends(c, f)
    BY <1>1, <2>1, IdleSees DEF Sends, At
  <2> QED
    BY <1>1, <2>2 DEF SyncInv, IndexInv
<1> QED
  BY <1>1, TagsHold, PTL

\* A tag goes by one of two statements.
LEMMA GoesBy ==
  ASSUME RowsInv, NEW c \in Calls, TagRequest(c) \/ RunCallback(c) \/ TagStep(c), NEW e \in Known, e \notin DOMAIN entities'
  PROVE  pruneDelete(c) \/ deleteEntity(c)
<1>1. entities' # entities
  BY DEF Known
<1>2. ~TagRequest(c)
  BY <1>1 DEF TagRequest, createEntityType, deleteEntityType, createInDesk, createEntitiesAndLink, importIntoDesk, rename,
              link, unlink, removeFromDesk, deleteEverywhere, nameVars
<1>3. ~RunCallback(c)
  BY <1>1 DEF RunCallback, autotag, removeMachineLinksOfRun, deleteFile, deleteDesk, nameVars
<1>4. \A n, by : ~Create(n, by)
  BY DEF Create
<1>5. ~createEntity(c) /\ ~createMachineEntity(c)
  BY <1>4 DEF createEntity, createMachineEntity
<1>6. ~renameEntity(c)
  BY DEF renameEntity
<1> QED
  BY <1>1, <1>2, <1>3, <1>5, <1>6 DEF TagStep, writeType, attachToDesk, importNext, linkFound, createTagLink, reindexRead,
     reindexSend, pruneCount, autotagNext, findMachineEntity, dropLinks, deleteDeskLinks, deleteDeskRow, leaveDesk,
     vacateDesk, countDesks, deleteAllLinks, deleteAllRows, nameVars

\* A tag made by hand is deleted only when no desk has it: pruning takes only
\* machine tags, and removing a tag from a desk or deleting a desk asks the
\* other desks first.
THEOREM UserTagsStay ==
  ASSUME NoneBreak
  PROVE  TagsSpec => UserTagsKept
<1>1. ASSUME RowsInv, [TagsNext]_tagVars, NEW e \in Known, ~Machine(e), e \notin DOMAIN entities'
      PROVE  ~\E d \in desks' : <<e, d>> \in vocabulary'
  <2>1. CASE TagsNext
    <3>1. PICK c \in Calls : TagRequest(c) \/ RunCallback(c) \/ TagStep(c)
      BY <2>1 DEF TagsNext
    <3>2. PICK m : m = call[c]
      OBVIOUS
    <3>3. pruneDelete(c) \/ deleteEntity(c)
      BY <1>1, <3>1, GoesBy
    <3>4. e = m.e /\ vocabulary' = vocabulary
      BY <1>1, <3>2, <3>3 DEF pruneDelete, deleteEntity, Without, Known
    <3>5. CallOK(m)
      BY <1>1, <3>2, Mine
    <3>6. m.at # "pruning"
      BY <1>1, <3>4, <3>5 DEF CallOK, RemoverOK
    <3>7. m.at = "entity"
      BY <3>2, <3>3, <3>6 DEF pruneDelete, deleteEntity, At
    <3>8. NoDeskHas(e)
      BY <3>4, <3>5, <3>7 DEF CallOK, TakerOK
    <3> QED
      BY <3>4, <3>8 DEF NoDeskHas
  <2>2. CASE UNCHANGED tagVars
    BY <1>1, <2>2 DEF tagVars, Known
  <2> QED
    BY <1>1, <2>1, <2>2
<1>2. RowsInv /\ [TagsNext]_tagVars =>
        [\A e \in Known : (~Machine(e) /\ e \notin DOMAIN entities') =>
           ~\E d \in desks' : <<e, d>> \in vocabulary']_tagVars
  BY <1>1
<1> QED
  BY <1>2, TagsHold, PTL DEF TagsSpec, UserTagsKept

-----------------------------------------------------------------------------
(* Tags made by hand that no desk has: someone is about to put each on a   *)
(* desk, or to delete it.                                                  *)

HandPlaces == {"attaching", "vacating", "lastDesk", "allLinks", "allRows", "entity"}
TakenPlaces == {"lastDesk", "allLinks", "entity"}

HoldsHand(k, e) ==
  \/ k.at \in {"attaching", "allLinks", "allRows", "entity"} /\ k.e = e
  \/ (k.at = "lastDesk" \/ (k.op = "deleteDesk" /\ k.at \in {"allLinks", "entity"})) /\ e \in k.todo

\* Who is to empty a desk has noted its tags; who took one tag off a desk looks
\* at no other.
NotesOK(k) ==
  /\ k.at = "vacating" => \A v \in vocabulary : v[2] = k.d => v[1] \in k.todo
  /\ k.op = "removeFromDesk" /\ k.at \in TakenPlaces => k.todo \subseteq {k.e}

HandsHeld == \A e \in Known : ~Machine(e) /\ NoDeskHas(e) => \E c \in Calls : HoldsHand(call[c], e)
HeldInv == HandsHeld /\ \A c \in Calls : NotesOK(call[c])

LEMMA NoHands ==
  ASSUME NEW k, k.at \notin HandPlaces
  PROVE  NotesOK(k) /\ NotesOK(k)' /\ \A e : ~HoldsHand(k, e)
BY DEF HandPlaces, TakenPlaces, NotesOK, HoldsHand

\* Call c goes to k: each tag without a desk is in its hand then, or is and was
\* in another's.
LEMMA HeldGoes ==
  ASSUME RowsInv, HeldInv, NEW c \in Calls, NEW k, Goto(c, k),
         \A e \in Known' : ~Machine(e)' /\ NoDeskHas(e)' =>
           HoldsHand(k, e) \/ (e \in Known /\ ~Machine(e) /\ NoDeskHas(e) /\ ~HoldsHand(call[c], e)),
         NotesOK(k)',
         \A o \in Calls \ {c} : call[o].at = "vacating" =>
           \A v \in vocabulary' : v \in vocabulary \/ v[2] # call[o].d
  PROVE  HeldInv'
<1>1. call'[c] = k /\ \A o \in Calls \ {c} : call'[o] = call[o]
  BY DEF RowsInv, Goto
<1>2. ASSUME NEW e \in Known', ~Machine(e)', NoDeskHas(e)' PROVE \E o \in Calls : HoldsHand(call'[o], e)
  <2>1. CASE HoldsHand(k, e)
    BY <1>1, <2>1
  <2>2. CASE e \in Known /\ ~Machine(e) /\ NoDeskHas(e) /\ ~HoldsHand(call[c], e)
    <3>1. PICK o \in Calls : HoldsHand(call[o], e)
      BY <2>2 DEF HeldInv, HandsHeld
    <3>2. o # c
      BY <2>2, <3>1
    <3> QED
      BY <1>1, <3>1, <3>2
  <2> QED
    BY <1>2, <2>1, <2>2
<1>3. HandsHeld'
  BY <1>2 DEF HandsHeld, HoldsHand
<1>4. ASSUME NEW o \in Calls PROVE NotesOK(call[o])'
  <2>1. PICK m : m = call[o]
    OBVIOUS
  <2>2. CASE o = c
    BY <1>1, <2>2 DEF NotesOK
  <2>3. CASE o # c
    <3>1. call'[o] = m /\ NotesOK(m)
      BY <1>1, <2>1, <2>3 DEF HeldInv
    <3>2. m.at = "vacating" => \A v \in vocabulary' : v \in vocabulary \/ v[2] # m.d
      BY <2>1, <2>3
    <3> QED
      BY <3>1, <3>2 DEF NotesOK
  <2> QED
    BY <2>2, <2>3
<1> QED
  BY <1>3, <1>4 DEF HeldInv

\* A call that has no tag in hand goes on, and none loses a desk.
LEMMA HeldMoves ==
  ASSUME RowsInv, HeldInv, NEW c \in Calls, NEW k, Goto(c, k), call[c].at \notin HandPlaces,
         k.at \notin HandPlaces \ {"attaching"}, vocabulary' = vocabulary,
         Known' \subseteq Known, \A e \in Known' : Machine(e)' = Machine(e)
  PROVE  HeldInv'
<1>1. NotesOK(k)'
  BY DEF NotesOK, HandPlaces, TakenPlaces
<1>2. \A e : ~HoldsHand(call[c], e)
  BY NoHands
<1>3. \A e : NoDeskHas(e)' <=> NoDeskHas(e)
  BY DEF NoDeskHas
<1> QED
  BY <1>1, <1>2, <1>3, HeldGoes

\* The rows stay as they are.
LEMMA RowsSame ==
  ASSUME UNCHANGED <<nameVars, vocabulary>>
  PROVE  vocabulary' = vocabulary /\ Known' = Known /\ \A e : Machine(e)' = Machine(e)
BY DEF nameVars, Known, Machine

\* A request is no call with a tag in hand, and has none yet unless it deletes
\* the tag.
LEMMA HeldBegun ==
  ASSUME RowsInv, HeldInv, NEW c \in Calls, NEW op, NEW to, Begin(c, op, to),
         NEW k, k = [to EXCEPT !.op = op], k.at \notin {"vacating", "lastDesk", "allRows", "entity"},
         k.at \in TakenPlaces => k.op = "deleteEverywhere", UNCHANGED <<nameVars, vocabulary>>
  PROVE  HeldInv'
<1>1. call[c].at = "idle" /\ call' = [call EXCEPT ![c] = k]
  BY DEF Begin
<1>2. call'[c] = k /\ \A o \in Calls \ {c} : call'[o] = call[o]
  BY <1>1 DEF RowsInv
<1>3. vocabulary' = vocabulary /\ Known' = Known /\ (\A e : Machine(e)' = Machine(e)) /\ \A e : NoDeskHas(e)' <=> NoDeskHas(e)
  BY RowsSame DEF NoDeskHas
<1>4. HandsHeld'
  <2> SUFFICES ASSUME NEW e \in Known', ~Machine(e)', NoDeskHas(e)' PROVE \E o \in Calls : HoldsHand(call'[o], e)
    BY DEF HandsHeld, HoldsHand
  <2>1. PICK o \in Calls : HoldsHand(call[o], e)
    BY <1>3 DEF HeldInv, HandsHeld
  <2>2. o # c
    BY <1>1, <2>1 DEF HoldsHand
  <2> QED
    BY <1>2, <2>1, <2>2
<1>5. ASSUME NEW o \in Calls PROVE NotesOK(call[o])'
  <2>1. CASE o = c
    BY <1>2, <2>1 DEF NotesOK, TakenPlaces
  <2>2. CASE o # c
    <3>1. NotesOK(call[o]) /\ call'[o] = call[o]
      BY <1>2, <2>2 DEF HeldInv
    <3> QED
      BY <1>3, <3>1 DEF NotesOK
  <2> QED
    BY <2>1, <2>2
<1> QED
  BY <1>4, <1>5 DEF HeldInv

LEMMA HeldRequests ==
  ASSUME RowsInv, HeldInv, NEW c \in Calls, TagRequest(c) \/ RunCallback(c)
  PROVE  HeldInv'
<1>1. ASSUME NEW op, NEW to, Begin(c, op, to), UNCHANGED <<nameVars, vocabulary>>,
             to.at \notin {"vacating", "lastDesk", "allRows", "entity"}, DOMAIN to = DOMAIN NoCall,
             to.at \in TakenPlaces => op = "deleteEverywhere"
      PROVE  HeldInv'
  <2>1. PICK k : k = [to EXCEPT !.op = op]
    OBVIOUS
  <2>2. k.at = to.at /\ k.op = op
    BY <1>1, <2>1 DEF NoCall
  <2> QED
    BY <1>1, <2>1, <2>2, HeldBegun
<1>2. CASE TagRequest(c)
  <2>1. CASE \E t \in Types : createEntityType(c, t) \/ deleteEntityType(c, t)
    BY <1>1, <2>1 DEF createEntityType, deleteEntityType, NoCall, TakenPlaces
  <2>2. CASE \E d \in Desks, n \in Names : createInDesk(c, d, n)
    BY <1>1, <2>2 DEF createInDesk, NoCall, TakenPlaces
  <2>3. CASE \E f \in Files, n \in Names : createEntitiesAndLink(c, f, n)
    BY <1>1, <2>3 DEF createEntitiesAndLink, NoCall, TakenPlaces
  <2>4. ASSUME NEW d \in Desks, NEW rids, importIntoDesk(c, d, rids) PROVE HeldInv'
    BY <1>1, <2>4 DEF importIntoDesk, NoCall, TakenPlaces
  <2>5. CASE \E e \in Known, n \in Names : rename(c, e, n)
    BY <1>1, <2>5 DEF rename, NoCall, TakenPlaces
  <2>6. CASE \E e \in Known, f \in Files, region \in BOOLEAN : link(c, e, f, region)
    BY <1>1, <2>6 DEF link, NoCall, TakenPlaces
  <2>7. CASE \E e \in Known, f \in Files : unlink(c, e, f)
    BY <1>1, <2>7 DEF unlink, NoCall, TakenPlaces
  <2>8. CASE \E e \in Known, d \in Desks : removeFromDesk(c, e, d)
    BY <1>1, <2>8 DEF removeFromDesk, NoCall, TakenPlaces
  <2>9. CASE \E e \in Known : deleteEverywhere(c, e)
    BY <1>1, <2>9 DEF deleteEverywhere, NoCall, TakenPlaces
  <2> QED
    BY <1>2, <2>1, <2>2, <2>3, <2>4, <2>5, <2>6, <2>7, <2>8, <2>9 DEF TagRequest
<1>3. CASE RunCallback(c)
  <2>1. ASSUME NEW f, NEW run, NEW names, autotag(c, f, names, run) PROVE HeldInv'
    BY <1>1, <2>1 DEF autotag, NoCall, TakenPlaces
  <2>2. CASE \E f \in Files, run \in Runs : removeMachineLinksOfRun(c, f, run)
    BY <1>1, <2>2 DEF removeMachineLinksOfRun, NoCall, TakenPlaces
  <2>3. CASE \E f \in Files : deleteFile(c, f)
    BY <1>1, <2>3 DEF deleteFile, NoCall, TakenPlaces
  <2>4. CASE \E d \in Desks : deleteDesk(c, d)
    BY <1>1, <2>4 DEF deleteDesk, NoCall, TakenPlaces
  <2> QED
    BY <1>3, <2>1, <2>2, <2>3, <2>4 DEF RunCallback
<1> QED
  BY <1>2, <1>3

\* What is made of a call: its place, and what is in its hand.
LEMMA Remade ==
  ASSUME RowsInv, NEW c \in Calls, NEW m, m = call[c], NEW at, NEW e, NEW todo,
         NEW k, k = [m EXCEPT !.at = at, !.e = e, !.todo = todo]
  PROVE  k.at = at /\ k.e = e /\ k.todo = todo /\ k.op = m.op /\ k.d = m.d
<1>1. m \in TagCall
  BY Mine
<1> QED
  BY <1>1 DEF TagCall

\* Steps of a call with no tag in hand.
LEMMA HeldPlainSteps ==
  ASSUME RowsInv, HeldInv, NEW c \in Calls,
         \/ writeType(c) \/ importNext(c) \/ renameEntity(c) \/ linkFound(c) \/ createTagLink(c) \/ reindexRead(c)
         \/ reindexSend(c) \/ pruneCount(c) \/ pruneDelete(c) \/ autotagNext(c) \/ dropLinks(c) \/ deleteDeskLinks(c)
  PROVE  HeldInv'
<1>1. PICK m : m = call[c]
  OBVIOUS
<1>2. m \in TagCall /\ PlaceOK(m) /\ Known \subseteq 1..lastEntity
  BY <1>1, Mine DEF RowTypes
<1>3. ASSUME NEW k, Goto(c, k), m.at \notin HandPlaces, k.at \notin HandPlaces \ {"attaching"}, UNCHANGED <<nameVars, vocabulary>>
      PROVE  HeldInv'
  BY <1>1, <1>3, RowsSame, HeldMoves
<1>4. CASE writeType(c)
  BY <1>1, <1>3, <1>4 DEF writeType, At, HandPlaces, NoCall
<1>5. CASE importNext(c)
  <2>1. m.at = "importing" /\ UNCHANGED <<nameVars, vocabulary>>
    BY <1>1, <1>5 DEF importNext, At
  <2>2. \/ Goto(c, NoCall)
        \/ \E e \in m.todo, at \in {"importing", "attaching"} : Goto(c, [m EXCEPT !.todo = m.todo \ {e}, !.e = e, !.at = at])
    BY <1>1, <1>5 DEF importNext
  <2>3. CASE Goto(c, NoCall)
    BY <1>3, <2>1, <2>3 DEF NoCall, HandPlaces
  <2>4. ASSUME NEW e \in m.todo, NEW at \in {"importing", "attaching"}, Goto(c, [m EXCEPT !.todo = m.todo \ {e}, !.e = e, !.at = at])
        PROVE  HeldInv'
    <3>1. PICK k : k = [m EXCEPT !.todo = m.todo \ {e}, !.e = e, !.at = at]
      OBVIOUS
    <3>2. k.at = at /\ Goto(c, k)
      BY <1>2, <2>4, <3>1 DEF TagCall
    <3> QED
      BY <1>3, <2>1, <2>4, <3>2 DEF HandPlaces
  <2> QED
    BY <2>2, <2>3, <2>4
<1>6. CASE renameEntity(c)
  <2>1. PICK k : k = [m EXCEPT !.at = "reading", !.files = linkedFiles(m.e, Desks)]
    OBVIOUS
  <2>2. k.at = "reading" /\ m.at = "renaming" /\ Goto(c, k) /\ vocabulary' = vocabulary
    BY <1>1, <1>2, <1>6, <2>1 DEF renameEntity, At, TagCall
  <2>3. entities' = [e \in Known |-> IF e = m.e THEN [entities[e] EXCEPT !.name = m.n] ELSE entities[e]]
    BY <1>1, <1>6 DEF renameEntity
  <2>4. ASSUME NEW e \in Known PROVE entities'[e].by = entities[e].by
    <3>1. entities[e] \in Entity
      BY Mine DEF RowTypes
    <3> QED
      BY <2>3, <3>1 DEF Entity
  <2>5. Known' = Known
    BY <2>3 DEF Known
  <2>6. \A e \in Known' : Machine(e)' = Machine(e)
    BY <2>4, <2>5 DEF Machine
  <2> QED
    BY <1>1, <2>2, <2>5, <2>6, HeldMoves DEF HandPlaces
<1>7. CASE linkFound(c)
  <2>1. m.at = "linking" /\ UNCHANGED <<nameVars, vocabulary>> /\ m.op \in {"createAndLink", "autotag"}
    BY <1>1, <1>2, <1>7 DEF linkFound, At, PlaceOK, InPlace
  <2>2. \E k : Goto(c, k) /\ k.at \in {"inserting", "naming", "idle"}
    <3>1. CASE MayLink(m.e, m.f)
      BY <1>1, <1>2, <1>7, <3>1 DEF linkFound, TagCall
    <3>2. CASE ~MayLink(m.e, m.f)
      <4>1. PICK k : k = AfterLink(m, FALSE)
        OBVIOUS
      <4>2. Goto(c, k)
        BY <1>1, <1>7, <3>2, <4>1 DEF linkFound
      <4>3. k = [m EXCEPT !.at = "naming"] \/ k = NoCall
        BY <2>1, <4>1 DEF AfterLink
      <4>4. k.at \in {"naming", "idle"}
        BY <1>2, <4>3 DEF TagCall, NoCall
      <4> QED
        BY <4>2, <4>4
    <3> QED
      BY <3>1, <3>2
  <2> QED
    BY <1>3, <2>1, <2>2 DEF HandPlaces
<1>8. CASE createTagLink(c)
  <2>1. m.at = "inserting" /\ UNCHANGED <<nameVars, vocabulary>>
    BY <1>1, <1>8 DEF createTagLink, At
  <2>2. m.f \in Files
    BY <1>1, <1>2, <2>1, Mine DEF PlaceOK, InPlace, CallOK, LinkerOK, Linkers, RowTypes
  <2>3. PICK k : k = AfterLink(m, TRUE)
    OBVIOUS
  <2>4. /\ k \in TagCall /\ PlaceOK(k)
        /\ \/ k = NoCall
           \/ m.op = "autotag" /\ k = [m EXCEPT !.at = "naming"]
           \/ m.op # "autotag" /\ k = [m EXCEPT !.at = "reading", !.files = {m.f}]
    BY <1>1, <1>2, <2>1, <2>2, <2>3, Mine, AfterLinkIs
  <2>5. k.at \in {"idle", "naming", "reading"}
    <3>1. CASE k = NoCall
      BY <3>1 DEF NoCall
    <3>2. CASE k = [m EXCEPT !.at = "naming"]
      BY <1>2, <3>2 DEF TagCall
    <3>3. CASE k = [m EXCEPT !.at = "reading", !.files = {m.f}]
      BY <1>2, <3>3 DEF TagCall
    <3> QED
      BY <2>4, <3>1, <3>2, <3>3
  <2>6. Goto(c, k)
    BY <1>1, <1>8, <2>3 DEF createTagLink
  <2> QED
    BY <1>3, <2>1, <2>5, <2>6 DEF HandPlaces
<1>9. CASE reindexRead(c)
  <2>1. m.at = "reading" /\ UNCHANGED <<nameVars, vocabulary>>
    BY <1>1, <1>9 DEF reindexRead, At
  <2>2. CASE Goto(c, AfterReindex(m))
    <3>1. AfterReindex(m).at \in {"idle", "counting"}
      BY <1>2 DEF AfterReindex, NoCall, TagCall
    <3> QED
      BY <1>3, <2>1, <2>2, <3>1 DEF HandPlaces
  <2>3. ASSUME NEW f, Goto(c, [m EXCEPT !.at = "sending", !.f = f, !.fields = FieldsOf(f)]) PROVE HeldInv'
    <3>1. PICK k : k = [m EXCEPT !.at = "sending", !.f = f, !.fields = FieldsOf(f)]
      OBVIOUS
    <3>2. k.at = "sending"
      BY <1>2, <3>1 DEF TagCall
    <3> QED
      BY <1>3, <2>1, <2>3, <3>1, <3>2 DEF HandPlaces
  <2> QED
    BY <1>1, <1>9, <2>2, <2>3 DEF reindexRead
<1>10. CASE reindexSend(c)
  <2>1. PICK k : k = [m EXCEPT !.at = "reading", !.files = m.files \ {m.f}, !.fields = {}]
    OBVIOUS
  <2>2. m.at = "sending" /\ UNCHANGED <<nameVars, vocabulary>> /\ k.at = "reading" /\ Goto(c, k)
    BY <1>1, <1>2, <1>10, <2>1 DEF reindexSend, At, TagCall
  <2> QED
    BY <1>3, <2>2 DEF HandPlaces
<1>11. CASE pruneCount(c)
  <2>1. m.at = "counting" /\ UNCHANGED <<nameVars, vocabulary>>
    BY <1>1, <1>11 DEF pruneCount, At
  <2>2. CASE Goto(c, AfterPrune(m))
    <3>1. m.op \in {"unlink", "deleteFile", "removeRun", "deleteDesk"}
      BY <1>2, <2>1 DEF PlaceOK, InPlace
    <3>2. AfterPrune(m).at \in {"idle", "reading", "leaving"}
      BY <1>2, <3>1 DEF AfterPrune, NoCall, TagCall
    <3> QED
      BY <1>3, <2>1, <2>2, <3>2 DEF HandPlaces
  <2>3. ASSUME NEW e, NEW at \in {"pruning", "counting"}, Goto(c, [m EXCEPT !.todo = m.todo \ {e}, !.e = e, !.at = at]) PROVE HeldInv'
    <3>1. PICK k : k = [m EXCEPT !.todo = m.todo \ {e}, !.e = e, !.at = at]
      OBVIOUS
    <3>2. k.at = at
      BY <1>2, <3>1 DEF TagCall
    <3> QED
      BY <1>3, <2>1, <2>3, <3>1, <3>2 DEF HandPlaces
  <2>4. \/ Goto(c, AfterPrune(m))
        \/ \E e \in m.todo, at \in {"pruning", "counting"} : Goto(c, [m EXCEPT !.todo = m.todo \ {e}, !.e = e, !.at = at])
    BY <1>1, <1>11 DEF pruneCount
  <2> QED
    BY <2>2, <2>3, <2>4
<1>12. CASE pruneDelete(c)
  <2>1. PICK k : k = [m EXCEPT !.at = "counting"]
    OBVIOUS
  <2>2. m.at = "pruning" /\ vocabulary' = vocabulary /\ k.at = "counting" /\ Goto(c, k) /\ entities' = Without(m.e)
    BY <1>1, <1>2, <1>12, <2>1 DEF pruneDelete, At, TagCall
  <2>3. Known' \subseteq Known /\ \A e \in Known' : Machine(e)' = Machine(e)
    BY <2>2 DEF Known, Machine, Without
  <2> QED
    BY <1>1, <2>2, <2>3, HeldMoves DEF HandPlaces
<1>13. CASE autotagNext(c)
  <2>1. m.at = "naming" /\ UNCHANGED <<nameVars, vocabulary>>
    BY <1>1, <1>13 DEF autotagNext, At
  <2>2. CASE Goto(c, [m EXCEPT !.at = "reading", !.files = {m.f}])
    <3>1. PICK k : k = [m EXCEPT !.at = "reading", !.files = {m.f}]
      OBVIOUS
    <3>2. k.at = "reading"
      BY <1>2, <3>1 DEF TagCall
    <3> QED
      BY <1>3, <2>1, <2>2, <3>1, <3>2 DEF HandPlaces
  <2>3. ASSUME NEW n, NEW at \in {"waiting", "finding"}, Goto(c, [[m EXCEPT !.names = m.names \ {n}, !.n = n] EXCEPT !.at = at]) PROVE HeldInv'
    <3>1. PICK k : k = [[m EXCEPT !.names = m.names \ {n}, !.n = n] EXCEPT !.at = at]
      OBVIOUS
    <3>2. k.at = at
      BY <1>2, <3>1 DEF TagCall
    <3> QED
      BY <1>3, <2>1, <2>3, <3>1, <3>2 DEF HandPlaces
  <2>4. \/ Goto(c, [m EXCEPT !.at = "reading", !.files = {m.f}])
        \/ \E n \in m.names, at \in {"waiting", "finding"} : Goto(c, [[m EXCEPT !.names = m.names \ {n}, !.n = n] EXCEPT !.at = at])
    BY <1>1, <1>13 DEF autotagNext
  <2> QED
    BY <2>2, <2>3, <2>4
<1>14. CASE dropLinks(c)
  <2>1. PICK k : k = [m EXCEPT !.at = "counting"]
    OBVIOUS
  <2>2. m.at = "dropping" /\ UNCHANGED <<nameVars, vocabulary>> /\ k.at = "counting" /\ Goto(c, k)
    BY <1>1, <1>2, <1>14, <2>1 DEF dropLinks, At, TagCall
  <2> QED
    BY <1>3, <2>2 DEF HandPlaces
<1>15. CASE deleteDeskLinks(c)
  <2>1. PICK k : k = [m EXCEPT !.at = "deskRow"]
    OBVIOUS
  <2>2. m.at = "deskLinks" /\ UNCHANGED <<nameVars, vocabulary>> /\ k.at = "deskRow" /\ Goto(c, k)
    BY <1>1, <1>2, <1>15, <2>1 DEF deleteDeskLinks, At, TagCall
  <2> QED
    BY <1>3, <2>2 DEF HandPlaces
<1> QED
  BY <1>4, <1>5, <1>6, <1>7, <1>8, <1>9, <1>10, <1>11, <1>12, <1>13, <1>14, <1>15

\* What a step that keeps the tags leaves to a call with a tag in hand.
LEMMA HeldTurns ==
  ASSUME RowsInv, HeldInv, NEW c \in Calls, NEW k, Goto(c, k),
         Known' \subseteq Known, \A e \in Known' : Machine(e)' = Machine(e), vocabulary' \subseteq vocabulary,
         \A e \in Known' : ~Machine(e) /\ NoDeskHas(e)' /\ (HoldsHand(call[c], e) \/ ~NoDeskHas(e)) => HoldsHand(k, e),
         NotesOK(k)'
  PROVE  HeldInv'
<1>1. ASSUME NEW e \in Known', ~Machine(e)', NoDeskHas(e)'
      PROVE  HoldsHand(k, e) \/ (e \in Known /\ ~Machine(e) /\ NoDeskHas(e) /\ ~HoldsHand(call[c], e))
  BY <1>1
<1> QED
  BY <1>1, HeldGoes

LEMMA HeldCreate ==
  ASSUME RowsInv, HeldInv, NEW c \in Calls, createEntity(c)
  PROVE  HeldInv'
<1>1. PICK m : m = call[c]
  OBVIOUS
<1>2. PICK k : k = [m EXCEPT !.at = "attaching", !.e = lastEntity']
  OBVIOUS
<1>3. m \in TagCall /\ m.at = "creating" /\ Goto(c, k) /\ vocabulary' = vocabulary /\ Create(m.n, "user")
  BY <1>1, <1>2, Mine DEF createEntity, At
<1>4. k.at = "attaching" /\ k.e = lastEntity + 1
  BY <1>2, <1>3 DEF TagCall, Create
<1>5. Known' = Known \cup {lastEntity + 1} /\ \A e \in Known : Machine(e)' = Machine(e)
  BY <1>3 DEF Create, Known, Machine
<1>6. (\A e : ~HoldsHand(m, e)) /\ NotesOK(k)'
  BY <1>3, <1>4, NoHands DEF HandPlaces, NotesOK, TakenPlaces
<1>7. \A e : NoDeskHas(e)' <=> NoDeskHas(e)
  BY <1>3 DEF NoDeskHas
<1>8. HoldsHand(k, lastEntity + 1)
  BY <1>4 DEF HoldsHand
<1> QED
  BY <1>1, <1>3, <1>5, <1>6, <1>7, <1>8, HeldGoes

LEMMA HeldAttach ==
  ASSUME RowsInv, HeldInv, NoneBreak, NEW c \in Calls, attachToDesk(c)
  PROVE  HeldInv'
<1>1. PICK m : m = call[c]
  OBVIOUS
<1>2. m \in TagCall /\ PlaceOK(m) /\ m.at = "attaching"
  BY <1>1, Mine DEF attachToDesk, At
<1>3. m.op \in {"createInDesk", "createAndLink", "import"}
  BY <1>2 DEF PlaceOK, InPlace
<1>4. PICK k : k = AfterAttach(m)
  OBVIOUS
<1>5. Goto(c, k) /\ vocabulary' = vocabulary \cup {<<m.e, m.d>>} /\ Known' = Known /\ \A e : Machine(e)' = Machine(e)
  BY <1>1, <1>4, RowsSame DEF attachToDesk, nameVars, Known, Machine
<1>6. k = NoCall \/ k = [m EXCEPT !.at = "linking"] \/ k = [m EXCEPT !.at = "importing"]
  BY <1>3, <1>4 DEF AfterAttach
<1>7. k.at \in {"idle", "linking", "importing"}
  <2>1. CASE k = NoCall
    BY <2>1 DEF NoCall
  <2>2. CASE k # NoCall
    BY <1>2, <1>6, <2>2 DEF TagCall
  <2> QED
    BY <2>1, <2>2
<1>8. NotesOK(k)'
  BY <1>7 DEF NotesOK, TakenPlaces
<1>9. ASSUME NEW e \in Known', ~Machine(e)', NoDeskHas(e)'
      PROVE  e \in Known /\ ~Machine(e) /\ NoDeskHas(e) /\ ~HoldsHand(m, e)
  <2>1. <<m.e, m.d>> \in vocabulary' /\ vocabulary \subseteq vocabulary'
    BY <1>5
  <2>2. m.e # e
    BY <1>9, <2>1 DEF NoDeskHas
  <2>3. NoDeskHas(e)
    BY <1>9, <2>1 DEF NoDeskHas
  <2> QED
    BY <1>2, <1>5, <1>9, <2>2, <2>3 DEF HoldsHand
<1>10. ASSUME NEW o \in Calls \ {c}, call[o].at = "vacating", NEW v \in vocabulary'
       PROVE  v \in vocabulary \/ v[2] # call[o].d
  <2>1. PICK n : n = call[o]
    OBVIOUS
  <2>2. n.op = "deleteDesk"
    BY <1>10, <2>1, Mine DEF PlaceOK, InPlace
  <2>3. {m.op, n.op} \in Together
    BY <1>1, <1>2, <1>10, <2>1 DEF RowsInv, Meet, UnderWay
  <2>4. Apart(m.op, n.op)
    BY <2>3, ApartIf
  <2>5. FALSE
    BY <1>3, <2>2, <2>4 DEF Apart, Attachers, Takers, Namers
  <2> QED
    BY <2>5
<1> QED
  BY <1>1, <1>5, <1>8, <1>9, <1>10, HeldGoes

LEMMA HeldResolves ==
  ASSUME RowsInv, HeldInv, NEW c \in Calls, call[c].at \in {"finding", "making"}, NEW e \in EntityRids, Resolve(c, e),
         vocabulary' = vocabulary, Known \subseteq Known', \A a \in Known : Machine(a)' = Machine(a),
         \A a \in Known' \ Known : Machine(a)'
  PROVE  HeldInv'
<1>1. ASSUME NEW o \in Calls
      PROVE  \/ call'[o] = call[o]
             \/ call[o].at \notin HandPlaces /\ call'[o].at = "linking"
  BY ResolvedCalls DEF GoesOn, HandPlaces
<1>2. ASSUME NEW a \in Known', ~Machine(a)', NoDeskHas(a)' PROVE \E o \in Calls : HoldsHand(call'[o], a)
  <2>1. a \in Known /\ ~Machine(a) /\ NoDeskHas(a)
    BY <1>2 DEF NoDeskHas
  <2>2. PICK o \in Calls : HoldsHand(call[o], a)
    BY <2>1 DEF HeldInv, HandsHeld
  <2>3. call'[o] = call[o]
    BY <1>1, <2>2, NoHands
  <2> QED
    BY <2>2, <2>3
<1>3. HandsHeld'
  BY <1>2 DEF HandsHeld, HoldsHand
<1>4. ASSUME NEW o \in Calls PROVE NotesOK(call[o])'
  <2>1. CASE call'[o] = call[o]
    <3>1. NotesOK(call[o])
      BY DEF HeldInv
    <3> QED
      BY <2>1, <3>1 DEF NotesOK
  <2>2. CASE call'[o].at = "linking"
    BY <2>2 DEF NotesOK, TakenPlaces
  <2> QED
    BY <1>1, <2>1, <2>2
<1> QED
  BY <1>3, <1>4 DEF HeldInv

LEMMA HeldFind ==
  ASSUME RowsInv, HeldInv, NEW c \in Calls, findMachineEntity(c)
  PROVE  HeldInv'
<1>1. PICK m : m = call[c]
  OBVIOUS
<1>2. m \in TagCall /\ m.at = "finding" /\ vocabulary' = vocabulary /\ Known' = Known /\ \A e : Machine(e)' = Machine(e)
  BY <1>1, Mine, RowsSame DEF findMachineEntity, At
<1>3. ASSUME NEW e \in findEntityForDesk(m.n, m.d), Resolve(c, e) PROVE HeldInv'
  <2>1. e \in Known
    BY <1>3 DEF findEntityForDesk, findHumanInDesk
  <2>2. e \in EntityRids
    BY <2>1, KnownRids DEF RowsInv
  <2> QED
    BY <1>1, <1>2, <1>3, <2>2, HeldResolves
<1>4. CASE Goto(c, [m EXCEPT !.at = "making"])
  <2>1. PICK k : k = [m EXCEPT !.at = "making"]
    OBVIOUS
  <2>2. k.at = "making"
    BY <1>2, <2>1 DEF TagCall
  <2> QED
    BY <1>1, <1>2, <1>4, <2>1, <2>2, HeldMoves DEF HandPlaces
<1> QED
  BY <1>1, <1>3, <1>4 DEF findMachineEntity

LEMMA HeldMake ==
  ASSUME RowsInv, HeldInv, NEW c \in Calls, createMachineEntity(c)
  PROVE  HeldInv'
<1>1. PICK m : m = call[c]
  OBVIOUS
<1>2. m.at = "making" /\ vocabulary' = vocabulary /\ Create(m.n, "machine") /\ Resolve(c, lastEntity')
  BY <1>1 DEF createMachineEntity, At
<1>3. lastEntity' = lastEntity + 1 /\ lastEntity < MaxEntities /\ lastEntity \in Nat
  BY <1>2, TagsConstants DEF Create, RowsInv, RowTypes
<1>4. lastEntity' \in EntityRids
  BY <1>3, TagsConstants DEF EntityRids
<1>5. /\ Known' = Known \cup {lastEntity + 1} /\ \A e \in Known : Machine(e)' = Machine(e)
      /\ \A e \in Known' \ Known : Machine(e)'
  BY <1>2 DEF Create, Known, Machine
<1> QED
  BY <1>1, <1>2, <1>4, <1>5, HeldResolves

LEMMA HeldDeskRow ==
  ASSUME RowsInv, HeldInv, NEW c \in Calls, deleteDeskRow(c)
  PROVE  HeldInv'
<1>1. PICK m : m = call[c]
  OBVIOUS
<1>2. PICK k : k = [m EXCEPT !.at = "lastDesk", !.todo = {m.e}]
  OBVIOUS
<1>3. /\ m \in TagCall /\ m.at = "deskRow" /\ Goto(c, k) /\ vocabulary' = vocabulary \ {<<m.e, m.d>>}
      /\ Known' = Known /\ \A e : Machine(e)' = Machine(e)
  BY <1>1, <1>2, Mine DEF deleteDeskRow, At, nameVars, Known, Machine
<1>4. k.at = "lastDesk" /\ k.todo = {m.e} /\ k.e = m.e
  BY <1>2, <1>3 DEF TagCall
<1>5. NotesOK(k)'
  BY <1>4 DEF NotesOK
<1>6. ASSUME NEW e, NoDeskHas(e)', HoldsHand(m, e) \/ ~NoDeskHas(e) PROVE HoldsHand(k, e)
  <2>1. ~HoldsHand(m, e)
    BY <1>3 DEF HoldsHand
  <2>2. PICK v \in vocabulary : v[1] = e
    BY <1>6, <2>1 DEF NoDeskHas
  <2>3. v \notin vocabulary'
    BY <1>6, <2>2 DEF NoDeskHas
  <2>4. v = <<m.e, m.d>>
    BY <1>3, <2>2, <2>3
  <2>5. e = m.e
    BY <2>2, <2>4
  <2> QED
    BY <1>4, <2>5 DEF HoldsHand
<1> QED
  BY <1>1, <1>3, <1>5, <1>6, HeldTurns

LEMMA HeldLeave ==
  ASSUME RowsInv, HeldInv, NEW c \in Calls, leaveDesk(c)
  PROVE  HeldInv'
<1>1. PICK m : m = call[c]
  OBVIOUS
<1>2. PICK k : k = [m EXCEPT !.at = "vacating", !.todo = {e \in 1..lastEntity : <<e, m.d>> \in vocabulary}]
  OBVIOUS
<1>3. /\ m \in TagCall /\ m.at = "leaving" /\ Goto(c, k) /\ vocabulary' = vocabulary
      /\ Known' = Known /\ \A e : Machine(e)' = Machine(e)
  BY <1>1, <1>2, Mine, RowsSame DEF leaveDesk, At
<1>4. k.at = "vacating" /\ k.todo = {e \in 1..lastEntity : <<e, m.d>> \in vocabulary} /\ k.d = m.d
  BY <1>2, <1>3 DEF TagCall
<1>5. ASSUME NEW v \in vocabulary, v[2] = m.d PROVE v[1] \in k.todo
  <2>1. v[1] \in 1..lastEntity /\ v \in EntityRids \X Desks
    BY Mine DEF RowsInv, VocabularyOK, RowTypes
  <2>2. v = <<v[1], m.d>>
    BY <1>5, <2>1
  <2> QED
    BY <1>4, <2>1, <2>2
<1>6. NotesOK(k)'
  BY <1>3, <1>4, <1>5 DEF NotesOK, TakenPlaces
<1>7. \A e : ~HoldsHand(m, e)
  BY <1>3 DEF HoldsHand
<1>8. \A e : NoDeskHas(e)' <=> NoDeskHas(e)
  BY <1>3 DEF NoDeskHas
<1> QED
  BY <1>1, <1>3, <1>6, <1>7, <1>8, HeldTurns

LEMMA HeldVacate ==
  ASSUME RowsInv, HeldInv, NEW c \in Calls, vacateDesk(c)
  PROVE  HeldInv'
<1>1. PICK m : m = call[c]
  OBVIOUS
<1>2. PICK k : k = [m EXCEPT !.at = "lastDesk"]
  OBVIOUS
<1>3. /\ m \in TagCall /\ PlaceOK(m) /\ m.at = "vacating" /\ Goto(c, k) /\ vocabulary' = {v \in vocabulary : v[2] # m.d}
      /\ Known' = Known /\ \A e : Machine(e)' = Machine(e)
  BY <1>1, <1>2, Mine DEF vacateDesk, At, nameVars, Known, Machine
<1>4. k.at = "lastDesk" /\ k.todo = m.todo /\ k.op = m.op /\ m.op = "deleteDesk"
  BY <1>2, <1>3 DEF TagCall, PlaceOK, InPlace
<1>5. NotesOK(k)' /\ NotesOK(m)
  BY <1>1, <1>4 DEF NotesOK, HeldInv
<1>6. ASSUME NEW e, NoDeskHas(e)', HoldsHand(m, e) \/ ~NoDeskHas(e) PROVE HoldsHand(k, e)
  <2>1. ~HoldsHand(m, e)
    BY <1>3 DEF HoldsHand
  <2>2. PICK v \in vocabulary : v[1] = e
    BY <1>6, <2>1 DEF NoDeskHas
  <2>3. v[2] = m.d
    BY <1>3, <1>6, <2>2 DEF NoDeskHas
  <2>4. e \in m.todo
    BY <1>3, <1>5, <2>2, <2>3 DEF NotesOK
  <2> QED
    BY <1>4, <2>4 DEF HoldsHand
<1> QED
  BY <1>1, <1>3, <1>5, <1>6, HeldTurns

LEMMA HeldCount ==
  ASSUME RowsInv, HeldInv, NEW c \in Calls, countDesks(c)
  PROVE  HeldInv'
<1>1. PICK m : m = call[c]
  OBVIOUS
<1>2. /\ m \in TagCall /\ PlaceOK(m) /\ m.at = "lastDesk" /\ vocabulary' = vocabulary
      /\ Known' = Known /\ \A e : Machine(e)' = Machine(e)
  BY <1>1, Mine, RowsSame DEF countDesks, At
<1>3. m.op \in {"deleteDesk", "removeFromDesk"} /\ (m.op = "removeFromDesk" => m.todo \subseteq {m.e})
  BY <1>1, <1>2 DEF PlaceOK, InPlace, HeldInv, NotesOK, TakenPlaces
<1>4. \A e : NoDeskHas(e)' <=> NoDeskHas(e)
  BY <1>2 DEF NoDeskHas
<1>5. CASE m.todo = {} /\ Goto(c, [m EXCEPT !.at = "reading"])
  <2>1. PICK k : k = [m EXCEPT !.at = "reading"]
    OBVIOUS
  <2>2. k.at = "reading"
    BY <1>2, <2>1 DEF TagCall
  <2>3. NotesOK(k)' /\ \A e : ~HoldsHand(m, e)
    BY <1>2, <1>5, <2>2 DEF NotesOK, TakenPlaces, HoldsHand
  <2> QED
    BY <1>1, <1>2, <1>4, <1>5, <2>1, <2>3, HeldTurns
<1>6. ASSUME NEW e \in m.todo, NEW at, at = IF \E d \in Desks : <<e, d>> \in vocabulary THEN "lastDesk" ELSE "allLinks",
             Goto(c, [m EXCEPT !.todo = m.todo \ {e}, !.e = e, !.at = at])
      PROVE  HeldInv'
  <2>1. PICK k : k = [m EXCEPT !.todo = m.todo \ {e}, !.e = e, !.at = at]
    OBVIOUS
  <2>2. k.todo = m.todo \ {e} /\ k.e = e /\ k.at = at /\ k.op = m.op
    BY <1>2, <2>1 DEF TagCall
  <2>3. NotesOK(k)'
    BY <1>3, <1>6, <2>2 DEF NotesOK, TakenPlaces
  <2>4. ASSUME NEW x, NoDeskHas(x), HoldsHand(m, x) PROVE HoldsHand(k, x)
    <3>1. x \in m.todo
      BY <1>2, <2>4 DEF HoldsHand
    <3>2. CASE x = e
      <4>1. at = "allLinks"
        BY <1>6, <2>4, <3>2 DEF NoDeskHas
      <4> QED
        BY <2>2, <3>2, <4>1 DEF HoldsHand
    <3>3. CASE x # e
      <4>1. m.op = "deleteDesk" /\ x \in k.todo /\ at \in {"lastDesk", "allLinks"}
        BY <1>3, <1>6, <2>2, <3>1, <3>3
      <4> QED
        BY <2>2, <4>1 DEF HoldsHand
    <3> QED
      BY <3>2, <3>3
  <2> QED
    BY <1>1, <1>2, <1>4, <1>6, <2>1, <2>3, <2>4, HeldTurns
<1>7. \/ m.todo = {} /\ Goto(c, [m EXCEPT !.at = "reading"])
      \/ \E e \in m.todo : Goto(c, [m EXCEPT !.todo = m.todo \ {e}, !.e = e,
                                     !.at = IF \E d \in Desks : <<e, d>> \in vocabulary THEN "lastDesk" ELSE "allLinks"])
  BY <1>1 DEF countDesks
<1> QED
  BY <1>5, <1>6, <1>7

LEMMA HeldAllLinks ==
  ASSUME RowsInv, HeldInv, NEW c \in Calls, deleteAllLinks(c)
  PROVE  HeldInv'
<1>1. PICK m : m = call[c]
  OBVIOUS
<1>2. PICK k : k = [m EXCEPT !.at = IF m.op = "deleteEverywhere" THEN "allRows" ELSE "entity"]
  OBVIOUS
<1>3. /\ m \in TagCall /\ m.at = "allLinks" /\ Goto(c, k) /\ vocabulary' = vocabulary
      /\ Known' = Known /\ \A e : Machine(e)' = Machine(e)
  BY <1>1, <1>2, Mine, RowsSame DEF deleteAllLinks, At
<1>4. k.at = (IF m.op = "deleteEverywhere" THEN "allRows" ELSE "entity") /\ k.e = m.e /\ k.todo = m.todo /\ k.op = m.op
  BY <1>2, <1>3 DEF TagCall
<1>5. NotesOK(k)'
  <2>1. NotesOK(m)
    BY <1>1 DEF HeldInv
  <2> QED
    BY <1>3, <1>4, <2>1 DEF NotesOK, TakenPlaces
<1>6. \A e : HoldsHand(m, e) => HoldsHand(k, e)
  BY <1>3, <1>4 DEF HoldsHand
<1>7. \A e : NoDeskHas(e)' <=> NoDeskHas(e)
  BY <1>3 DEF NoDeskHas
<1> QED
  BY <1>1, <1>3, <1>5, <1>6, <1>7, HeldTurns

LEMMA HeldAllRows ==
  ASSUME RowsInv, HeldInv, NEW c \in Calls, deleteAllRows(c)
  PROVE  HeldInv'
<1>1. PICK m : m = call[c]
  OBVIOUS
<1>2. PICK k : k = [m EXCEPT !.at = "entity"]
  OBVIOUS
<1>3. /\ m \in TagCall /\ PlaceOK(m) /\ m.at = "allRows" /\ Goto(c, k) /\ vocabulary' = {v \in vocabulary : v[1] # m.e}
      /\ Known' = Known /\ \A e : Machine(e)' = Machine(e)
  BY <1>1, <1>2, Mine DEF deleteAllRows, At, nameVars, Known, Machine
<1>4. k.at = "entity" /\ k.e = m.e /\ k.op = m.op /\ m.op = "deleteEverywhere"
  BY <1>2, <1>3 DEF TagCall, PlaceOK, InPlace
<1>5. NotesOK(k)'
  BY <1>4 DEF NotesOK
<1>6. ASSUME NEW e, NoDeskHas(e)', HoldsHand(m, e) \/ ~NoDeskHas(e) PROVE HoldsHand(k, e)
  <2>1. CASE HoldsHand(m, e)
    BY <1>3, <1>4, <2>1 DEF HoldsHand
  <2>2. CASE ~NoDeskHas(e)
    <3>1. e = m.e
      BY <1>3, <1>6, <2>2 DEF NoDeskHas
    <3> QED
      BY <1>4, <3>1 DEF HoldsHand
  <2> QED
    BY <1>6, <2>1, <2>2
<1> QED
  BY <1>1, <1>3, <1>5, <1>6, HeldTurns

LEMMA HeldEntity ==
  ASSUME RowsInv, HeldInv, NEW c \in Calls, deleteEntity(c)
  PROVE  HeldInv'
<1>1. PICK m : m = call[c]
  OBVIOUS
<1>2. PICK k : k = [m EXCEPT !.at = IF m.op = "deleteDesk" THEN "lastDesk" ELSE "reading"]
  OBVIOUS
<1>3. m \in TagCall /\ m.at = "entity" /\ Goto(c, k) /\ vocabulary' = vocabulary /\ entities' = Without(m.e)
  BY <1>1, <1>2, Mine DEF deleteEntity, At
<1>4. k.at = (IF m.op = "deleteDesk" THEN "lastDesk" ELSE "reading") /\ k.todo = m.todo /\ k.op = m.op
  BY <1>2, <1>3 DEF TagCall
<1>5. Known' = Known \ {m.e} /\ \A e \in Known' : Machine(e)' = Machine(e)
  BY <1>3 DEF Known, Machine, Without
<1>6. NotesOK(k)'
  BY <1>4 DEF NotesOK, TakenPlaces
<1>7. \A e \in Known' : HoldsHand(m, e) => HoldsHand(k, e)
  BY <1>3, <1>4, <1>5 DEF HoldsHand
<1>8. \A e : NoDeskHas(e)' <=> NoDeskHas(e)
  BY <1>3 DEF NoDeskHas
<1> QED
  BY <1>1, <1>3, <1>5, <1>6, <1>7, <1>8, HeldTurns

LEMMA HeldIdle ==
  ASSUME HeldInv, UNCHANGED tagVars
  PROVE  HeldInv'
<1>1. vocabulary' = vocabulary /\ call' = call /\ Known' = Known /\ \A e : Machine(e)' = Machine(e)
  BY DEF tagVars, Known, Machine
<1>2. HandsHeld'
  BY <1>1 DEF HeldInv, HandsHeld, NoDeskHas, HoldsHand
<1>3. ASSUME NEW c \in Calls PROVE NotesOK(call[c])'
  <2>1. NotesOK(call[c])
    BY DEF HeldInv
  <2> QED
    BY <1>1, <2>1 DEF NotesOK
<1> QED
  BY <1>2, <1>3 DEF HeldInv

LEMMA HeldStart == TagsInit => HeldInv
<1> SUFFICES ASSUME TagsInit PROVE HeldInv
  OBVIOUS
<1>1. \A c \in Calls : call[c].at = "idle"
  BY DEF TagsInit, NoCall
<1>2. \A c \in Calls : NotesOK(call[c])
  BY <1>1 DEF NotesOK, TakenPlaces
<1>3. \A e \in Known : ~Machine(e) => ~NoDeskHas(e)
  BY StartIsSound DEF TagsInit, Known, Machine, NoDeskHas
<1> QED
  BY <1>2, <1>3 DEF HeldInv, HandsHeld

LEMMA HandsStayHeld ==
  ASSUME NoneBreak
  PROVE  TagsSpec => [](RowsInv /\ SyncInv /\ HeldInv)
<1>1. TagsInit => HeldInv
  BY HeldStart
<1>2. ASSUME RowsInv, HeldInv, [TagsNext]_tagVars PROVE HeldInv'
  <2>1. CASE UNCHANGED tagVars
    BY <1>2, <2>1, HeldIdle
  <2>2. ASSUME NEW c \in Calls, TagRequest(c) \/ RunCallback(c) \/ TagStep(c) PROVE HeldInv'
    <3>1. CASE TagRequest(c) \/ RunCallback(c)
      BY <1>2, <3>1, HeldRequests
    <3>2. CASE TagStep(c)
      BY <1>2, <3>2, HeldPlainSteps, HeldCreate, HeldAttach, HeldFind, HeldMake, HeldDeskRow, HeldLeave, HeldVacate, HeldCount,
         HeldAllLinks, HeldAllRows, HeldEntity DEF TagStep
    <3> QED
      BY <2>2, <3>1, <3>2
  <2> QED
    BY <1>2, <2>1, <2>2 DEF TagsNext
<1> QED
  BY <1>1, <1>2, TagsHold, PTL DEF TagsSpec

-----------------------------------------------------------------------------
(* The queries, when no call is under way: rows with both their ends, no   *)
(* machine tag without a file, no tag made by hand without a desk.         *)

RowsAtRest ==
  /\ RowTypes
  /\ \A l \in links : /\ l.e \in Known /\ l.f \in files /\ l.desk = DeskOf[l.f] /\ l.desk \in desks
                      /\ Machine(l.e) \/ <<l.e, l.desk>> \in vocabulary
  /\ \A v \in vocabulary : v[1] \in Known /\ v[2] \in desks
  /\ \A e \in Known : IF Machine(e) THEN \E l \in links : l.e = e ELSE \E d \in desks : <<e, d>> \in vocabulary

LEMMA AtRest ==
  ASSUME RowsInv, SyncInv, HeldInv, Quiet
  PROVE  RowsAtRest
<1>1. \A c \in Calls : call[c].at = "idle" /\ call[c].op = "none"
  BY DEF Quiet, UnderWay, RowsInv, PlaceOK, InPlace
<1>2. ASSUME NEW l \in links
      PROVE  /\ l.e \in Known /\ l.f \in files /\ l.desk = DeskOf[l.f] /\ l.desk \in desks
             /\ Machine(l.e) \/ <<l.e, l.desk>> \in vocabulary
  <2>1. l.e \in Known /\ l.f \in files /\ l.desk = DeskOf[l.f] /\ (Machine(l.e) \/ <<l.e, l.desk>> \in vocabulary)
    BY <1>1 DEF RowsInv, LinksOK, At
  <2> QED
    BY <2>1 DEF RowsInv, VocabularyOK
<1>3. ASSUME NEW v \in vocabulary PROVE v[1] \in Known /\ v[2] \in desks
  BY <1>1 DEF RowsInv, VocabularyOK, Vacates
<1>4. ASSUME NEW e \in Known, Machine(e) PROVE \E l \in links : l.e = e
  <2>1. LinksOf(e) # {}
    BY <1>1, <1>4 DEF SyncInv, UsedInv, LooksAt
  <2> QED
    BY <2>1 DEF LinksOf
<1>5. ASSUME NEW e \in Known, ~Machine(e) PROVE \E d \in desks : <<e, d>> \in vocabulary
  <2>1. \A c \in Calls : ~HoldsHand(call[c], e)
    BY <1>1 DEF HoldsHand
  <2>2. PICK v \in vocabulary : v[1] = e
    BY <1>5, <2>1 DEF HeldInv, HandsHeld, NoDeskHas
  <2>3. v = <<e, v[2]>> /\ v[2] \in desks
    BY <1>3, <2>2 DEF RowsInv, RowTypes
  <2> QED
    BY <2>2, <2>3
<1> QED
  BY <1>2, <1>3, <1>4, <1>5 DEF RowsAtRest, RowsInv

\* Of files and links there are finitely many.
LEMMA FilesCount ==
  ASSUME NEW S, S \subseteq Files
  PROVE  IsFiniteSet(S) /\ Cardinality(S) \in Nat
BY TagsConstants, FS_Subset, FS_CardinalityType

LEMMA LinksCount ==
  ASSUME RowTypes, NEW S, S \subseteq links
  PROVE  IsFiniteSet(S) /\ Cardinality(S) \in Nat
<1> DEFINE Who == {"user", "machine"}
           Run == Runs \cup {NoRun}
           Ends == ((((EntityRids \X Files) \X BOOLEAN) \X Run) \X Who) \X Desks
           put(p) == [e |-> p[1][1][1][1][1], f |-> p[1][1][1][1][2], region |-> p[1][1][1][2], run |-> p[1][1][2],
                      by |-> p[1][2], desk |-> p[2]]
<1>1. IsFiniteSet(EntityRids) /\ IsFiniteSet(Files) /\ IsFiniteSet(Desks) /\ IsFiniteSet(BOOLEAN)
  <2>1. IsFiniteSet(1..MaxEntities)
    BY TagsConstants, FS_Interval
  <2>2. IsFiniteSet({TRUE} \cup {FALSE}) /\ BOOLEAN = {TRUE} \cup {FALSE}
    BY FS_Singleton, FS_Union
  <2> QED
    BY <2>1, <2>2, TagsConstants DEF EntityRids
<1>2. IsFiniteSet(Run)
  BY TagsConstants, FS_Singleton, FS_Union
<1>3. IsFiniteSet(Who)
  <2>1. IsFiniteSet({"user"} \cup {"machine"}) /\ Who = {"user"} \cup {"machine"}
    BY FS_Singleton, FS_Union
  <2> QED
    BY <2>1
<1> HIDE DEF Who, Run
<1>4. IsFiniteSet(Ends)
  BY <1>1, <1>2, <1>3, FS_Product
<1>5. IsFiniteSet({put(p) : p \in Ends})
  <2> HIDE DEF Ends, put
  <2> DEFINE f == [p \in Ends |-> put(p)]
  <2>1. f \in Surjection(Ends, {put(p) : p \in Ends})
    BY DEF Surjection
  <2> HIDE DEF f
  <2> QED
    BY <1>4, <2>1, FS_Surjection
<1>6. ASSUME NEW l \in S PROVE l \in {put(p) : p \in Ends}
  <2>1. l \in TagLink
    BY DEF RowTypes
  <2>2. /\ l = [e |-> l.e, f |-> l.f, region |-> l.region, run |-> l.run, by |-> l.by, desk |-> l.desk]
        /\ l.e \in EntityRids /\ l.f \in Files /\ l.region \in BOOLEAN /\ l.run \in Run /\ l.by \in Who /\ l.desk \in Desks
    BY <2>1 DEF TagLink, Run, Who
  <2>3. PICK p : p = <<<<<<<<<<l.e, l.f>>, l.region>>, l.run>>, l.by>>, l.desk>>
    OBVIOUS
  <2>4. p \in Ends
    BY <2>2, <2>3
  <2>5. put(p) = l
    BY <2>2, <2>3
  <2> QED
    BY <2>4, <2>5
<1>7. S \subseteq {put(p) : p \in Ends}
  BY <1>6
<1> HIDE DEF Ends, put
<1> QED
  BY <1>5, <1>7, FS_Subset, FS_CardinalityType

\* A tag's links on a desk are those on files of the desk.
LEMMA TargetsAre ==
  ASSUME RowsAtRest, NEW e, NEW f
  PROVE  f \in Targets(e, {DeskOf[f]}) <=> \E l \in LinksOf(e) : l.f = f
<1>1. \A l \in LinksOf(e) : l.desk = DeskOf[l.f]
  BY DEF RowsAtRest, LinksOf
<1> QED
  BY <1>1 DEF Targets, InProjects

\* The warning before a tag is renamed or deleted.
LEMMA UsageAdds ==
  ASSUME RowsAtRest, NEW e \in Known, ~Machine(e)
  PROVE  /\ usage(e).files = MapThenSumSet(LAMBDA d : usage(e).desks[d], desksOf(e))
         /\ \A d \in desksOf(e) : adminList(d)[e].files = usage(e).desks[d]
<1> DEFINE on == [d \in desksOf(e) |-> {l.f : l \in {k \in FileLinks(e) : k.desk = d}}]
           all == {l.f : l \in FileLinks(e)}
           u == usage(e).desks
<1>1. /\ usage(e).files = Cardinality(all) /\ u = [d \in desksOf(e) |-> Cardinality(on[d])]
  BY DEF usage
<1>2. ASSUME NEW l \in FileLinks(e)
      PROVE  l \in links /\ l.f \in Files /\ l.desk = DeskOf[l.f] /\ l.desk \in desksOf(e)
  BY DEF FileLinks, LinksOf, RowsAtRest, RowTypes, desksOf
<1>3. all = UNION {on[d] : d \in desksOf(e)}
  BY <1>2
<1>4. \A d \in desksOf(e) : on[d] \subseteq Files
  BY <1>2
<1>5. \A c, d \in desksOf(e) : c # d => on[c] \cap on[d] = {}
  BY <1>2
<1>6. IsFiniteSet(desksOf(e)) /\ desksOf(e) \subseteq Desks
  <2>1. desksOf(e) \subseteq Desks
    BY DEF desksOf, RowsAtRest, RowTypes
  <2> QED
    BY <2>1, TagsConstants, FS_Subset
<1>7. \A d \in desksOf(e) : IsFiniteSet(on[d])
  <2> HIDE DEF on
  <2> QED
    BY <1>4, FilesCount
<1>8. usage(e).files = SumOf(u, desksOf(e))
  <2>1. on \in [desksOf(e) -> SUBSET Files]
    BY <1>4
  <2> HIDE DEF on, all
  <2>2. SumOf([d \in desksOf(e) |-> Cardinality(on[d])], desksOf(e)) = Cardinality(UNION {on[d] : d \in desksOf(e)})
    BY <1>5, <1>6, <2>1, TagsConstants, PartsCount
  <2> QED
    BY <1>1, <1>3, <2>2
<1>9. SumOf(u, desksOf(e)) = MapThenSumSet(LAMBDA d : usage(e).desks[d], desksOf(e))
  BY DEF SumOf
<1>10. ASSUME NEW d \in desksOf(e) PROVE adminList(d)[e].files = u[d]
  <2>1. d # NoDesk /\ d \in desks /\ <<e, d>> \in vocabulary
    BY <1>6, <1>10, TagsConstants DEF desksOf
  <2>2. e \in deskEntityRids(d)
    BY <2>1 DEF deskEntityRids
  <2>3. e \in entityFilter("user", "any")
    <3>1. entities[e] \in Entity
      BY DEF RowsAtRest, RowTypes
    <3>2. entities[e].by = "user"
      BY <3>1 DEF Entity, Machine
    <3> QED
      BY <3>2 DEF entityFilter
  <2>4. adminList(d)[e].files = Cardinality({l.f : l \in {k \in FileLinks(e) : d \in {NoDesk, k.desk}}})
    BY <2>1, <2>2, <2>3 DEF adminList
  <2>5. {l.f : l \in {k \in FileLinks(e) : d \in {NoDesk, k.desk}}} = on[d]
    BY <2>1
  <2> QED
    BY <1>1, <2>4, <2>5
<1> QED
  BY <1>8, <1>9, <1>10

\* The files of a desk with all the tags, and those with one of them.
LEMMA FilesWithAny ==
  ASSUME NEW es, NEW ds
  PROVE  \A f : f \in fileRidsWithEntities(es, "or", ds) <=> \E e \in es : f \in Targets(e, ds)
BY DEF fileRidsWithEntities

LEMMA FilesWithAll ==
  ASSUME RowsAtRest, NEW es, es \subseteq Known, es # {}, NEW ds
  PROVE  \A f : f \in fileRidsWithEntities(es, "and", ds) <=> \A e \in es : f \in Targets(e, ds)
<1> DEFINE mine(e) == {l \in LinksOf(e) : InProjects(l, ds)}
           rows(e) == Cardinality(mine(e))
<1>1. IsFiniteSet(es)
  <2>1. IsFiniteSet(1..lastEntity)
    BY TagsConstants, FS_Interval DEF RowsAtRest, RowTypes
  <2> QED
    BY <2>1, FS_Subset DEF RowsAtRest, RowTypes
<1>2. CASE Cardinality(es) > 1
  <2>1. \A e \in es : rows(e) \in Nat /\ (rows(e) = 0 => mine(e) = {})
    <3> SUFFICES ASSUME NEW e \in es PROVE rows(e) \in Nat /\ (rows(e) = 0 => mine(e) = {})
      OBVIOUS
    <3>1. PICK s : s = mine(e)
      OBVIOUS
    <3>2. s \subseteq links
      BY <3>1 DEF LinksOf
    <3>3. IsFiniteSet(s) /\ Cardinality(s) \in Nat
      BY <3>2, LinksCount DEF RowsAtRest
    <3>4. Cardinality(s) = 0 => s = {}
      BY <3>3, FS_EmptySet
    <3> QED
      BY <3>1, <3>3, <3>4
  <2>2. \A e : Targets(e, ds) = {l.f : l \in mine(e)}
    BY DEF Targets
  <2> HIDE DEF mine
  <2>3. \E e \in es : \A x \in es : rows(e) <= rows(x)
    <3> DEFINE N == {rows(e) : e \in es}
    <3>1. N \subseteq Nat /\ N # {}
      BY <2>1
    <3>2. PICK n \in N : \A m \in N : n <= m
      BY <3>1, LeastNumber
    <3> QED
      BY <3>2
  <2>4. PICK rarest : rarest = CHOOSE e \in es : \A x \in es : rows(e) <= rows(x)
    OBVIOUS
  <2>5. rarest \in es
    BY <2>3, <2>4
  <2>6. filesWithAll(es, ds) = IF \E e \in es : rows(e) = 0 THEN {}
                               ELSE {f \in Targets(rarest, ds) : \A e \in es \ {rarest} : f \in Targets(e, ds)}
    BY <2>4 DEF filesWithAll, mine
  <2>7. \A f : f \in filesWithAll(es, ds) <=> \A e \in es : f \in Targets(e, ds)
    <3>1. CASE \E e \in es : rows(e) = 0
      <4>1. PICK e \in es : mine(e) = {}
        BY <2>1, <3>1
      <4>2. Targets(e, ds) = {}
        BY <2>2, <4>1
      <4> QED
        BY <2>6, <3>1, <4>2
    <3>2. CASE ~\E e \in es : rows(e) = 0
      BY <2>5, <2>6, <3>2
    <3> QED
      BY <3>1, <3>2
  <2> QED
    BY <1>2, <2>7 DEF fileRidsWithEntities
<1>3. CASE ~(Cardinality(es) > 1)
  <2>1. PICK e : e \in es
    OBVIOUS
  <2>2. {e} \subseteq es /\ Cardinality({e}) = 1 /\ Cardinality(es) \in Nat
    BY <1>1, <2>1, FS_Singleton, FS_CardinalityType
  <2>3. Cardinality({e}) <= Cardinality(es) /\ (Cardinality({e}) = Cardinality(es) => {e} = es)
    BY <1>1, <2>2, FS_Subset
  <2>4. es = {e}
    BY <1>3, <2>2, <2>3
  <2> QED
    BY <1>3, <2>4 DEF fileRidsWithEntities
<1> QED
  BY <1>2, <1>3

\* What the filter of a set finds.
Criteria(es, f) == {e \in es : \E l \in LinksOf(e) : l.f = f}
Tagged(f) == \E l \in links : l.f = f

IncludeIs(fs, es, match) ==
  LET filter == tagFilterSet(fs, es, "include", match)
  IN  /\ filter.ok <=> fs # {} /\ \E f \in fs : Tagged(f)
      /\ filter.ok => filter.matched = IF match = "or" THEN {f \in fs : Criteria(es, f) # {}}
                                       ELSE {f \in fs : Cardinality(Criteria(es, f)) = Cardinality(es)}

ExcludeIs(fs, es, match) ==
  LET filter == tagFilterSet(fs, es, "exclude", match)
  IN  /\ filter.ok <=> fs # {}
      /\ filter.ok => filter.matched = {f \in fs : Criteria(es, f) = {}}

LEMMA FilterIs ==
  ASSUME NEW fs, NEW es, es \subseteq Known, es # {}, NEW match \in {"or", "and"}
  PROVE  IncludeIs(fs, es, match) /\ ExcludeIs(fs, es, match)
<1>1. ASSUME NEW mode \in {"include", "exclude"}, NEW matched,
             matched = IF mode = "exclude" THEN {f \in fs : Criteria(es, f) = {}}
                       ELSE IF match = "or" THEN {f \in fs : Criteria(es, f) # {}}
                       ELSE {f \in fs : Cardinality(Criteria(es, f)) = Cardinality(es)}
      PROVE  tagFilterSet(fs, es, mode, match) =
               IF fs = {} \/ (mode = "include" /\ \A f \in fs : ~Tagged(f)) THEN NoMatch ELSE [ok |-> TRUE, matched |-> matched]
  <2>1. CASE mode = "exclude"
    BY <1>1, <2>1 DEF tagFilterSet, Criteria
  <2>2. CASE mode = "include" /\ match = "or"
    BY <1>1, <2>2 DEF tagFilterSet, Criteria, Tagged
  <2>3. CASE mode = "include" /\ match = "and"
    BY <1>1, <2>3 DEF tagFilterSet, Criteria, Tagged
  <2> QED
    BY <2>1, <2>2, <2>3
<1>2. IncludeIs(fs, es, match)
  <2>1. PICK matched : matched = IF match = "or" THEN {f \in fs : Criteria(es, f) # {}}
                                 ELSE {f \in fs : Cardinality(Criteria(es, f)) = Cardinality(es)}
    OBVIOUS
  <2>2. PICK filter : filter = tagFilterSet(fs, es, "include", match)
    OBVIOUS
  <2>3. filter = IF fs = {} \/ \A f \in fs : ~Tagged(f) THEN NoMatch ELSE [ok |-> TRUE, matched |-> matched]
    BY <1>1, <2>1, <2>2
  <2>4. (filter.ok <=> ~(fs = {} \/ \A f \in fs : ~Tagged(f))) /\ (filter.ok => filter.matched = matched)
    BY <2>3 DEF NoMatch
  <2> QED
    BY <2>1, <2>2, <2>4 DEF IncludeIs
<1>3. ExcludeIs(fs, es, match)
  <2>1. PICK matched : matched = {f \in fs : Criteria(es, f) = {}}
    OBVIOUS
  <2>2. PICK filter : filter = tagFilterSet(fs, es, "exclude", match)
    OBVIOUS
  <2>3. filter = IF fs = {} THEN NoMatch ELSE [ok |-> TRUE, matched |-> matched]
    BY <1>1, <2>1, <2>2
  <2>4. (filter.ok <=> fs # {}) /\ (filter.ok => filter.matched = matched)
    BY <2>3 DEF NoMatch
  <2> QED
    BY <2>1, <2>2, <2>4 DEF ExcludeIs
<1> QED
  BY <1>2, <1>3

LEMMA FiltersMatch ==
  ASSUME RowsAtRest, NEW d \in desks, NEW es \in (SUBSET Known) \ {{}}, NEW match \in {"or", "and"}
  PROVE  LET fs == files \cap FilesOf(d)
             include == tagFilterSet(fs, es, "include", match)
             exclude == tagFilterSet(fs, es, "exclude", match)
         IN  /\ include.ok => include.matched = fileRidsWithEntities(es, match, {d}) \cap fs
             /\ include.ok /\ match = "or" => fs = include.matched \cup exclude.matched
             /\ ~include.ok => fileRidsWithEntities(es, match, {d}) \cap fs = {}
<1> DEFINE fs == files \cap FilesOf(d)
           include == tagFilterSet(fs, es, "include", match)
           exclude == tagFilterSet(fs, es, "exclude", match)
           found == fileRidsWithEntities(es, match, {d})
<1>1. es \subseteq Known /\ es # {}
  OBVIOUS
<1>2. IsFiniteSet(es)
  <2>1. IsFiniteSet(1..lastEntity)
    BY TagsConstants, FS_Interval DEF RowsAtRest, RowTypes
  <2> QED
    BY <2>1, <1>1, FS_Subset DEF RowsAtRest, RowTypes
<1>3. ASSUME NEW f \in fs PROVE \A e : f \in Targets(e, {d}) <=> \E l \in LinksOf(e) : l.f = f
  <2> SUFFICES ASSUME NEW e PROVE f \in Targets(e, {d}) <=> \E l \in LinksOf(e) : l.f = f
    OBVIOUS
  <2>1. DeskOf[f] = d
    BY DEF FilesOf
  <2>2. f \in Targets(e, {DeskOf[f]}) <=> \E l \in LinksOf(e) : l.f = f
    BY TargetsAre
  <2> QED
    BY <2>1, <2>2
<1>4. ASSUME NEW f \in fs
      PROVE  f \in found <=> IF match = "or" THEN Criteria(es, f) # {} ELSE Cardinality(Criteria(es, f)) = Cardinality(es)
  <2>1. Criteria(es, f) = {e \in es : f \in Targets(e, {d})}
    BY <1>3 DEF Criteria
  <2>2. CASE match = "or"
    <3>1. f \in found <=> \E e \in es : f \in Targets(e, {d})
      BY <2>2, FilesWithAny
    <3> QED
      BY <2>1, <2>2, <3>1
  <2>3. CASE match = "and"
    <3>1. f \in found <=> \A e \in es : f \in Targets(e, {d})
      BY <1>1, <2>3, FilesWithAll
    <3>2. PICK c : c = Criteria(es, f)
      OBVIOUS
    <3>3. c \subseteq es /\ (f \in found <=> c = es)
      BY <2>1, <3>1, <3>2
    <3>4. Cardinality(c) = Cardinality(es) => c = es
      BY <1>2, <3>3, FS_Subset
    <3> QED
      BY <2>3, <3>2, <3>3, <3>4
  <2> QED
    BY <2>2, <2>3
<1> HIDE DEF found
<1>5. /\ include.ok <=> fs # {} /\ \E f \in fs : Tagged(f)
      /\ include.ok => include.matched = IF match = "or" THEN {f \in fs : Criteria(es, f) # {}}
                                         ELSE {f \in fs : Cardinality(Criteria(es, f)) = Cardinality(es)}
  <2> HIDE DEF fs
  <2>1. IncludeIs(fs, es, match)
    BY <1>1, FilterIs
  <2> QED
    BY <2>1 DEF IncludeIs
<1>6. /\ exclude.ok <=> fs # {}
      /\ exclude.ok => exclude.matched = {f \in fs : Criteria(es, f) = {}}
  <2> HIDE DEF fs
  <2>1. ExcludeIs(fs, es, match)
    BY <1>1, FilterIs
  <2> QED
    BY <2>1 DEF ExcludeIs
<1> HIDE DEF include, exclude, fs
<1>7. include.ok => include.matched = found \cap fs
  BY <1>4, <1>5
<1>8. include.ok /\ match = "or" => fs = include.matched \cup exclude.matched
  BY <1>5, <1>6
<1>9. ASSUME ~include.ok PROVE found \cap fs = {}
  <2> SUFFICES ASSUME NEW f \in fs, f \in found PROVE FALSE
    OBVIOUS
  <2>1. Criteria(es, f) # {}
    <3>1. CASE Criteria(es, f) = {}
      <4>1. match = "and" /\ Cardinality({}) = Cardinality(es)
        BY <1>4, <3>1
      <4>2. es = {}
        BY <1>2, <4>1, FS_EmptySet
      <4> QED
        BY <1>1, <4>2
    <3> QED
      BY <3>1
  <2>2. Tagged(f)
    BY <2>1 DEF Criteria, Tagged, LinksOf
  <2> QED
    BY <1>5, <1>9, <2>2
<1> QED
  BY <1>7, <1>8, <1>9 DEF include, exclude, fs, found

\* The counts beside the tags and the totals of the lists.
LEMMA CountsMatch ==
  ASSUME RowsAtRest
  PROVE  /\ \A fs \in SUBSET files : \A row \in setEntities(fs) :
              /\ row.count <= Cardinality(fileRidsWithEntities({row.e}, "or", {}) \cap fs)
              /\ row.count = Cardinality({f \in fs : f \in DOMAIN entitiesForFiles(fs) /\ row.e \in entitiesForFiles(fs)[f]})
         /\ \A e \in Known, ds \in SUBSET desks :
              LET page == entityItems({e}, "or", ds) IN page.total = Cardinality(page.items)
<1>1. \A l \in links : l.f \in files /\ l.f \in Files /\ l.desk = DeskOf[l.f]
  BY DEF RowsAtRest, RowTypes
<1>2. ASSUME NEW fs \in SUBSET files, NEW row \in setEntities(fs)
      PROVE  /\ row.count <= Cardinality(fileRidsWithEntities({row.e}, "or", {}) \cap fs)
             /\ row.count = Cardinality({f \in fs : f \in DOMAIN entitiesForFiles(fs) /\ row.e \in entitiesForFiles(fs)[f]})
  <2>1. PICK e \in Known : row = [e |-> e, count |-> Cardinality({l.f : l \in FileLinks(e)} \cap fs)]
    BY DEF setEntities
  <2>2. row.e = e /\ row.count = Cardinality({l.f : l \in FileLinks(e)} \cap fs)
    BY <2>1
  <2> DEFINE counted == {l.f : l \in FileLinks(e)} \cap fs
             opened == fileRidsWithEntities({e}, "or", {}) \cap fs
             listed == {f \in fs : f \in DOMAIN entitiesForFiles(fs) /\ e \in entitiesForFiles(fs)[f]}
  <2>3. opened = {l.f : l \in LinksOf(e)} \cap fs
    BY DEF fileRidsWithEntities, Targets, InProjects
  <2>4. counted \subseteq opened
    BY <2>3 DEF FileLinks
  <2>5. opened \subseteq Files
    BY DEF RowsAtRest, RowTypes
  <2>6. \A f \in fs : e \in linkedEntities(f) <=> f \in counted
    BY DEF linkedEntities
  <2>7. listed = counted
    <3>1. \A f \in fs : /\ f \in DOMAIN entitiesForFiles(fs) <=> linkedEntities(f) # {}
                        /\ f \in DOMAIN entitiesForFiles(fs) => entitiesForFiles(fs)[f] = linkedEntities(f)
      BY DEF entitiesForFiles
    <3> QED
      BY <2>6, <3>1
  <2> HIDE DEF counted, opened, listed
  <2>8. IsFiniteSet(opened)
    BY <2>5, FilesCount
  <2>9. Cardinality(counted) <= Cardinality(opened)
    BY <2>4, <2>8, FS_Subset
  <2> QED
    BY <2>2, <2>7, <2>9 DEF counted, opened, listed
<1>3. ASSUME NEW e \in Known, NEW ds \in SUBSET desks
      PROVE  entityItems({e}, "or", ds).total = Cardinality(entityItems({e}, "or", ds).items)
  <2> DEFINE all == fileRidsWithEntities({e}, "or", ds)
             shown == {f \in all \cap files : ds = {} \/ DeskOf[f] \in ds}
  <2>1. all = {l.f : l \in {k \in LinksOf(e) : ds = {} \/ k.desk \in ds}}
    BY DEF fileRidsWithEntities, Targets, InProjects
  <2>2. shown = all
    BY <1>1, <2>1 DEF LinksOf
  <2>3. entityItems({e}, "or", ds) = [total |-> Cardinality(all), items |-> shown]
    BY DEF entityItems
  <2> HIDE DEF all, shown
  <2> QED
    BY <2>2, <2>3
<1> QED
  BY <1>2, <1>3

\* Each tag is in a list of a desk.
LEMMA AllTagsShow ==
  ASSUME RowsAtRest
  PROVE  /\ groupedEntities("any", desks) = groupedEntities("any", {})
         /\ machineTags(desks) = machineTags({})
         /\ \A e \in Known : ~Machine(e) => \E d \in desks : e \in DOMAIN adminList(d)
         /\ \A t \in entityTypes : t.protected => t.count >= Cardinality(UNION {tags(d) : d \in desks})
<1>1. ASSUME NEW e \in Known PROVE desks # {} /\ e \in entityRidsInProjects(desks)
  <2>1. CASE Machine(e)
    <3>1. PICK l \in links : l.e = e
      BY <2>1 DEF RowsAtRest
    <3> QED
      BY <3>1 DEF RowsAtRest, entityRidsInProjects
  <2>2. CASE ~Machine(e)
    <3>1. PICK d \in desks : <<e, d>> \in vocabulary
      BY <2>2 DEF RowsAtRest
    <3>2. <<e, d>> \in {w \in vocabulary : w[2] \in desks} /\ <<e, d>>[1] = e
      BY <3>1
    <3> QED
      BY <3>1, <3>2 DEF entityRidsInProjects
  <2> QED
    BY <2>1, <2>2
<1>2. entitiesOfType("any", "any", desks) = entitiesOfType("any", "any", {})
  BY <1>1 DEF entitiesOfType, entityFilter
<1>3. groupedEntities("any", desks) = groupedEntities("any", {})
  BY <1>2 DEF groupedEntities
<1>4. {l \in links : l.by = "machine" /\ InProjects(l, desks)} = {l \in links : l.by = "machine" /\ InProjects(l, {})}
  BY DEF InProjects, RowsAtRest
<1>5. machineTags(desks) = machineTags({})
  BY <1>4 DEF machineTags
<1>6. ASSUME NEW e \in Known, ~Machine(e) PROVE \E d \in desks : e \in DOMAIN adminList(d)
  <2>1. PICK d \in desks : <<e, d>> \in vocabulary
    BY <1>6 DEF RowsAtRest
  <2>2. d # NoDesk
    BY TagsConstants DEF RowsAtRest, RowTypes
  <2>3. e \in deskEntityRids(d)
    BY <2>1 DEF deskEntityRids
  <2>4. entities[e].by = "user"
    <3>1. entities[e] \in Entity
      BY DEF RowsAtRest, RowTypes
    <3> QED
      BY <1>6, <3>1 DEF Entity, Machine
  <2>5. e \in entityFilter("user", "any")
    BY <2>4 DEF entityFilter
  <2>6. DOMAIN adminList(d) = entityFilter("user", "any") \cap deskEntityRids(d)
    BY <2>2 DEF adminList
  <2> QED
    BY <2>3, <2>5, <2>6
<1>7. ASSUME NEW t \in entityTypes, t.protected PROVE t.count >= Cardinality(UNION {tags(d) : d \in desks})
  <2>1. PICK u \in types : t = [type |-> u, count |-> Cardinality(entityFilter("any", u)), protected |-> u = ProtectedType]
    BY DEF entityTypes
  <2>2. t.count = Cardinality(entityFilter("any", ProtectedType))
    BY <1>7, <2>1
  <2> DEFINE all == entityFilter("any", ProtectedType)
             ofDesks == UNION {tags(d) : d \in desks}
  <2>3. all \subseteq Known /\ ofDesks \subseteq all
    BY DEF entityFilter, tags
  <2>4. IsFiniteSet(all)
    <3>1. IsFiniteSet(1..lastEntity)
      BY TagsConstants, FS_Interval DEF RowsAtRest, RowTypes
    <3>2. all \subseteq 1..lastEntity
      BY <2>3 DEF RowsAtRest, RowTypes
    <3> HIDE DEF all
    <3> QED
      BY <3>1, <3>2, FS_Subset
  <2> HIDE DEF all, ofDesks
  <2>5. Cardinality(ofDesks) <= Cardinality(all) /\ Cardinality(ofDesks) \in Nat /\ Cardinality(all) \in Nat
    BY <2>3, <2>4, FS_Subset, FS_CardinalityType
  <2> QED
    BY <2>2, <2>5 DEF all, ofDesks
<1> QED
  BY <1>3, <1>5, <1>6, <1>7

\* Once the calls are over the tag view, the set filter, the admin list and the
\* warning before a rename or a delete tell of the same tags and files, and
\* leave none out: whoever takes the last desk from a tag, or makes one, has it
\* in hand until it is on a desk or deleted.
THEOREM QueriesStayAgreed ==
  ASSUME NoneBreak
  PROVE  TagsSpec => []QueriesAgree
<1>1. ASSUME RowsInv, SyncInv, HeldInv PROVE QueriesAgree
  <2>1. Quiet => RowsAtRest
    BY <1>1, AtRest
  <2>2. UsageIsComplete
    BY <2>1, UsageAdds DEF UsageIsComplete
  <2>3. FiltersAgree
    BY <2>1, FiltersMatch DEF FiltersAgree
  <2>4. CountsMatchLists
    BY <2>1, CountsMatch DEF CountsMatchLists
  <2>5. NoTagIsLost
    BY <2>1, AllTagsShow DEF NoTagIsLost
  <2> QED
    BY <2>2, <2>3, <2>4, <2>5 DEF QueriesAgree
<1> QED
  BY <1>1, HandsStayHeld, PTL
=============================================================================
