--------------------------- MODULE ServiceProofs ---------------------------
(***************************************************************************)
(* Proofs about what services are asked and what they answer:              *)
(* SemanticSearch, Rois, ServiceRegistry, SingleRuns, TokenBudget and      *)
(* Matching, for any users, documents, regions, services, tasks and        *)
(* groups, and any number of requests under way.  Each has its own         *)
(* specification and its own inductive invariant.                          *)
(***************************************************************************)
EXTENDS Matching, SemanticSearch, Rois, ServiceRegistry, SingleRuns, TokenBudget,
        Counting, SequenceTheorems

-----------------------------------------------------------------------------
(* Searches.                                                               *)

Search == [user: Users, index: IndexFiles, status: {"queued", "done", "failed"},
           hits: SUBSET SearchDocs, old: BOOLEAN]
Answer == [id: SearchIds \cup {NoSearch}, todo: SUBSET SearchDocs, hits: SUBSET SearchDocs]
Header == [mtime: Nat, info: Nat]

SearchTypeOK ==
  /\ DOMAIN searchJob \subseteq SearchIds /\ searchJob \in [DOMAIN searchJob -> 0 .. 2]
  /\ pending \in [Searches -> Search]
  /\ answer \in [Answers -> Answer]
  /\ docs \subseteq SearchDocs

\* The id of a search is not given a second time while anything knows of it.
IdsAreJobs ==
  /\ Searches \subseteq DOMAIN searchJob
  /\ \A a \in Answers : answer[a].id # NoSearch => answer[a].id \in DOMAIN searchJob

\* Hits belong to the asker, those an answer has found so far included.
HitsOwned ==
  /\ \A s \in Searches : \A d \in pending[s].hits : DocOwner[d] = pending[s].user
  /\ \A a \in Answers : answer[a].id \in Searches =>
       \A d \in answer[a].hits : DocOwner[d] = pending[answer[a].id].user

SearchInv == SearchTypeOK /\ IdsAreJobs /\ HitsOwned /\ NoSearchHangs

\* A header is read after the time it is filed under.
HeaderInv ==
  /\ indexFile \in [IndexFiles -> Nat] /\ headers \in [IndexFiles -> Header] /\ listing.mtime \in Nat
  /\ listing.info \in Nat
  /\ \A i \in IndexFiles : headers[i].mtime <= headers[i].info /\ headers[i].info <= indexFile[i]
  /\ listing.index \in IndexFiles /\ listing.info # 0 =>
       listing.mtime <= listing.info /\ listing.info <= indexFile[listing.index]
  /\ listing.index \in IndexFiles => listing.mtime <= indexFile[listing.index]
  /\ listing = [index |-> listing.index, mtime |-> listing.mtime, info |-> listing.info]

-----------------------------------------------------------------------------
(* Searches.                                                               *)

LEMMA SearchInitInv == SearchInit => SearchInv
BY SearchConstants DEF SearchInit, SearchInv, SearchTypeOK, IdsAreJobs, HitsOwned, NoSearchHangs, Searches,
   Search, Answer, NoAnswer

\* The variables of the searches but for the services that are live.
searchPart == <<pending, searchJob, answer, docs>>

LEMMA SearchQuiet ==
  ASSUME SearchInv, UNCHANGED searchPart
  PROVE  SearchInv'
BY DEF SearchInv, SearchTypeOK, IdsAreJobs, HitsOwned, NoSearchHangs, HasAttempt, Searches, searchPart

LEMMA StartKeeps ==
  ASSUME SearchInv, NEW u \in Users, NEW i \in IndexFiles, NEW s \in SearchIds, startSearch(u, i, s)
  PROVE  SearchInv'
<1>. DEFINE new == [user |-> u, index |-> i, status |-> "queued", hits |-> {}, old |-> FALSE]
<1>1. /\ Searches' = prune \cup {s} /\ pending'[s] = new
      /\ \A t \in prune \ {s} : t \in Searches /\ pending'[t] = pending[t]
      /\ s \notin DOMAIN searchJob /\ s \notin Searches
      /\ DOMAIN searchJob' = DOMAIN searchJob \cup {s} /\ searchJob'[s] = 2
      /\ \A t \in DOMAIN searchJob : searchJob'[t] = searchJob[t]
      /\ answer' = answer /\ docs' = docs
  BY DEF startSearch, prune, Searches, SearchInv, IdsAreJobs
<1>2. new \in Search
  BY DEF Search
<1>3. SearchTypeOK'
  <2>1. pending' \in [Searches' -> Search]
    <3>1. pending' = [t \in Searches' |-> pending'[t]]
      BY DEF startSearch, Searches
    <3>2. \A t \in Searches' : pending'[t] \in Search
      BY <1>1, <1>2 DEF SearchInv, SearchTypeOK
    <3>. QED  BY <3>1, <3>2
  <2>2. searchJob' \in [DOMAIN searchJob' -> 0 .. 2]
    BY <1>1 DEF startSearch, SearchInv, SearchTypeOK
  <2>. QED  BY <1>1, <2>1, <2>2 DEF SearchInv, SearchTypeOK
<1>4. IdsAreJobs'
  BY <1>1 DEF SearchInv, IdsAreJobs, prune
<1>5. HitsOwned'
  BY <1>1, SearchConstants DEF SearchInv, HitsOwned, IdsAreJobs, SearchTypeOK, Answer
<1>6. NoSearchHangs'
  BY <1>1 DEF SearchInv, NoSearchHangs, HasAttempt, SearchTypeOK, IdsAreJobs
<1>. QED  BY <1>3, <1>4, <1>5, <1>6 DEF SearchInv

\* A search changes its status, or grows old, and keeps its hits.
LEMMA PendingKept ==
  ASSUME SearchInv, NEW s \in SearchIds,
         \/ s \in Searches /\ pending' = [pending EXCEPT ![s].old = TRUE] /\ UNCHANGED <<searchJob, answer, docs>>
         \/ fail(s)
  PROVE  SearchInv'
<1>1. CASE s \in Searches /\ pending' = [pending EXCEPT ![s].old = TRUE] /\ UNCHANGED <<searchJob, answer, docs>>
  <2>1. /\ Searches' = Searches /\ pending' \in [Searches -> Search]
        /\ \A t \in Searches : /\ pending'[t].hits = pending[t].hits /\ pending'[t].user = pending[t].user
                               /\ pending'[t].status = pending[t].status
    BY <1>1 DEF SearchInv, SearchTypeOK, Search, Searches
  <2>. QED  BY <1>1, <2>1 DEF SearchInv, SearchTypeOK, IdsAreJobs, HitsOwned, NoSearchHangs, HasAttempt
<1>2. CASE fail(s)
  <2>1. /\ Searches' = Searches /\ pending' \in [Searches -> Search]
        /\ \A t \in Searches : pending'[t].hits = pending[t].hits /\ pending'[t].user = pending[t].user
        /\ \A t \in Searches : pending'[t].status = "queued" => pending[t].status = "queued" /\ t # s
    BY <1>2 DEF fail, FailQueued, SearchInv, SearchTypeOK, Search, Searches
  <2>2. /\ DOMAIN searchJob' = DOMAIN searchJob /\ searchJob' \in [DOMAIN searchJob -> 0 .. 2]
        /\ \A t \in DOMAIN searchJob \ {s} : searchJob'[t] = searchJob[t]
    BY <1>2 DEF fail, Attempt, HasAttempt, SearchInv, SearchTypeOK
  <2>. QED  BY <1>2, <2>1, <2>2 DEF fail, SearchInv, SearchTypeOK, IdsAreJobs, HitsOwned, NoSearchHangs, HasAttempt
<1>. QED  BY <1>1, <1>2

LEMMA DeliverKeeps ==
  ASSUME SearchInv, NEW a \in Answers, NEW s \in SearchIds, NEW found \in SUBSET SearchDocs, deliver(a, s, found)
  PROVE  SearchInv'
<1>1. /\ DOMAIN searchJob' = DOMAIN searchJob /\ searchJob' \in [DOMAIN searchJob -> 0 .. 2]
      /\ \A t \in DOMAIN searchJob \ {s} : searchJob'[t] = searchJob[t]
      /\ s \in DOMAIN searchJob
  BY DEF deliver, Attempt, HasAttempt, SearchInv, SearchTypeOK
<1>2. CASE s \in Searches /\ pending[s].status = "queued"
  <2>. DEFINE x == [id |-> s, todo |-> found, hits |-> {}]
  <2>1. answer' = [answer EXCEPT ![a] = x] /\ answer[a].id = NoSearch /\ x \in Answer
        /\ pending' = pending /\ docs' = docs /\ Searches' = Searches
    BY <1>2 DEF deliver, NoAnswer, Answer, Searches
  <2>2. answer' \in [Answers -> Answer] /\ answer'[a] = x /\ \A b \in Answers \ {a} : answer'[b] = answer[b]
    BY <2>1 DEF SearchInv, SearchTypeOK
  <2>3. SearchTypeOK' /\ IdsAreJobs' /\ HitsOwned'
    BY <1>1, <2>1, <2>2 DEF SearchInv, SearchTypeOK, IdsAreJobs, HitsOwned
  <2>4. NoSearchHangs'
    <3>. SUFFICES ASSUME NEW t \in Searches, pending[t].status = "queued", ~HasAttempt(t)'
                  PROVE  \E b \in Answers : answer'[b].id = t
      BY <2>1 DEF NoSearchHangs
    <3>1. CASE t = s
      BY <2>2, <3>1
    <3>2. CASE t # s
      <4>1. ~HasAttempt(t)
        BY <1>1, <3>2 DEF HasAttempt
      <4>2. PICK b \in Answers : answer[b].id = t
        BY <4>1 DEF SearchInv, NoSearchHangs
      <4>3. t # NoSearch
        BY SearchConstants DEF SearchInv, SearchTypeOK, IdsAreJobs
      <4>. QED  BY <2>1, <2>2, <4>2, <4>3
    <3>. QED  BY <3>1, <3>2
  <2>. QED  BY <2>3, <2>4 DEF SearchInv
<1>3. CASE ~(s \in Searches /\ pending[s].status = "queued")
  <2>1. answer' = answer /\ pending' = pending /\ docs' = docs /\ Searches' = Searches
    BY <1>3 DEF deliver, Searches
  <2>. QED  BY <1>1, <1>3, <2>1 DEF SearchInv, SearchTypeOK, IdsAreJobs, HitsOwned, NoSearchHangs, HasAttempt
<1>. QED  BY <1>2, <1>3

\* Each hit is checked against the asker of the search.
LEMMA HitKeeps ==
  ASSUME SearchInv, NEW a \in Answers, deliverHit(a)
  PROVE  SearchInv'
<1>. DEFINE s == answer[a].id
            hit(d) == IF s \in Searches /\ AskerOwns(s, d) THEN {d} ELSE {}
            seen(d) == [id |-> s, todo |-> answer[a].todo \ {d}, hits |-> answer[a].hits \cup hit(d)]
<1>1. PICK d \in answer[a].todo : answer' = [answer EXCEPT ![a] = seen(d)]
  BY DEF deliverHit
<1>. DEFINE x == seen(d)
<1>2. answer[a] \in Answer /\ hit(d) \subseteq SearchDocs
  BY DEF SearchInv, SearchTypeOK, Answer
<1>3. /\ x \in Answer /\ x.id = s /\ x.hits = answer[a].hits \cup hit(d)
      /\ answer' = [answer EXCEPT ![a] = x]
  <2>1. x \in Answer /\ x.id = s /\ x.hits = answer[a].hits \cup hit(d)
    BY <1>2 DEF Answer
  <2>2. answer' = [answer EXCEPT ![a] = x]
    BY <1>1
  <2>. QED  BY <2>1, <2>2
<1>. HIDE DEF x
<1>4. /\ answer' \in [Answers -> Answer] /\ answer'[a] = x
      /\ \A b \in Answers \ {a} : answer'[b] = answer[b]
      /\ \A b \in Answers : answer'[b].id = answer[b].id
  BY <1>3 DEF SearchInv, SearchTypeOK
<1>5. pending' = pending /\ searchJob' = searchJob /\ docs' = docs /\ Searches' = Searches
  BY DEF deliverHit, Searches
<1>6. HitsOwned'
  <2>1. \A e \in hit(d) : s \in Searches => DocOwner[e] = pending[s].user
    BY DEF AskerOwns
  <2>. QED  BY <1>3, <1>4, <1>5, <2>1 DEF SearchInv, HitsOwned
<1>. QED  BY <1>4, <1>5, <1>6 DEF SearchInv, SearchTypeOK, IdsAreJobs, NoSearchHangs, HasAttempt

LEMMA EndKeeps ==
  ASSUME SearchInv, NEW a \in Answers, deliverEnd(a)
  PROVE  SearchInv'
<1>. DEFINE s == answer[a].id
<1>1. /\ answer' = [answer EXCEPT ![a] = NoAnswer] /\ searchJob' = searchJob /\ docs' = docs
      /\ answer[a] \in Answer /\ NoAnswer \in Answer
  BY DEF deliverEnd, NoAnswer, Answer, SearchInv, SearchTypeOK
<1>2. /\ answer' \in [Answers -> Answer] /\ answer'[a] = NoAnswer
      /\ \A b \in Answers \ {a} : answer'[b] = answer[b]
  BY <1>1 DEF SearchInv, SearchTypeOK
<1>3. /\ Searches' = Searches /\ pending' \in [Searches -> Search]
      /\ \A t \in Searches : pending'[t].user = pending[t].user
      /\ \A t \in Searches \ {s} : pending'[t] = pending[t]
      /\ s \in Searches => pending'[s].hits = answer[a].hits /\ pending'[s].status = "done"
  <2>. DEFINE y == [pending[s] EXCEPT !.status = "done", !.hits = answer[a].hits]
  <2>1. CASE s \in Searches
    <3>1. pending[s] \in Search /\ answer[a].hits \subseteq SearchDocs
      BY <1>1, <2>1 DEF SearchInv, SearchTypeOK, Answer
    <3>2. y \in Search /\ y.user = pending[s].user /\ y.hits = answer[a].hits /\ y.status = "done"
      BY <3>1 DEF Search
    <3>3. pending' = [pending EXCEPT ![s] = y]
      BY <2>1 DEF deliverEnd
    <3>. QED  BY <2>1, <3>2, <3>3 DEF SearchInv, SearchTypeOK, Searches
  <2>2. CASE s \notin Searches
    BY <2>2 DEF deliverEnd, SearchInv, SearchTypeOK, Searches
  <2>. QED  BY <2>1, <2>2
<1>4. NoSearch \notin Searches
  BY SearchConstants DEF SearchInv, SearchTypeOK, IdsAreJobs
<1>5. SearchTypeOK' /\ IdsAreJobs'
  BY <1>1, <1>2, <1>3 DEF SearchInv, SearchTypeOK, IdsAreJobs, NoAnswer
<1>6. HitsOwned'
  BY <1>2, <1>3, <1>4 DEF SearchInv, HitsOwned, NoAnswer
<1>7. NoSearchHangs'
  BY <1>1, <1>2, <1>3 DEF SearchInv, NoSearchHangs, HasAttempt
<1>. QED  BY <1>5, <1>6, <1>7 DEF SearchInv

LEMMA LostKeeps ==
  ASSUME SearchInv, NEW s \in SearchIds, attemptLost(s)
  PROVE  SearchInv'
<1>1. /\ DOMAIN searchJob' = DOMAIN searchJob /\ searchJob' \in [DOMAIN searchJob -> 0 .. 2]
      /\ \A t \in DOMAIN searchJob : searchJob'[t] = 0 => searchJob[t] = 0
      /\ pending' = pending /\ answer' = answer /\ docs' = docs /\ Searches' = Searches
  BY DEF attemptLost, Attempt, HasAttempt, SearchInv, SearchTypeOK, Searches
<1>. QED  BY <1>1 DEF SearchInv, SearchTypeOK, IdsAreJobs, HitsOwned, NoSearchHangs, HasAttempt

LEMMA RestartKeeps ==
  ASSUME SearchInv, RestartSearch
  PROVE  SearchInv'
BY SearchConstants DEF RestartSearch, SearchInv, SearchTypeOK, IdsAreJobs, HitsOwned, NoSearchHangs, Searches,
   Answer, NoAnswer

-----------------------------------------------------------------------------
(* Headers.                                                                *)

LEMMA HeaderInitInv == SearchInit => HeaderInv
BY DEF SearchInit, HeaderInv, Header, NoListing

LEMMA HeaderQuiet ==
  ASSUME HeaderInv, UNCHANGED <<indexFile, headers, listing>>
  PROVE  HeaderInv'
BY DEF HeaderInv

LEMMA HeaderKeeps ==
  ASSUME HeaderInv, HeaderSteps
  PROVE  HeaderInv'
<1>1. ASSUME NEW i \in IndexFiles, RebuildIndex(i)  PROVE HeaderInv'
  <2>1. /\ indexFile' \in [IndexFiles -> Nat] /\ headers' = headers /\ listing' = listing
        /\ \A k \in IndexFiles : indexFile[k] <= indexFile'[k]
    BY <1>1 DEF RebuildIndex, HeaderInv
  <2>. QED  BY <2>1 DEF HeaderInv, Header
<1>2. ASSUME NEW i \in IndexFiles, indexStat(i)  PROVE HeaderInv'
  <2>1. /\ listing' = [index |-> i, mtime |-> indexFile[i], info |-> 0]
        /\ indexFile' = indexFile /\ headers' = headers
    BY <1>2 DEF indexStat, NoListing
  <2>. QED  BY <2>1 DEF HeaderInv, Header
<1>3. CASE indexRead
  BY <1>3 DEF indexRead, HeaderInv, Header
<1>4. CASE indexMeta
  BY <1>4 DEF indexMeta, NoListing, CacheTime, HeaderInv, Header
<1>5. CASE RestartSearch
  BY <1>5 DEF RestartSearch, NoListing, HeaderInv, Header
<1>. QED  BY <1>1, <1>2, <1>3, <1>4, <1>5 DEF HeaderSteps

-----------------------------------------------------------------------------
LEMMA StepKeeps ==
  ASSUME SearchInv, HeaderInv, [SearchNext]_searchVars
  PROVE  SearchInv' /\ HeaderInv'
<1>1. ASSUME NEW u \in Users, NEW i \in IndexFiles, NEW s \in SearchIds, startSearch(u, i, s)
      PROVE  SearchInv' /\ HeaderInv'
  BY <1>1, StartKeeps, HeaderQuiet DEF startSearch
<1>2. ASSUME NEW s \in SearchIds, KeepMsPassed(s) \/ fail(s) \/ attemptLost(s)
      PROVE  SearchInv' /\ HeaderInv'
  BY <1>2, PendingKept, LostKeeps, HeaderQuiet DEF KeepMsPassed, fail, attemptLost
<1>3. ASSUME NEW a \in Answers, NEW s \in SearchIds, NEW found \in SUBSET SearchDocs, deliver(a, s, found)
      PROVE  SearchInv' /\ HeaderInv'
  BY <1>3, DeliverKeeps, HeaderQuiet DEF deliver
<1>4. ASSUME NEW a \in Answers, deliverHit(a) \/ deliverEnd(a)
      PROVE  SearchInv' /\ HeaderInv'
  BY <1>4, HitKeeps, EndKeeps, HeaderQuiet DEF deliverHit, deliverEnd
<1>5. ASSUME NEW d \in SearchDocs, DeleteDoc(d)
      PROVE  SearchInv' /\ HeaderInv'
  BY <1>5, HeaderQuiet DEF DeleteDoc, SearchInv, SearchTypeOK, IdsAreJobs, HitsOwned, NoSearchHangs, HasAttempt,
     Searches
<1>6. ASSUME NEW s \in SearchServices, ConsumerStops(s)
      PROVE  SearchInv' /\ HeaderInv'
  BY <1>6, SearchQuiet, HeaderQuiet DEF ConsumerStops, searchPart
<1>7. CASE HeaderSteps
  <2>1. HeaderInv'
    BY <1>7, HeaderKeeps
  <2>2. CASE RestartSearch
    BY <2>1, <2>2, RestartKeeps
  <2>3. CASE UNCHANGED searchPart
    BY <2>1, <2>3, SearchQuiet
  <2>. QED  BY <1>7, <2>2, <2>3 DEF HeaderSteps, RebuildIndex, indexStat, indexRead, indexMeta, searchPart
<1>8. CASE UNCHANGED searchVars
  BY <1>8, SearchQuiet, HeaderQuiet DEF searchVars, searchPart
<1>9. CASE RestartSearch
  BY <1>9, <1>7 DEF HeaderSteps
<1>. QED  BY <1>1, <1>2, <1>3, <1>4, <1>5, <1>6, <1>7, <1>8, <1>9 DEF SearchNext, SearchSteps

\* What a user sees as hits is hers, no search hangs, and the cached headers are
\* those of the files: for every number of searches, answers and restarts.
THEOREM SearchesAreAlwaysAnswered == SearchSpec => []SearchesAreAnswered
<1>1. SearchInv /\ HeaderInv => SearchesAreAnswered
  <2>. SUFFICES ASSUME SearchInv, HeaderInv  PROVE SearchesAreAnswered
    OBVIOUS
  <2>1. HitsAreTheAskers
    BY DEF SearchInv, HitsOwned, HitsAreTheAskers, getSearch
  <2>2. HeadersAreFresh
    BY DEF HeaderInv, Header, HeadersAreFresh
  <2>. QED  BY <2>1, <2>2 DEF SearchInv, SearchesAreAnswered
<1>. QED  BY <1>1, SearchInitInv, HeaderInitInv, StepKeeps, PTL DEF SearchSpec

-----------------------------------------------------------------------------
(* Regions.                                                                *)

CallSteps == {"new", "create", "connect", "write", "writing", "path", "end", "node",
              "nodeAndFile", "file", "open", "done", "failed"}

CallType == [op: {"none", "save", "create", "update", "remove", "read"}, at: CallSteps,
             roi: Rois \cup {0}, want: RoiCalls \cup {"none"},
             got: RoiCalls \cup {"none", "torn"}, alone: BOOLEAN]

RoiType == [there: BOOLEAN, linked: BOOLEAN, path: BOOLEAN]

\* Steps at which a request has found its node.
AtNode == {"connect", "write", "writing", "path", "node", "nodeAndFile", "file", "open"}

RoisTyped ==
  /\ roi \in [Rois -> RoiType]
  /\ text \in [Rois -> RoiCalls \cup {"none", "torn"}]
  /\ call \in [RoiCalls -> CallType]
  /\ \A c \in RoiCalls :
       /\ call[c].at \in AtNode => call[c].roi \in Rois
       /\ call[c].op = "read" => call[c].at \in {"open", "done", "failed"}
       /\ call[c].at = "open" => call[c].op = "read"
  /\ saved \in RoiCalls \cup {"none"} /\ overlap \in BOOLEAN

\* A path is written after the file, and a file goes after its node.
PathInv ==
  /\ \A r \in Rois : roi[r].path => roi[r].there /\ text[r] # "none"
  /\ \A c \in RoiCalls :
       /\ call[c].at = "path" /\ roi[call[c].roi].there => text[call[c].roi] # "none"
       /\ call[c].at = "file" => ~roi[call[c].roi].there

There == {r \in Rois : roi[r].there}

OnlyThere(r) == r \in Rois /\ There = {r} /\ roi[r].linked

\* Between changes the node that is there has the regions that were saved.
Kept ==
  /\ \A r \in There : OnlyThere(r) /\ roi[r].path /\ text[r] = saved
  /\ There = {} => saved = "none"

\* How far a change has come, when it met no other.
Half(c) ==
  LET w == call[c]
  IN  /\ w.at = "create" => w.op = "create" /\ There = {}
      /\ w.at = "connect" => w.op = "create" /\ There = {w.roi}
      /\ w.at = "path" => w.op = "create" /\ OnlyThere(w.roi) /\ text[w.roi] = c
      /\ w.at \in {"write", "writing"} =>
           /\ w.op \in {"create", "save", "update"} /\ OnlyThere(w.roi)
           /\ w.op # "create" => roi[w.roi].path
      /\ w.at = "nodeAndFile" => w.op = "remove" /\ There = {w.roi}
      /\ w.at = "file" => w.op = "remove" /\ There = {}
      /\ w.at = "end" =>
           IF w.op = "remove" THEN There = {}
           ELSE OnlyThere(w.roi) /\ roi[w.roi].path /\ text[w.roi] = c
      /\ w.at \notin {"node", "open"}

\* What a read may rely on that met no change.
Reader(c) ==
  call[c].op = "read" /\ call[c].alone =>
    /\ call[c].at = "open" =>
         Changing = {} /\ call[c].want = saved /\ text[call[c].roi] = saved
    /\ call[c].at = "done" => call[c].got = call[c].want

Undisturbed ==
  /\ Changing = {} => Kept
  /\ \A c, d \in Changing : c = d
  /\ \A c \in Changing : Half(c)
  /\ \A c \in RoiCalls : Reader(c)

RoisInv == RoisTyped /\ PathInv /\ (~overlap => Undisturbed)

-----------------------------------------------------------------------------

\* A request begins, and the others learn of a change.
LEMMA BeginsWrites ==
  ASSUME RoisTyped, NEW c \in RoiCalls, NEW op \in {"save", "create", "update", "remove", "read"},
         NEW at \in CallSteps, NEW r \in Rois \cup {0}, Begins(c, op, at, r)
  PROVE  /\ call' \in [RoiCalls -> CallType]
         /\ call'[c].op = op /\ call'[c].at = at /\ call'[c].roi = r
         /\ call'[c].want = saved /\ call'[c].got = "none"
         /\ call'[c].alone <=> Changing = {}
         /\ \A d \in RoiCalls \ {c} :
              /\ call'[d].op = call[d].op /\ call'[d].at = call[d].at
              /\ call'[d].roi = call[d].roi /\ call'[d].want = call[d].want
              /\ call'[d].got = call[d].got
              /\ call'[d].alone => call[d].alone /\ op = "read"
         /\ overlap' \in BOOLEAN
         /\ ~overlap' => ~overlap /\ (op = "read" \/ Changing = {})
<1>. PICK w : w = [NewCall EXCEPT !.op = op, !.at = at, !.roi = r, !.want = saved,
                                  !.alone = (Changing = {})]
  OBVIOUS
<1>1. /\ w \in CallType /\ w.op = op /\ w.at = at /\ w.roi = r /\ w.want = saved
      /\ w.got = "none" /\ (w.alone <=> Changing = {})
  BY DEF NewCall, CallType, RoisTyped
<1>2. \A d \in RoiCalls :
        call'[d] = IF d = c THEN w ELSE [call[d] EXCEPT !.alone = @ /\ op = "read"]
  BY DEF Begins
<1>3. call'[c] = w
  BY <1>2
<1>4. ASSUME NEW d \in RoiCalls \ {c}
      PROVE  /\ call'[d] \in CallType /\ call'[d].op = call[d].op /\ call'[d].at = call[d].at
             /\ call'[d].roi = call[d].roi /\ call'[d].want = call[d].want
             /\ call'[d].got = call[d].got
             /\ call'[d].alone => call[d].alone /\ op = "read"
  <2>1. call[d] \in CallType
    BY DEF RoisTyped
  <2>2. call'[d] = [call[d] EXCEPT !.alone = call[d].alone /\ op = "read"]
    BY <1>2
  <2>3. PICK b \in BOOLEAN : b <=> call[d].alone /\ op = "read"
    OBVIOUS
  <2>4. PICK v : v = call'[d]
    OBVIOUS
  <2>5. v = [call[d] EXCEPT !.alone = call[d].alone /\ op = "read"]
    BY <2>2, <2>4
  <2>6. /\ v \in CallType /\ v.op = call[d].op /\ v.at = call[d].at
        /\ v.roi = call[d].roi /\ v.want = call[d].want /\ v.got = call[d].got
        /\ v.alone => call[d].alone /\ op = "read"
    BY <2>1, <2>5 DEF CallType
  <2>. QED  BY <2>4, <2>6
<1>5. call' \in [RoiCalls -> CallType]
  <2>1. DOMAIN call' = RoiCalls /\ call' = [d \in RoiCalls |-> call'[d]]
    BY DEF Begins
  <2>2. \A d \in RoiCalls : call'[d] \in CallType
    BY <1>1, <1>3, <1>4
  <2>. QED  BY <2>1, <2>2
<1>6. overlap' \in BOOLEAN /\ (~overlap' => ~overlap /\ (op = "read" \/ Changing = {}))
  BY Zenon DEF Begins
<1>. HIDE DEF Begins
<1>. QED  BY <1>1, <1>3, <1>4, <1>5, <1>6, Zenon

\* A request goes on.
LEMMA GoesWrites ==
  ASSUME RoisTyped, NEW c \in RoiCalls, NEW at \in CallSteps, Goes(c, at)
  PROVE  /\ call' \in [RoiCalls -> CallType]
         /\ call'[c].op = call[c].op /\ call'[c].at = at /\ call'[c].roi = call[c].roi
         /\ call'[c].want = call[c].want /\ call'[c].got = call[c].got
         /\ call'[c].alone = call[c].alone
         /\ \A d \in RoiCalls \ {c} : call'[d] = call[d]
<1>1. PICK w : w = [call[c] EXCEPT !.at = at]
  OBVIOUS
<1>2. /\ w \in CallType /\ w.op = call[c].op /\ w.at = at /\ w.roi = call[c].roi
      /\ w.want = call[c].want /\ w.got = call[c].got /\ w.alone = call[c].alone
  BY <1>1 DEF RoisTyped, CallType
<1>3. call' = [call EXCEPT ![c] = w]
  BY <1>1 DEF Goes
<1>. QED  BY <1>2, <1>3 DEF RoisTyped

\* One node is written.
LEMMA RowWritten ==
  ASSUME RoisTyped, NEW r \in Rois, NEW row \in RoiType, roi' = [roi EXCEPT ![r] = row]
  PROVE  /\ roi' \in [Rois -> RoiType] /\ roi'[r] = row
         /\ \A q \in Rois \ {r} : roi'[q] = roi[q]
BY DEF RoisTyped

\* A change that met no other goes on: there is still no other, and no read that
\* counts is under way.
LEMMA ChangeGoesOn ==
  ASSUME RoisTyped, Undisturbed, NEW c \in Changing, call' \in [RoiCalls -> CallType],
         call'[c].op = call[c].op, \A d \in RoiCalls \ {c} : call'[d] = call[d]
  PROVE  /\ Changing' = IF call'[c].at \in {"new", "done", "failed"} THEN {} ELSE {c}
         /\ \A d \in RoiCalls : Reader(d)'
<1>1. c \in RoiCalls /\ call[c].op # "read"
  BY DEF Changing
<1>2. Changing = {c}
  BY DEF Undisturbed
<1>3. \A d \in RoiCalls : d \in Changing' <=> d = c /\ call'[c].at \notin {"new", "done", "failed"}
  <2>. SUFFICES ASSUME NEW d \in RoiCalls
                PROVE  d \in Changing' <=> d = c /\ call'[c].at \notin {"new", "done", "failed"}
    OBVIOUS
  <2>1. CASE d = c
    BY <2>1, <1>1 DEF Changing
  <2>2. CASE d # c
    BY <2>2, <1>2 DEF Changing
  <2>. QED  BY <2>1, <2>2
<1>4. Changing' \subseteq RoiCalls
  BY DEF Changing
<1>5. ASSUME NEW d \in RoiCalls
      PROVE  Reader(d)'
  <2>1. CASE d = c
    BY <2>1, <1>1 DEF Reader
  <2>2. CASE d # c
    BY <2>2, <1>2 DEF Undisturbed, Reader
  <2>. QED  BY <2>1, <2>2
<1>. QED  BY <1>1, <1>3, <1>4, <1>5

\* A request begins.
LEMMA BeginsKeeps ==
  ASSUME RoisInv, NEW c \in RoiCalls, NEW op, NEW at, NEW r \in Rois \cup {0},
         call[c].at = "new", Begins(c, op, at, r), UNCHANGED <<roi, text, roiStops, saved>>,
         \/ op = "create" /\ at = "create" /\ roiOf = {}
         \/ /\ op \in {"save", "update"} /\ r \in Rois /\ roi[r].there
            /\ at = IF roi[r].path THEN "write" ELSE "failed"
         \/ /\ op = "remove" /\ r \in Rois /\ roi[r].there
            /\ at = IF roi[r].path THEN "nodeAndFile" ELSE "node"
         \/ /\ op = "read" /\ r \in Rois /\ roi[r].there
            /\ at = IF roi[r].path THEN "open" ELSE "failed"
         \/ op = "read" /\ at = "done" /\ roiOf = {}
  PROVE  RoisInv'
<1>. USE DEF RoisInv
<1>1. /\ op \in {"save", "create", "update", "remove", "read"} /\ at \in CallSteps
      /\ at \notin {"new", "path", "file", "writing", "connect", "end"}
      /\ at \in AtNode => r \in Rois
      /\ (op = "read" => at \in {"open", "done", "failed"}) /\ (at = "open" => op = "read")
      /\ (at = "done" => op = "read")
  BY DEF CallSteps, AtNode
<1>2. /\ call' \in [RoiCalls -> CallType]
      /\ call'[c].op = op /\ call'[c].at = at /\ call'[c].roi = r
      /\ call'[c].want = saved /\ call'[c].got = "none"
      /\ call'[c].alone <=> Changing = {}
      /\ \A d \in RoiCalls \ {c} :
           /\ call'[d].op = call[d].op /\ call'[d].at = call[d].at
           /\ call'[d].roi = call[d].roi /\ call'[d].want = call[d].want
           /\ call'[d].got = call[d].got
           /\ call'[d].alone => call[d].alone /\ op = "read"
      /\ overlap' \in BOOLEAN
      /\ ~overlap' => ~overlap /\ (op = "read" \/ Changing = {})
  BY <1>1, BeginsWrites
<1>. HIDE DEF Begins
<1>3. RoisTyped'
  <2>1. /\ roi' \in [Rois -> RoiType]
        /\ text' \in [Rois -> RoiCalls \cup {"none", "torn"}]
        /\ saved' \in RoiCalls \cup {"none"}
    BY DEF RoisTyped
  <2>2. ASSUME NEW d \in RoiCalls
        PROVE  /\ call'[d].at \in AtNode => call'[d].roi \in Rois
               /\ call'[d].op = "read" => call'[d].at \in {"open", "done", "failed"}
               /\ call'[d].at = "open" => call'[d].op = "read"
    <3>1. CASE d = c
      BY <1>1, <1>2, <3>1
    <3>2. CASE d # c
      BY <1>2, <3>2 DEF RoisTyped
    <3>. QED  BY <3>1, <3>2
  <2>. QED  BY <1>2, <2>1, <2>2 DEF RoisTyped
<1>4. PathInv'
  <2>1. \A r1 \in Rois : roi'[r1].path => roi'[r1].there /\ text'[r1] # "none"
    BY DEF PathInv
  <2>2. ASSUME NEW d \in RoiCalls
        PROVE  /\ call'[d].at = "path" /\ roi'[call'[d].roi].there => text'[call'[d].roi] # "none"
               /\ call'[d].at = "file" => ~roi'[call'[d].roi].there
    <3>1. CASE d = c
      BY <1>1, <1>2, <3>1
    <3>2. CASE d # c
      <4>1. call'[d].at = call[d].at /\ call'[d].roi = call[d].roi
        BY <1>2, <3>2
      <4>. QED  BY <4>1 DEF PathInv
    <3>. QED  BY <3>1, <3>2
  <2>. QED  BY <2>1, <2>2 DEF PathInv
<1>5. ASSUME ~overlap'
      PROVE  Undisturbed'
  <2>1. ~overlap /\ Undisturbed /\ (op = "read" \/ Changing = {})
    BY <1>2, <1>5
  <2>2. Changing' = IF op # "read" /\ at # "failed" THEN {c} ELSE Changing
    <3>1. c \notin Changing
      BY DEF Changing
    <3>2. ASSUME NEW d \in RoiCalls \ {c}
          PROVE  d \in Changing' <=> d \in Changing
      BY <1>2 DEF Changing
    <3>3. c \in Changing' <=> op # "read" /\ at # "failed"
      BY <1>1, <1>2 DEF Changing
    <3>4. Changing' \subseteq RoiCalls /\ Changing \subseteq RoiCalls
      BY DEF Changing
    <3>. QED  BY <2>1, <3>1, <3>2, <3>3, <3>4
  <2>3. (op # "read" => at # "failed") /\ (Kept => Kept')
    <3>1. op # "read" => Kept
      BY <2>1 DEF Undisturbed
    <3>2. Kept /\ r \in Rois /\ roi[r].there => roi[r].path
      BY DEF Kept, There
    <3>3. Kept => Kept'
      BY DEF Kept, There, OnlyThere
    <3>. QED  BY <3>1, <3>2, <3>3
  <2>4. Changing' = {} => Kept'
    BY <2>1, <2>2, <2>3 DEF Undisturbed
  <2>5. \A d, e \in Changing' : d = e
    BY <2>1, <2>2 DEF Undisturbed
  <2>6. ASSUME NEW d \in Changing'
        PROVE  Half(d)'
    <3>1. CASE op # "read"
      <4>1. d = c /\ at # "failed" /\ Kept
        BY <2>1, <2>2, <2>3, <2>6, <3>1 DEF Undisturbed
      <4>2. There' = There /\ (\A q : OnlyThere(q)' <=> OnlyThere(q))
        BY DEF There, OnlyThere
      <4>3. at = "create" => There = {}
        BY <3>1, <4>1 DEF Kept, There, OnlyThere, roiOf
      <4>4. at \in {"write", "nodeAndFile"} => OnlyThere(r) /\ roi[r].path
        BY <3>1, <4>1 DEF Kept, There
      <4>5. at \in {"write", "create", "nodeAndFile"}
        <5>1. r \in Rois /\ roi[r].there => roi[r].path
          BY <4>1 DEF Kept, There
        <5>. QED  BY <3>1, <4>1, <5>1
      <4>6. /\ at = "create" => op = "create"
            /\ at = "write" => op \in {"save", "update"}
            /\ at = "nodeAndFile" => op = "remove"
        BY <3>1, <4>1
      <4>7. at = "nodeAndFile" => There = {r}
        BY <4>4 DEF OnlyThere
      <4>. HIDE DEF There, OnlyThere
      <4>. QED  BY <1>2, <4>1, <4>2, <4>3, <4>4, <4>5, <4>6, <4>7 DEF Half
    <3>2. CASE op = "read"
      <4>1. d \in Changing /\ d # c
        BY <2>2, <2>6, <3>2 DEF Changing
      <4>2. d \in RoiCalls \ {c} /\ Half(d)
        BY <2>1, <4>1 DEF Undisturbed, Changing
      <4>3. call'[d].op = call[d].op /\ call'[d].at = call[d].at /\ call'[d].roi = call[d].roi
        BY <1>2, <4>2
      <4>4. There' = There /\ (\A q : OnlyThere(q)' <=> OnlyThere(q))
        BY DEF There, OnlyThere
      <4>. QED  BY <4>2, <4>3, <4>4 DEF Half
    <3>. QED  BY <3>1, <3>2
  <2>7. ASSUME NEW d \in RoiCalls
        PROVE  Reader(d)'
    <3>1. CASE d # c
      <4>1. Reader(d)
        BY <2>1 DEF Undisturbed
      <4>2. call'[d].alone => call[d].alone /\ op = "read"
        BY <1>2, <3>1
      <4>3. op = "read" => Changing' = Changing
        BY <2>2
      <4>. QED  BY <1>2, <3>1, <4>1, <4>2, <4>3 DEF Reader
    <3>2. CASE d = c
      <4>1. SUFFICES ASSUME op = "read", Changing = {}
                     PROVE  /\ at = "open" => Changing' = {} /\ text[r] = saved
                            /\ at = "done" => "none" = saved
        BY <1>2, <3>2 DEF Reader
      <4>2. Changing' = {} /\ Kept
        BY <2>1, <2>2, <4>1 DEF Undisturbed
      <4>3. at = "open" => text[r] = saved
        BY <4>1, <4>2 DEF Kept, There
      <4>4. at = "done" => saved = "none"
        BY <4>1, <4>2 DEF Kept, There, OnlyThere, roiOf
      <4>. QED  BY <4>2, <4>3, <4>4
    <3>. QED  BY <3>1, <3>2
  <2>. QED  BY <2>4, <2>5, <2>6, <2>7 DEF Undisturbed
<1>. QED  BY <1>3, <1>4, <1>5

\* What every step of a change leaves as it was.
LEMMA ChangeKeeps ==
  ASSUME RoisInv, NEW c \in RoiCalls, call[c].at \in CallSteps \ {"new", "done", "failed", "open"},
         call' \in [RoiCalls -> CallType], \A d \in RoiCalls \ {c} : call'[d] = call[d],
         call'[c].op = call[c].op, call'[c].at # "open",
         call'[c].at \in AtNode => call'[c].roi \in Rois,
         roi' \in [Rois -> RoiType], text' \in [Rois -> RoiCalls \cup {"none", "torn"}],
         saved' \in RoiCalls \cup {"none"}, overlap' = overlap
  PROVE  /\ RoisTyped'
         /\ ~overlap => /\ Changing = {c} /\ Half(c)
                        /\ Changing' = IF call'[c].at \in {"new", "done", "failed"} THEN {} ELSE {c}
                        /\ \A d \in RoiCalls : Reader(d)'
<1>1. call[c].op # "read" /\ c \in Changing
  BY DEF RoisInv, RoisTyped, Changing, CallSteps
<1>2. RoisTyped'
  <2>1. ASSUME NEW d \in RoiCalls
        PROVE  /\ call'[d].at \in AtNode => call'[d].roi \in Rois
               /\ call'[d].op = "read" => call'[d].at \in {"open", "done", "failed"}
               /\ call'[d].at = "open" => call'[d].op = "read"
    <3>1. CASE d = c
      BY <1>1, <3>1
    <3>2. CASE d # c
      BY <3>2 DEF RoisInv, RoisTyped
    <3>. QED  BY <3>1, <3>2
  <2>. QED  BY <2>1 DEF RoisInv, RoisTyped
<1>3. ASSUME ~overlap
      PROVE  /\ Changing = {c} /\ Half(c)
             /\ Changing' = IF call'[c].at \in {"new", "done", "failed"} THEN {} ELSE {c}
             /\ \A d \in RoiCalls : Reader(d)'
  <2>1. Undisturbed /\ RoisTyped
    BY <1>3 DEF RoisInv
  <2>2. Changing = {c} /\ Half(c)
    BY <1>1, <2>1 DEF Undisturbed
  <2>. QED  BY <1>1, <2>1, <2>2, ChangeGoesOn
<1>. QED  BY <1>2, <1>3

\* What is left to show of such a step: the paths, and how far the change has come.
LEMMA ChangeStep ==
  ASSUME RoisInv, NEW c \in RoiCalls, call[c].at \in CallSteps \ {"new", "done", "failed", "open"},
         call' \in [RoiCalls -> CallType], \A d \in RoiCalls \ {c} : call'[d] = call[d],
         call'[c].op = call[c].op, call'[c].at # "open",
         call'[c].at \in AtNode => call'[c].roi \in Rois,
         roi' \in [Rois -> RoiType], text' \in [Rois -> RoiCalls \cup {"none", "torn"}],
         saved' \in RoiCalls \cup {"none"}, overlap' = overlap,
         \A r \in Rois : roi'[r].path => roi'[r].there /\ text'[r] # "none",
         \A d \in RoiCalls :
           /\ call'[d].at = "path" /\ roi'[call'[d].roi].there => text'[call'[d].roi] # "none"
           /\ call'[d].at = "file" => ~roi'[call'[d].roi].there,
         Changing = {c} /\ Half(c) =>
           IF call'[c].at \in {"new", "done", "failed"} THEN Kept' ELSE Half(c)'
  PROVE  RoisInv'
<1>1. RoisTyped'
  BY ChangeKeeps
<1>2. PathInv'
  BY DEF PathInv
<1>3. ASSUME ~overlap
      PROVE  Undisturbed'
  <2>1. /\ Changing = {c} /\ Half(c)
        /\ Changing' = IF call'[c].at \in {"new", "done", "failed"} THEN {} ELSE {c}
        /\ \A d \in RoiCalls : Reader(d)'
    BY <1>3, ChangeKeeps
  <2>2. CASE call'[c].at \in {"new", "done", "failed"}
    BY <2>1, <2>2 DEF Undisturbed
  <2>3. CASE call'[c].at \notin {"new", "done", "failed"}
    BY <2>1, <2>3 DEF Undisturbed
  <2>. QED  BY <2>2, <2>3
<1>. QED  BY <1>1, <1>2, <1>3 DEF RoisInv

LEMMA CreateKeeps ==
  ASSUME RoisInv, NEW c \in RoiCalls, createRoi(c)
  PROVE  RoisInv'
<1>1. PICK r \in Rois :
        /\ ~roi[r].there /\ text[r] = "none" /\ \A d \in RoiCalls : call[d].roi # r
        /\ roi' = [roi EXCEPT ![r].there = TRUE]
        /\ call' = [call EXCEPT ![c].at = "connect", ![c].roi = r]
  BY DEF createRoi
<1>2. call[c].at = "create" /\ UNCHANGED <<text, roiStops, saved, overlap>>
  BY DEF createRoi
<1>3. RoisTyped /\ PathInv /\ call[c] \in CallType /\ roi[r] \in RoiType
  BY DEF RoisInv, RoisTyped
<1>4. PICK w : w = [call[c] EXCEPT !.at = "connect", !.roi = r]
  OBVIOUS
<1>5. w \in CallType /\ w.at = "connect" /\ w.roi = r /\ w.op = call[c].op
  BY <1>3, <1>4 DEF CallType, CallSteps
<1>6. call' = [call EXCEPT ![c] = w]
  BY <1>1, <1>4
<1>7. call' \in [RoiCalls -> CallType] /\ call'[c] = w /\ \A d \in RoiCalls \ {c} : call'[d] = call[d]
  BY <1>3, <1>5, <1>6 DEF RoisTyped
<1>8. PICK row : row = [roi[r] EXCEPT !.there = TRUE]
  OBVIOUS
<1>9. row \in RoiType /\ row.there /\ row.linked = roi[r].linked /\ row.path = roi[r].path
  BY <1>3, <1>8 DEF RoiType
<1>10. roi' = [roi EXCEPT ![r] = row]
  BY <1>1, <1>8
<1>11. roi' \in [Rois -> RoiType] /\ roi'[r] = row /\ \A q \in Rois \ {r} : roi'[q] = roi[q]
  BY <1>3, <1>9, <1>10, RowWritten
<1>12. \A q \in Rois : roi'[q].path => roi'[q].there /\ text'[q] # "none"
  BY <1>1, <1>2, <1>3, <1>9, <1>11 DEF PathInv
<1>13. ASSUME NEW d \in RoiCalls
       PROVE  /\ call'[d].at = "path" /\ roi'[call'[d].roi].there => text'[call'[d].roi] # "none"
              /\ call'[d].at = "file" => ~roi'[call'[d].roi].there
  <2>1. CASE d = c
    BY <1>5, <1>7, <2>1
  <2>2. CASE d # c
    BY <1>1, <1>2, <1>3, <1>7, <1>11, <2>2 DEF PathInv, RoisTyped, AtNode
  <2>. QED  BY <2>1, <2>2
<1>14. ASSUME Half(c)
       PROVE  Half(c)'
  <2>1. There = {} /\ call[c].op = "create"
    BY <1>2, <1>14 DEF Half
  <2>2. There' = {r}
    BY <1>9, <1>11, <2>1 DEF There
  <2>. QED  BY <1>5, <1>7, <2>1, <2>2 DEF Half
<1>. HIDE DEF createRoi
<1>15. call'[c].at = "connect" /\ call'[c].op = call[c].op /\ call'[c].roi = r
  BY <1>5, <1>7
<1>16. /\ text' \in [Rois -> RoiCalls \cup {"none", "torn"}]
       /\ saved' \in RoiCalls \cup {"none"} /\ overlap' = overlap
  BY <1>2, <1>3 DEF RoisTyped
<1>. QED  BY <1>2, <1>7, <1>11, <1>12, <1>13, <1>14, <1>15, <1>16, ChangeStep DEF CallSteps

LEMMA ConnectKeeps ==
  ASSUME RoisInv, NEW c \in RoiCalls, connectImage(c)
  PROVE  RoisInv'
<1>1. PICK r : r = call[c].roi
  OBVIOUS
<1>2. /\ call[c].at = "connect" /\ UNCHANGED <<text, roiStops, saved, overlap>>
      /\ roi' = [roi EXCEPT ![r].linked = @ \/ roi[r].there]
      /\ Goes(c, "write")
  BY <1>1 DEF connectImage, SaveOrder
<1>3. RoisTyped /\ PathInv /\ r \in Rois /\ roi[r] \in RoiType
  BY <1>1, <1>2 DEF RoisInv, RoisTyped, AtNode
<1>4. /\ call' \in [RoiCalls -> CallType]
      /\ call'[c].op = call[c].op /\ call'[c].at = "write" /\ call'[c].roi = r
      /\ \A d \in RoiCalls \ {c} : call'[d] = call[d]
  BY <1>1, <1>2, <1>3, GoesWrites DEF CallSteps
<1>5. PICK b \in BOOLEAN : b = (roi[r].linked \/ roi[r].there)
  OBVIOUS
<1>6. PICK row : row = [roi[r] EXCEPT !.linked = b]
  OBVIOUS
<1>7. row \in RoiType /\ row.there = roi[r].there /\ row.linked = b /\ row.path = roi[r].path
  BY <1>3, <1>6 DEF RoiType
<1>8. roi' = [roi EXCEPT ![r] = row]
  BY <1>2, <1>5, <1>6
<1>9. roi' \in [Rois -> RoiType] /\ roi'[r] = row /\ \A q \in Rois \ {r} : roi'[q] = roi[q]
  BY <1>3, <1>7, <1>8, RowWritten
<1>10. \A q \in Rois : roi'[q].there = roi[q].there /\ roi'[q].path = roi[q].path
  BY <1>7, <1>9
<1>11. \A q \in Rois : roi'[q].path => roi'[q].there /\ text'[q] # "none"
  BY <1>2, <1>3, <1>10 DEF PathInv
<1>12. ASSUME NEW d \in RoiCalls
       PROVE  /\ call'[d].at = "path" /\ roi'[call'[d].roi].there => text'[call'[d].roi] # "none"
              /\ call'[d].at = "file" => ~roi'[call'[d].roi].there
  <2>1. CASE d = c
    BY <1>4, <2>1
  <2>2. CASE d # c
    BY <1>2, <1>3, <1>4, <1>10, <2>2 DEF PathInv, RoisTyped, AtNode
  <2>. QED  BY <2>1, <2>2
<1>13. ASSUME Half(c)
       PROVE  Half(c)'
  <2>1. There = {r} /\ call[c].op = "create"
    BY <1>1, <1>2, <1>13 DEF Half
  <2>2. There' = {r}
    BY <1>10, <2>1 DEF There
  <2>3. roi'[r].linked
    BY <1>5, <1>7, <1>9, <2>1 DEF There
  <2>. QED  BY <1>3, <1>4, <2>1, <2>2, <2>3 DEF Half, OnlyThere
<1>14. /\ text' \in [Rois -> RoiCalls \cup {"none", "torn"}]
       /\ saved' \in RoiCalls \cup {"none"} /\ overlap' = overlap
  BY <1>2, <1>3 DEF RoisTyped
<1>. QED  BY <1>2, <1>3, <1>4, <1>9, <1>11, <1>12, <1>13, <1>14, ChangeStep DEF CallSteps

\* The steps that write the file: the nodes stay.
LEMMA WriteKeeps ==
  ASSUME RoisInv, NEW c \in RoiCalls, writeBegins(c) \/ writeEnds(c)
  PROVE  RoisInv'
<1>1. PICK r : r = call[c].roi
  OBVIOUS
<1>2. PICK at \in {"writing", "path", "end"}, t \in {"torn", c} :
        /\ call[c].at \in {"write", "writing"} /\ UNCHANGED <<roi, roiStops, saved, overlap>>
        /\ text' = [text EXCEPT ![r] = t] /\ Goes(c, at)
        /\ at = "path" => call[c].op = "create" /\ t = c
        /\ at = "end" => call[c].op # "create" /\ t = c
  BY <1>1 DEF writeBegins, writeEnds, SaveOrder
<1>3. RoisTyped /\ PathInv /\ r \in Rois
  BY <1>1, <1>2 DEF RoisInv, RoisTyped, AtNode
<1>4. /\ call' \in [RoiCalls -> CallType]
      /\ call'[c].op = call[c].op /\ call'[c].at = at /\ call'[c].roi = r
      /\ \A d \in RoiCalls \ {c} : call'[d] = call[d]
  BY <1>1, <1>2, <1>3, GoesWrites DEF CallSteps
<1>5. t # "none"
  BY RoiConstants
<1>6. /\ text' \in [Rois -> RoiCalls \cup {"none", "torn"}]
      /\ text'[r] = t /\ \A q \in Rois \ {r} : text'[q] = text[q]
  BY <1>2, <1>3 DEF RoisTyped
<1>7. \A q \in Rois : roi'[q].path => roi'[q].there /\ text'[q] # "none"
  BY <1>2, <1>3, <1>5, <1>6 DEF PathInv
<1>8. ASSUME NEW d \in RoiCalls
      PROVE  /\ call'[d].at = "path" /\ roi'[call'[d].roi].there => text'[call'[d].roi] # "none"
             /\ call'[d].at = "file" => ~roi'[call'[d].roi].there
  <2>1. CASE d = c
    BY <1>2, <1>4, <1>5, <1>6, <2>1
  <2>2. CASE d # c
    BY <1>2, <1>3, <1>4, <1>5, <1>6, <2>2 DEF PathInv, RoisTyped, AtNode
  <2>. QED  BY <2>1, <2>2
<1>9. ASSUME Half(c)
      PROVE  Half(c)'
  <2>1. /\ call[c].op \in {"create", "save", "update"} /\ OnlyThere(r)
        /\ call[c].op # "create" => roi[r].path
    BY <1>1, <1>2, <1>9 DEF Half
  <2>2. OnlyThere(r)'
    BY <1>2, <2>1 DEF OnlyThere, There
  <2>. QED  BY <1>2, <1>4, <1>6, <2>1, <2>2 DEF Half
<1>10. /\ roi' \in [Rois -> RoiType]
       /\ saved' \in RoiCalls \cup {"none"} /\ overlap' = overlap
  BY <1>2, <1>3 DEF RoisTyped
<1>11. call[c].at \in CallSteps \ {"new", "done", "failed", "open"}
  BY <1>2 DEF CallSteps
<1>. HIDE DEF writeBegins, writeEnds
<1>. QED  BY <1>2, <1>3, <1>4, <1>6, <1>7, <1>8, <1>9, <1>10, <1>11, ChangeStep

LEMMA SetPathKeeps ==
  ASSUME RoisInv, NEW c \in RoiCalls, setPath(c)
  PROVE  RoisInv'
<1>1. PICK r : r = call[c].roi
  OBVIOUS
<1>2. /\ call[c].at = "path" /\ UNCHANGED <<text, roiStops, saved, overlap>>
      /\ roi' = [roi EXCEPT ![r].path = roi[r].there]
      /\ Goes(c, "end")
  BY <1>1 DEF setPath, SaveOrder
<1>3. RoisTyped /\ PathInv /\ r \in Rois /\ roi[r] \in RoiType
  BY <1>1, <1>2 DEF RoisInv, RoisTyped, AtNode
<1>4. /\ call' \in [RoiCalls -> CallType]
      /\ call'[c].op = call[c].op /\ call'[c].at = "end" /\ call'[c].roi = r
      /\ \A d \in RoiCalls \ {c} : call'[d] = call[d]
  BY <1>1, <1>2, <1>3, GoesWrites DEF CallSteps
<1>5. PICK row : row = [roi[r] EXCEPT !.path = roi[r].there]
  OBVIOUS
<1>6. /\ row \in RoiType /\ row.there = roi[r].there /\ row.path = roi[r].there
      /\ row.linked = roi[r].linked
  BY <1>3, <1>5 DEF RoiType
<1>7. roi' = [roi EXCEPT ![r] = row]
  BY <1>2, <1>5
<1>8. roi' \in [Rois -> RoiType] /\ roi'[r] = row /\ \A q \in Rois \ {r} : roi'[q] = roi[q]
  BY <1>3, <1>6, <1>7, RowWritten
<1>9. \A q \in Rois : roi'[q].path => roi'[q].there /\ text'[q] # "none"
  BY <1>1, <1>2, <1>3, <1>6, <1>8 DEF PathInv
<1>10. ASSUME NEW d \in RoiCalls
       PROVE  /\ call'[d].at = "path" /\ roi'[call'[d].roi].there => text'[call'[d].roi] # "none"
              /\ call'[d].at = "file" => ~roi'[call'[d].roi].there
  <2>1. CASE d = c
    BY <1>4, <2>1
  <2>2. CASE d # c
    BY <1>2, <1>3, <1>4, <1>6, <1>8, <2>2 DEF PathInv, RoisTyped, AtNode
  <2>. QED  BY <2>1, <2>2
<1>11. ASSUME Half(c)
       PROVE  Half(c)'
  <2>1. OnlyThere(r) /\ call[c].op = "create" /\ text[r] = c
    BY <1>1, <1>2, <1>11 DEF Half
  <2>2. OnlyThere(r)' /\ roi'[r].path
    BY <1>6, <1>8, <2>1 DEF There, OnlyThere
  <2>. QED  BY <1>2, <1>4, <2>1, <2>2 DEF Half
<1>12. /\ text' \in [Rois -> RoiCalls \cup {"none", "torn"}]
       /\ saved' \in RoiCalls \cup {"none"} /\ overlap' = overlap
  BY <1>2, <1>3 DEF RoisTyped
<1>. QED  BY <1>2, <1>3, <1>4, <1>8, <1>9, <1>10, <1>11, <1>12, ChangeStep DEF CallSteps

LEMMA DeleteNodeKeeps ==
  ASSUME RoisInv, NEW c \in RoiCalls, deleteNode(c)
  PROVE  RoisInv'
<1>1. PICK r : r = call[c].roi
  OBVIOUS
<1>2. PICK at \in {"file", "end"} :
        /\ call[c].at \in {"node", "nodeAndFile"} /\ UNCHANGED <<text, roiStops, saved, overlap>>
        /\ roi' = [roi EXCEPT ![r] = Nowhere] /\ Goes(c, at)
        /\ call[c].at = "nodeAndFile" => at = "file"
  BY <1>1 DEF deleteNode
<1>3. RoisTyped /\ PathInv /\ r \in Rois
  BY <1>1, <1>2 DEF RoisInv, RoisTyped, AtNode
<1>4. /\ call' \in [RoiCalls -> CallType]
      /\ call'[c].op = call[c].op /\ call'[c].at = at /\ call'[c].roi = r
      /\ \A d \in RoiCalls \ {c} : call'[d] = call[d]
  BY <1>1, <1>2, <1>3, GoesWrites DEF CallSteps
<1>5. Nowhere \in RoiType /\ ~Nowhere.there /\ ~Nowhere.path
  BY DEF Nowhere, RoiType
<1>6. roi' \in [Rois -> RoiType] /\ roi'[r] = Nowhere /\ \A q \in Rois \ {r} : roi'[q] = roi[q]
  BY <1>2, <1>3, <1>5, RowWritten
<1>7. \A q \in Rois : roi'[q].path => roi'[q].there /\ text'[q] # "none"
  BY <1>2, <1>3, <1>5, <1>6 DEF PathInv
<1>8. ASSUME NEW d \in RoiCalls
      PROVE  /\ call'[d].at = "path" /\ roi'[call'[d].roi].there => text'[call'[d].roi] # "none"
             /\ call'[d].at = "file" => ~roi'[call'[d].roi].there
  <2>1. CASE d = c
    BY <1>2, <1>4, <1>5, <1>6, <2>1
  <2>2. CASE d # c
    BY <1>2, <1>3, <1>4, <1>5, <1>6, <2>2 DEF PathInv, RoisTyped, AtNode
  <2>. QED  BY <2>1, <2>2
<1>9. ASSUME Half(c), Changing = {c}
      PROVE  Half(c)'
  <2>1. call[c].at = "nodeAndFile" /\ call[c].op = "remove" /\ at = "file" /\ There = {r}
    BY <1>1, <1>2, <1>9 DEF Half
  <2>2. There' = {}
    BY <1>5, <1>6, <2>1 DEF There
  <2>. QED  BY <1>4, <2>1, <2>2 DEF Half
<1>10. /\ text' \in [Rois -> RoiCalls \cup {"none", "torn"}]
       /\ saved' \in RoiCalls \cup {"none"} /\ overlap' = overlap
  BY <1>2, <1>3 DEF RoisTyped
<1>11. call[c].at \in CallSteps \ {"new", "done", "failed", "open"}
  BY <1>2 DEF CallSteps
<1>. HIDE DEF deleteNode
<1>. QED  BY <1>2, <1>3, <1>4, <1>6, <1>7, <1>8, <1>9, <1>10, <1>11, ChangeStep

LEMMA DeleteFileKeeps ==
  ASSUME RoisInv, NEW c \in RoiCalls, deleteFile(c)
  PROVE  RoisInv'
<1>1. PICK r : r = call[c].roi
  OBVIOUS
<1>2. /\ call[c].at = "file" /\ UNCHANGED <<roi, roiStops, saved, overlap>>
      /\ text' = [text EXCEPT ![r] = "none"] /\ Goes(c, "end")
  BY <1>1 DEF deleteFile
<1>3. RoisTyped /\ PathInv /\ r \in Rois
  BY <1>1, <1>2 DEF RoisInv, RoisTyped, AtNode
<1>4. /\ call' \in [RoiCalls -> CallType]
      /\ call'[c].op = call[c].op /\ call'[c].at = "end" /\ call'[c].roi = r
      /\ \A d \in RoiCalls \ {c} : call'[d] = call[d]
  BY <1>1, <1>2, <1>3, GoesWrites DEF CallSteps
<1>5. /\ text' \in [Rois -> RoiCalls \cup {"none", "torn"}]
      /\ text'[r] = "none" /\ \A q \in Rois \ {r} : text'[q] = text[q]
  BY <1>2, <1>3 DEF RoisTyped
<1>6. ~roi[r].there
  BY <1>1, <1>2, <1>3 DEF PathInv
<1>7. \A q \in Rois : roi'[q].path => roi'[q].there /\ text'[q] # "none"
  BY <1>2, <1>3, <1>5, <1>6 DEF PathInv
<1>8. ASSUME NEW d \in RoiCalls
      PROVE  /\ call'[d].at = "path" /\ roi'[call'[d].roi].there => text'[call'[d].roi] # "none"
             /\ call'[d].at = "file" => ~roi'[call'[d].roi].there
  <2>1. CASE d = c
    BY <1>4, <2>1
  <2>2. CASE d # c
    BY <1>2, <1>3, <1>4, <1>5, <1>6, <2>2 DEF PathInv, RoisTyped, AtNode
  <2>. QED  BY <2>1, <2>2
<1>9. ASSUME Half(c)
      PROVE  Half(c)'
  <2>1. call[c].op = "remove" /\ There = {}
    BY <1>2, <1>9 DEF Half
  <2>2. There' = {}
    BY <1>2, <2>1 DEF There
  <2>. QED  BY <1>4, <2>1, <2>2 DEF Half
<1>10. /\ roi' \in [Rois -> RoiType]
       /\ saved' \in RoiCalls \cup {"none"} /\ overlap' = overlap
  BY <1>2, <1>3 DEF RoisTyped
<1>. HIDE DEF deleteFile
<1>. QED  BY <1>2, <1>3, <1>4, <1>5, <1>7, <1>8, <1>9, <1>10, ChangeStep DEF CallSteps

\* The request is answered: what it did is what is kept.
LEMMA EndsKeeps ==
  ASSUME RoisInv, NEW c \in RoiCalls, ends(c)
  PROVE  RoisInv'
<1>2. /\ call[c].at = "end" /\ UNCHANGED <<roi, text, roiStops, overlap>>
      /\ saved' = IF call[c].op = "remove" THEN "none" ELSE c
      /\ Goes(c, "done")
  BY DEF ends
<1>3. RoisTyped /\ PathInv
  BY DEF RoisInv
<1>4. /\ call' \in [RoiCalls -> CallType]
      /\ call'[c].op = call[c].op /\ call'[c].at = "done" /\ call'[c].roi = call[c].roi
      /\ \A d \in RoiCalls \ {c} : call'[d] = call[d]
  BY <1>2, <1>3, GoesWrites DEF CallSteps
<1>5. \A q \in Rois : roi'[q].path => roi'[q].there /\ text'[q] # "none"
  BY <1>2, <1>3 DEF PathInv
<1>6. ASSUME NEW d \in RoiCalls
      PROVE  /\ call'[d].at = "path" /\ roi'[call'[d].roi].there => text'[call'[d].roi] # "none"
             /\ call'[d].at = "file" => ~roi'[call'[d].roi].there
  <2>1. CASE d = c
    BY <1>4, <2>1
  <2>2. CASE d # c
    BY <1>2, <1>3, <1>4, <2>2 DEF PathInv
  <2>. QED  BY <2>1, <2>2
<1>7. ASSUME Half(c)
      PROVE  Kept'
  <2>1. CASE call[c].op = "remove"
    BY <1>2, <1>7, <2>1 DEF Half, Kept, There
  <2>2. CASE call[c].op # "remove"
    <3>1. OnlyThere(call[c].roi) /\ roi[call[c].roi].path /\ text[call[c].roi] = c
      BY <1>2, <1>7, <2>2 DEF Half
    <3>. QED  BY <1>2, <2>2, <3>1 DEF Kept, There, OnlyThere
  <2>. QED  BY <2>1, <2>2
<1>8. /\ roi' \in [Rois -> RoiType] /\ text' \in [Rois -> RoiCalls \cup {"none", "torn"}]
      /\ saved' \in RoiCalls \cup {"none"} /\ overlap' = overlap
  BY <1>2, <1>3 DEF RoisTyped
<1>. HIDE DEF ends
<1>. QED  BY <1>2, <1>4, <1>5, <1>6, <1>7, <1>8, ChangeStep DEF CallSteps, AtNode

\* A read that met no change finds what was saved.
LEMMA ReadFileKeeps ==
  ASSUME RoisInv, NEW c \in RoiCalls, readFile(c)
  PROVE  RoisInv'
<1>1. PICK r : r = call[c].roi
  OBVIOUS
<1>2. /\ call[c].at = "open" /\ UNCHANGED <<roi, text, roiStops, saved, overlap>>
      /\ call' = [call EXCEPT ![c].at = "done", ![c].got = text[r]]
  BY <1>1 DEF readFile
<1>3. RoisTyped /\ PathInv /\ r \in Rois /\ call[c].op = "read" /\ call[c] \in CallType
  BY <1>1, <1>2 DEF RoisInv, RoisTyped, AtNode
<1>4. PICK w : w = [call[c] EXCEPT !.at = "done", !.got = text[r]]
  OBVIOUS
<1>5. /\ w \in CallType /\ w.at = "done" /\ w.op = "read" /\ w.got = text[r]
      /\ w.alone = call[c].alone /\ w.want = call[c].want
  <2>1. text[r] \in RoiCalls \cup {"none", "torn"}
    BY <1>3 DEF RoisTyped
  <2>. QED  BY <1>3, <1>4, <2>1 DEF CallType, CallSteps
<1>6. call' = [call EXCEPT ![c] = w]
  BY <1>2, <1>4
<1>7. call' \in [RoiCalls -> CallType] /\ call'[c] = w /\ \A d \in RoiCalls \ {c} : call'[d] = call[d]
  BY <1>3, <1>5, <1>6 DEF RoisTyped
<1>. HIDE DEF readFile
<1>8. RoisTyped'
  <2>1. ASSUME NEW d \in RoiCalls
        PROVE  /\ call'[d].at \in AtNode => call'[d].roi \in Rois
               /\ call'[d].op = "read" => call'[d].at \in {"open", "done", "failed"}
               /\ call'[d].at = "open" => call'[d].op = "read"
    <3>1. CASE d = c
      BY <1>5, <1>7, <3>1 DEF AtNode
    <3>2. CASE d # c
      BY <1>3, <1>7, <3>2 DEF RoisTyped
    <3>. QED  BY <3>1, <3>2
  <2>. QED  BY <1>2, <1>3, <1>7, <2>1 DEF RoisTyped
<1>9. PathInv'
  <2>1. ASSUME NEW d \in RoiCalls
        PROVE  /\ call'[d].at = "path" /\ roi'[call'[d].roi].there => text'[call'[d].roi] # "none"
               /\ call'[d].at = "file" => ~roi'[call'[d].roi].there
    <3>1. CASE d = c
      BY <1>5, <1>7, <3>1
    <3>2. CASE d # c
      BY <1>2, <1>3, <1>7, <3>2 DEF PathInv
    <3>. QED  BY <3>1, <3>2
  <2>. QED  BY <1>2, <1>3, <2>1 DEF PathInv
<1>10. ASSUME ~overlap
       PROVE  Undisturbed'
  <2>1. Undisturbed
    BY <1>10 DEF RoisInv
  <2>2. Changing' = Changing
    <3>1. c \notin Changing /\ c \notin Changing'
      BY <1>3, <1>5, <1>7 DEF Changing
    <3>2. \A d \in RoiCalls \ {c} : d \in Changing' <=> d \in Changing
      BY <1>7 DEF Changing
    <3>3. Changing \subseteq RoiCalls /\ Changing' \subseteq RoiCalls
      BY DEF Changing
    <3>. QED  BY <3>1, <3>2, <3>3
  <2>3. Kept' <=> Kept
    BY <1>2 DEF Kept, There, OnlyThere
  <2>4. ASSUME NEW d \in Changing'
        PROVE  Half(d)'
    <3>1. d \in Changing /\ d \in RoiCalls /\ d # c
      BY <1>3, <2>2, <2>4 DEF Changing
    <3>2. call'[d] = call[d] /\ Half(d)
      BY <1>7, <2>1, <3>1 DEF Undisturbed
    <3>3. There' = There /\ (\A q : OnlyThere(q)' <=> OnlyThere(q))
      BY <1>2 DEF There, OnlyThere
    <3>. QED  BY <1>2, <3>2, <3>3 DEF Half
  <2>5. ASSUME NEW d \in RoiCalls
        PROVE  Reader(d)'
    <3>1. CASE d = c
      <4>1. Reader(c)
        BY <2>1 DEF Undisturbed
      <4>. QED  BY <1>1, <1>2, <1>3, <1>5, <1>7, <3>1, <4>1 DEF Reader
    <3>2. CASE d # c
      BY <1>2, <1>7, <2>1, <2>2, <3>2 DEF Undisturbed, Reader
    <3>. QED  BY <3>1, <3>2
  <2>. QED  BY <2>1, <2>2, <2>3, <2>4, <2>5 DEF Undisturbed
<1>. QED  BY <1>2, <1>8, <1>9, <1>10 DEF RoisInv

\* A stop cuts the changes short: none is left, and what met one no longer counts.
LEMMA StopKeeps ==
  ASSUME RoisInv, Stops
  PROVE  RoisInv'
<1>1. /\ UNCHANGED <<roi, text, saved>> /\ overlap' = (overlap \/ Changing # {})
      /\ call' = [c \in RoiCalls |-> IF call[c].at \in {"done", "failed"} THEN call[c] ELSE NewCall]
  BY DEF Stops
<1>2. RoisTyped /\ PathInv
  BY DEF RoisInv
<1>3. /\ NewCall \in CallType /\ NewCall.at = "new" /\ NewCall.op = "none"
  BY DEF NewCall, CallType, CallSteps
<1>4. \A c \in RoiCalls :
        IF call[c].at \in {"done", "failed"} THEN call'[c] = call[c] ELSE call'[c] = NewCall
  BY <1>1
<1>5. RoisTyped'
  <2>1. call' \in [RoiCalls -> CallType]
    BY <1>1, <1>2, <1>3 DEF RoisTyped
  <2>2. ASSUME NEW d \in RoiCalls
        PROVE  /\ call'[d].at \in AtNode => call'[d].roi \in Rois
               /\ call'[d].op = "read" => call'[d].at \in {"open", "done", "failed"}
               /\ call'[d].at = "open" => call'[d].op = "read"
    BY <1>2, <1>3, <1>4 DEF AtNode
  <2>3. overlap' \in BOOLEAN
    BY <1>1, Zenon
  <2>. QED  BY <1>1, <1>2, <2>1, <2>2, <2>3 DEF RoisTyped
<1>6. PathInv'
  <2>1. \A d \in RoiCalls : call'[d].at \notin {"path", "file"}
    BY <1>3, <1>4
  <2>. QED  BY <1>1, <1>2, <2>1 DEF PathInv
<1>7. ASSUME ~overlap'
      PROVE  Undisturbed'
  <2>1. ~overlap /\ Changing = {}
    BY <1>1, <1>7
  <2>2. Undisturbed
    BY <2>1 DEF RoisInv
  <2>3. Changing' = {}
    BY <1>3, <1>4 DEF Changing
  <2>4. Kept'
    BY <1>1, <2>1, <2>2 DEF Undisturbed, Kept, There, OnlyThere
  <2>5. ASSUME NEW d \in RoiCalls
        PROVE  Reader(d)'
    BY <1>3, <1>4, <2>2 DEF Undisturbed, Reader
  <2>. QED  BY <2>3, <2>4, <2>5 DEF Undisturbed
<1>. QED  BY <1>5, <1>6, <1>7 DEF RoisInv

LEMMA RoisBegin ==
  ASSUME RoisInit
  PROVE  RoisInv
<1>1. /\ NewCall \in CallType /\ NewCall.at = "new" /\ NewCall.op = "none"
      /\ Nowhere \in RoiType /\ ~Nowhere.there /\ ~Nowhere.path
  BY DEF NewCall, CallType, CallSteps, Nowhere, RoiType
<1>2. /\ \A c \in RoiCalls : call[c] = NewCall
      /\ \A r \in Rois : roi[r] = Nowhere
      /\ saved = "none" /\ overlap = FALSE
  BY DEF RoisInit
<1>3. RoisTyped
  <2>1. /\ roi \in [Rois -> RoiType] /\ text \in [Rois -> RoiCalls \cup {"none", "torn"}]
        /\ call \in [RoiCalls -> CallType]
    BY <1>1 DEF RoisInit
  <2>. QED  BY <1>1, <1>2, <2>1 DEF RoisTyped, AtNode
<1>4. PathInv
  BY <1>1, <1>2 DEF PathInv
<1>5. Undisturbed
  <2>1. Changing = {} /\ There = {}
    BY <1>1, <1>2 DEF Changing, There
  <2>2. \A c \in RoiCalls : Reader(c)
    BY <1>1, <1>2 DEF Reader
  <2>. QED  BY <1>2, <2>1, <2>2 DEF Undisturbed, Kept
<1>. QED  BY <1>3, <1>4, <1>5 DEF RoisInv

\* Every step keeps the invariant.
LEMMA RoisStep ==
  ASSUME RoisInv, [RoisNext]_roiVars
  PROVE  RoisInv'
<1>1. CASE UNCHANGED roiVars
  <2>1. UNCHANGED <<roi, text, call, saved, overlap>>
    BY <1>1 DEF roiVars
  <2>2. RoisTyped' /\ PathInv'
    BY <2>1 DEF RoisInv, RoisTyped, PathInv
  <2>3. There' = There /\ Changing' = Changing /\ (\A q : OnlyThere(q)' <=> OnlyThere(q))
    BY <2>1 DEF There, OnlyThere, Changing
  <2>4. (Kept' <=> Kept) /\ \A c : (Half(c)' <=> Half(c)) /\ (Reader(c)' <=> Reader(c))
    BY <2>1, <2>3 DEF Kept, Half, Reader
  <2>. QED  BY <2>1, <2>2, <2>3, <2>4 DEF RoisInv, Undisturbed
<1>2. ASSUME NEW c \in RoiCalls, save(c) PROVE RoisInv'
  <2>1. call[c].at = "new" /\ UNCHANGED <<roi, text, roiStops, saved>>
    BY <1>2 DEF save
  <2>2. ASSUME NEW r \in roiOf, Begins(c, "save", IF roi[r].path THEN "write" ELSE "failed", r)
        PROVE  RoisInv'
    BY <2>1, <2>2, BeginsKeeps DEF roiOf
  <2>3. ASSUME roiOf = {}, Begins(c, "create", "create", 0)
        PROVE  RoisInv'
    BY <2>1, <2>3, BeginsKeeps
  <2>. QED  BY <1>2, <2>2, <2>3 DEF save
<1>3. ASSUME NEW c \in RoiCalls, updateRoi(c) PROVE RoisInv'
  <2>1. PICK r \in Rois :
          roi[r].there /\ Begins(c, "update", IF roi[r].path THEN "write" ELSE "failed", r)
    BY <1>3 DEF updateRoi
  <2>2. call[c].at = "new" /\ UNCHANGED <<roi, text, roiStops, saved>>
    BY <1>3 DEF updateRoi
  <2>. QED  BY <2>1, <2>2, BeginsKeeps
<1>4. ASSUME NEW c \in RoiCalls, removeRoi(c) PROVE RoisInv'
  <2>1. PICK r \in Rois :
          roi[r].there /\ Begins(c, "remove", IF roi[r].path THEN "nodeAndFile" ELSE "node", r)
    BY <1>4 DEF removeRoi, roiOf
  <2>2. call[c].at = "new" /\ UNCHANGED <<roi, text, roiStops, saved>>
    BY <1>4 DEF removeRoi
  <2>. QED  BY <2>1, <2>2, BeginsKeeps
<1>5. ASSUME NEW c \in RoiCalls, read(c) PROVE RoisInv'
  <2>1. call[c].at = "new" /\ UNCHANGED <<roi, text, roiStops, saved>>
    BY <1>5 DEF read
  <2>2. ASSUME NEW r \in roiOf, Begins(c, "read", IF roi[r].path THEN "open" ELSE "failed", r)
        PROVE  RoisInv'
    BY <2>1, <2>2, BeginsKeeps DEF roiOf
  <2>3. ASSUME roiOf = {}, Begins(c, "read", "done", 0)
        PROVE  RoisInv'
    BY <2>1, <2>3, BeginsKeeps
  <2>. QED  BY <1>5, <2>2, <2>3 DEF read
<1>. QED
  BY <1>1, <1>2, <1>3, <1>4, <1>5, CreateKeeps, ConnectKeeps, WriteKeeps, SetPathKeeps,
     DeleteNodeKeeps, DeleteFileKeeps, EndsKeeps, ReadFileKeeps, StopKeeps DEF RoisNext

\* A node that tells where its file is has one, whatever overlaps and wherever a
\* stop falls, and regions no change met are what a reader gets (rois.ts:42-83).
THEOREM RegionsOutliveRequests == RoisSpec => []RegionsAreKept
<1>1. RoisInit => RoisInv
  BY RoisBegin
<1>2. RoisInv /\ [RoisNext]_roiVars => RoisInv'
  BY RoisStep
<1>3. RoisInv => RegionsAreKept
  BY DEF RoisInv, PathInv, Undisturbed, Reader, RegionsAreKept, PathMeansFile, SavedIsRead
<1>. QED  BY <1>1, <1>2, <1>3, PTL DEF RoisSpec

-----------------------------------------------------------------------------
(* The registry.                                                           *)

Service == [kind: ServiceKinds, hcl: BOOLEAN, url: BOOLEAN, consumers: SUBSET Adapters]
Registered(svcs) == DOMAIN svcs \subseteq ServiceIds /\ svcs \in [DOMAIN svcs -> Service]

RegistryTyped ==
  /\ Registered(services)
  /\ DOMAIN adapterSeen \subseteq DOMAIN services
  /\ \A i \in DOMAIN adapterSeen : DOMAIN adapterSeen[i] \subseteq Adapters
  /\ callsIn \in [ServiceIds -> SUBSET Adapters]
  /\ file \in Contents \cup {Absent, Torn}
  /\ write \in [Writers -> {NoWrite} \cup [at: {"mkdir", "open"}, snap: Contents]]
  /\ reload # Absent => running /\ reload.content \in Contents
  /\ ~running => services = <<>> /\ adapterSeen = <<>> /\ Busy = {}
  /\ installed \subseteq ServiceIds

\* Only a call brings a consumer.
ConsumersCalled ==
  \A i \in DOMAIN services :
    IF i \in DOMAIN adapterSeen THEN Fresh(adapterSeen[i]) \subseteq callsIn[i]
    ELSE services[i].consumers = {}

Agrees == file = Saved(services) \/ (file = Absent /\ services = <<>>)
Content == IF file = Absent THEN <<>> ELSE file
Whole(c) == \A i \in DOMAIN c : c[i].hcl => c[i].kind # "none"

\* Memory, the writes under way and the file have one content.
OneContent ==
  /\ \A v, w \in Busy : v = w
  /\ running =>
       /\ \A w \in Busy : write[w].snap = Saved(services)
       /\ Busy = {} => Agrees
       /\ reload # Absent => Busy = {} /\ reload.content = Content
       /\ \A i \in installed : i \in DOMAIN services /\ services[i].hcl /\ services[i].kind # "none"
  /\ ~running => /\ file # Torn /\ Whole(Content)
                 /\ \A i \in installed : i \in DOMAIN Content /\ Content[i].hcl

RegistryInv == RegistryTyped /\ ConsumersCalled /\ (~crossed => OneContent)

-----------------------------------------------------------------------------

LEMMA ContentsAre ==
  ASSUME NEW f
  PROVE  f \in Contents <=> DOMAIN f \subseteq ServiceIds /\ f \in [DOMAIN f -> [kind: ServiceKinds, hcl: BOOLEAN]]
<1>. DEFINE E == [kind: ServiceKinds, hcl: BOOLEAN]
<1>. HIDE DEF E
<1>1. ASSUME f \in UNION {[S -> E] : S \in SUBSET ServiceIds}
      PROVE  DOMAIN f \subseteq ServiceIds /\ f \in [DOMAIN f -> E]
  BY <1>1
<1>2. ASSUME DOMAIN f \subseteq ServiceIds, f \in [DOMAIN f -> E]
      PROVE  f \in UNION {[S -> E] : S \in SUBSET ServiceIds}
  BY <1>2
<1>. QED  BY <1>1, <1>2 DEF Contents, E

LEMMA EmptyIsWhole == <<>> \in Contents /\ DOMAIN <<>> = {}
<1>1. <<>> \in [{} -> [kind: ServiceKinds, hcl: BOOLEAN]]
  OBVIOUS
<1>. QED  BY <1>1 DEF Contents

\* What is saved of services is a content of the file.
LEMMA SavedIs ==
  ASSUME NEW svcs, Registered(svcs)
  PROVE  /\ Saved(svcs) \in Contents /\ DOMAIN Saved(svcs) = DOMAIN svcs
         /\ \A i \in DOMAIN svcs : /\ Saved(svcs)[i].kind = svcs[i].kind
                                   /\ Saved(svcs)[i].hcl = (svcs[i].hcl /\ svcs[i].kind # "none")
<1>1. \A i \in DOMAIN svcs : Entry(svcs[i]) \in [kind: ServiceKinds, hcl: BOOLEAN]
  BY DEF Registered, Service, Entry
<1>2. DOMAIN Saved(svcs) = DOMAIN svcs /\ \A i \in DOMAIN svcs : Saved(svcs)[i] = Entry(svcs[i])
  BY DEF Saved
<1>3. Saved(svcs) \in [DOMAIN svcs -> [kind: ServiceKinds, hcl: BOOLEAN]]
  BY <1>1 DEF Saved
<1>. QED  BY <1>2, <1>3, ContentsAre DEF Registered, Entry

\* The same is saved of services that differ in their consumers only.
LEMMA SavedSame ==
  ASSUME NEW f, NEW g, DOMAIN f = DOMAIN g,
         \A i \in DOMAIN f : f[i].kind = g[i].kind /\ f[i].hcl = g[i].hcl
  PROVE  Saved(f) = Saved(g)
<1>1. \A i \in DOMAIN f : Entry(f[i]) = Entry(g[i])
  BY DEF Entry
<1>. QED  BY <1>1 DEF Saved

\* What load makes of a content.
LEMMA LoadedIs ==
  ASSUME RegistryTyped, NEW c \in Contents
  PROVE  /\ Registered(Loaded(c)) /\ DOMAIN Loaded(c) = DOMAIN c
         /\ \A i \in DOMAIN c :
              /\ Loaded(c)[i].consumers = {}
              /\ Loaded(c)[i].kind = (IF c[i].kind = "none" /\ i \in DOMAIN services
                                      THEN services[i].kind ELSE c[i].kind)
              /\ Loaded(c)[i].hcl = (c[i].hcl \/ (i \in DOMAIN services /\ services[i].hcl))
<1>1. DOMAIN c \subseteq ServiceIds /\ c \in [DOMAIN c -> [kind: ServiceKinds, hcl: BOOLEAN]]
  BY ContentsAre
<1>2. \A i \in DOMAIN services : services[i] \in Service
  BY DEF RegistryTyped, Registered
<1>. DEFINE L(i) == [kind |-> IF c[i].kind = "none" /\ i \in DOMAIN services THEN services[i].kind ELSE c[i].kind,
                     consumers |-> {},
                     hcl |-> c[i].hcl \/ (i \in DOMAIN services /\ services[i].hcl),
                     url |-> i \in DOMAIN services /\ services[i].url]
<1>3. ASSUME NEW i \in DOMAIN c
      PROVE  L(i) \in Service
  <2>1. c[i].kind \in ServiceKinds
    BY <1>1
  <2>2. i \in DOMAIN services => services[i].kind \in ServiceKinds /\ services[i].url \in BOOLEAN
    BY <1>2 DEF Service
  <2>. QED  BY <2>1, <2>2 DEF Service
<1>4. Loaded(c) = [i \in DOMAIN c |-> L(i)]
  BY DEF Loaded
<1>5. /\ \A i \in DOMAIN c : L(i).consumers = {}
      /\ \A i \in DOMAIN c : L(i).kind = (IF c[i].kind = "none" /\ i \in DOMAIN services
                                          THEN services[i].kind ELSE c[i].kind)
      /\ \A i \in DOMAIN c : L(i).hcl = (c[i].hcl \/ (i \in DOMAIN services /\ services[i].hcl))
  OBVIOUS
<1>. HIDE DEF L
<1>. QED  BY <1>1, <1>3, <1>4, <1>5 DEF Registered

-----------------------------------------------------------------------------
(* The file.                                                               *)

\* A write of what is registered then: met by no other, it is the only one.
LEMMA PersistKeeps ==
  ASSUME RegistryInv, running, persist(services'), UNCHANGED <<file, reload, running>>,
         RegistryTyped', ConsumersCalled',
         ~crossed => \A i \in installed' : i \in DOMAIN services' /\ services'[i].hcl /\ services'[i].kind # "none"
  PROVE  RegistryInv'
<1>1. PICK w \in Writers \ Busy : write' = [write EXCEPT ![w] = [at |-> "mkdir", snap |-> Saved(services')]]
  BY DEF persist
<1>2. crossed' = (crossed \/ Busy # {} \/ reload # Absent)
  BY DEF persist
<1>3. /\ write'[w].at = "mkdir" /\ write'[w].snap = Saved(services')
      /\ \A v \in Writers \ {w} : write'[v] = write[v]
  BY <1>1 DEF RegistryInv, RegistryTyped
<1>4. ASSUME ~crossed' PROVE OneContent'
  <2>1. ~crossed /\ Busy = {} /\ reload = Absent
    BY <1>2, <1>4
  <2>2. Busy' = {w}
    BY <1>3, <2>1 DEF Busy, NoWrite
  <2>. QED  BY <1>3, <2>1, <2>2 DEF OneContent
<1>. QED  BY <1>4 DEF RegistryInv

LEMMA PersistTyped ==
  ASSUME RegistryInv, persist(services'), Registered(services')
  PROVE  write' \in [Writers -> {NoWrite} \cup [at: {"mkdir", "open"}, snap: Contents]]
<1>1. PICK w \in Writers \ Busy : write' = [write EXCEPT ![w] = [at |-> "mkdir", snap |-> Saved(services')]]
  BY DEF persist
<1>2. [at |-> "mkdir", snap |-> Saved(services')] \in [at: {"mkdir", "open"}, snap: Contents]
  BY SavedIs
<1>. QED  BY <1>1, <1>2 DEF RegistryInv, RegistryTyped

LEMMA WriteOpenKeeps ==
  ASSUME RegistryInv, NEW w \in Writers, writeOpen(w)
  PROVE  RegistryInv'
<1>1. /\ write[w].at = "mkdir" /\ write' = [write EXCEPT ![w].at = "open"] /\ file' = Torn
      /\ UNCHANGED <<services, adapterSeen, reload, running, callsIn, installed, crossed>>
  BY DEF writeOpen, history
<1>2. write[w] \in [at: {"mkdir", "open"}, snap: Contents]
  BY <1>1 DEF RegistryInv, RegistryTyped, NoWrite
<1>3. PICK o : o = [write[w] EXCEPT !.at = "open"]
  OBVIOUS
<1>4. o \in [at: {"mkdir", "open"}, snap: Contents] /\ o.at = "open" /\ o.snap = write[w].snap
  BY <1>2, <1>3
<1>5. write' = [write EXCEPT ![w] = o]
  BY <1>1, <1>3
<1>6. /\ write' \in [Writers -> {NoWrite} \cup [at: {"mkdir", "open"}, snap: Contents]]
      /\ write'[w] = o /\ \A v \in Writers \ {w} : write'[v] = write[v]
  BY <1>4, <1>5 DEF RegistryInv, RegistryTyped
<1>7. Busy' = Busy /\ w \in Busy
  BY <1>1, <1>4, <1>6 DEF Busy, NoWrite
<1>8. RegistryTyped'
  BY <1>1, <1>6, <1>7 DEF RegistryInv, RegistryTyped
<1>9. ConsumersCalled'
  BY <1>1 DEF RegistryInv, ConsumersCalled
<1>10. running
  BY <1>7 DEF RegistryInv, RegistryTyped
<1>11. \A v \in Writers : write'[v].snap = write[v].snap
  BY <1>4, <1>6
<1>12. ASSUME ~crossed PROVE OneContent'
  <2>1. Busy # {} /\ Busy \subseteq Writers
    BY <1>7 DEF Busy
  <2>. QED  BY <1>1, <1>7, <1>10, <1>11, <1>12, <2>1 DEF RegistryInv, OneContent
<1>. QED  BY <1>1, <1>8, <1>9, <1>12 DEF RegistryInv

LEMMA WriteDoneKeeps ==
  ASSUME RegistryInv, NEW w \in Writers, writeDone(w)
  PROVE  RegistryInv'
<1>1. /\ write[w].at = "open" /\ write' = [write EXCEPT ![w] = NoWrite]
      /\ file' \in {write[w].snap} \cup (IF Cardinality(Busy) > 1 THEN {Torn} ELSE {})
      /\ UNCHANGED <<services, adapterSeen, reload, running, callsIn, installed, crossed>>
  BY DEF writeDone, history
<1>2. write[w] \in [at: {"mkdir", "open"}, snap: Contents]
  BY <1>1 DEF RegistryInv, RegistryTyped, NoWrite
<1>3. /\ write' \in [Writers -> {NoWrite} \cup [at: {"mkdir", "open"}, snap: Contents]]
      /\ write'[w] = NoWrite /\ \A v \in Writers \ {w} : write'[v] = write[v]
  BY <1>1 DEF RegistryInv, RegistryTyped
<1>4. Busy' = Busy \ {w} /\ w \in Busy
  BY <1>1, <1>3 DEF Busy, NoWrite
<1>5. file' \in Contents \cup {Absent, Torn}
  BY <1>1, <1>2
<1>6. running
  BY <1>4 DEF RegistryInv, RegistryTyped
<1>7. RegistryTyped'
  BY <1>1, <1>3, <1>5, <1>6 DEF RegistryInv, RegistryTyped
<1>8. ConsumersCalled'
  BY <1>1 DEF RegistryInv, ConsumersCalled
<1>9. ASSUME ~crossed PROVE OneContent'
  <2>1. Busy = {w} /\ write[w].snap = Saved(services)
    BY <1>4, <1>6, <1>9 DEF RegistryInv, OneContent
  <2>2. Cardinality(Busy) = 1
    BY <2>1, FS_Singleton
  <2>3. file' = Saved(services)
    BY <1>1, <2>1, <2>2
  <2>4. Busy' = {} /\ reload = Absent
    BY <1>4, <1>6, <1>9, <2>1 DEF RegistryInv, OneContent
  <2>. QED  BY <1>1, <1>6, <1>9, <2>3, <2>4 DEF RegistryInv, OneContent, Agrees
<1>. QED  BY <1>1, <1>7, <1>8, <1>9 DEF RegistryInv

\* A reload has read the file, if nothing is being written.
LEMMA ReloadReadKeeps ==
  ASSUME RegistryInv, reloadRead
  PROVE  RegistryInv'
<1>1. /\ running /\ reload = Absent /\ file # Torn
      /\ reload' = [content |-> Content] /\ crossed' = (crossed \/ Busy # {})
      /\ UNCHANGED <<services, adapterSeen, file, write, running, callsIn, installed>>
  BY DEF reloadRead, Content
<1>2. Content \in Contents
  <2>1. <<>> \in Contents
    BY EmptyIsWhole
  <2>. QED  BY <1>1, <2>1 DEF RegistryInv, RegistryTyped, Content
<1>3. reload'.content = Content
  BY <1>1
<1>4. Busy' = Busy
  BY <1>1 DEF Busy
<1>5. RegistryTyped'
  BY <1>1, <1>2, <1>3, <1>4 DEF RegistryInv, RegistryTyped
<1>6. ConsumersCalled'
  BY <1>1 DEF RegistryInv, ConsumersCalled
<1>7. ASSUME ~crossed' PROVE OneContent'
  <2>1. ~crossed /\ Busy = {} /\ OneContent
    BY <1>1, <1>7 DEF RegistryInv
  <2>2. (Agrees' <=> Agrees) /\ Content' = Content
    BY <1>1 DEF Agrees, Content
  <2>. QED  BY <1>1, <1>3, <1>4, <2>1, <2>2 DEF OneContent
<1>. QED  BY <1>5, <1>6, <1>7 DEF RegistryInv

\* The file, when it agrees with the services, holds what is saved of them.
LEMMA AgreesIs ==
  ASSUME RegistryTyped, Agrees
  PROVE  Content = Saved(services)
<1>1. Saved(services) \in Contents /\ DOMAIN Saved(services) = DOMAIN services
  BY SavedIs DEF RegistryTyped
<1>2. CASE file = Absent
  <2>1. services = <<>>
    BY <1>1, <1>2, RegistryConstants DEF Agrees
  <2>2. Saved(services) = <<>>
    BY <2>1 DEF Saved
  <2>. QED  BY <1>2, <2>2 DEF Content
<1>3. CASE file # Absent
  BY <1>3 DEF Agrees, Content
<1>. QED  BY <1>2, <1>3

\* A content that was saved is loaded as it was.
LEMMA SavedLoaded ==
  ASSUME RegistryTyped, NEW c \in Contents, c = Saved(services) \/ (services = <<>> /\ Whole(c))
  PROVE  /\ Saved(Loaded(c)) = c
         /\ \A i \in DOMAIN c : c[i].hcl => Loaded(c)[i].hcl /\ Loaded(c)[i].kind # "none"
<1>1. /\ Registered(Loaded(c)) /\ DOMAIN Loaded(c) = DOMAIN c
      /\ \A i \in DOMAIN c :
           /\ Loaded(c)[i].kind = (IF c[i].kind = "none" /\ i \in DOMAIN services
                                   THEN services[i].kind ELSE c[i].kind)
           /\ Loaded(c)[i].hcl = (c[i].hcl \/ (i \in DOMAIN services /\ services[i].hcl))
  BY LoadedIs
<1>2. /\ DOMAIN Saved(Loaded(c)) = DOMAIN c
      /\ \A i \in DOMAIN c : /\ Saved(Loaded(c))[i] \in [kind: ServiceKinds, hcl: BOOLEAN]
                             /\ Saved(Loaded(c))[i].kind = Loaded(c)[i].kind
                             /\ Saved(Loaded(c))[i].hcl = (Loaded(c)[i].hcl /\ Loaded(c)[i].kind # "none")
  <2>1. Saved(Loaded(c)) \in Contents
    BY <1>1, SavedIs
  <2>. QED  BY <1>1, <2>1, SavedIs, ContentsAre
<1>3. c \in [DOMAIN c -> [kind: ServiceKinds, hcl: BOOLEAN]]
  BY ContentsAre
<1>4. CASE c = Saved(services)
  <2>1. /\ DOMAIN c = DOMAIN services
        /\ \A i \in DOMAIN c : c[i].kind = services[i].kind /\ c[i].hcl = (services[i].hcl /\ services[i].kind # "none")
    BY <1>4, SavedIs DEF RegistryTyped
  <2>2. \A i \in DOMAIN c : /\ Loaded(c)[i].kind = c[i].kind
                            /\ c[i].hcl => Loaded(c)[i].hcl /\ c[i].kind # "none"
                            /\ (Loaded(c)[i].hcl /\ Loaded(c)[i].kind # "none") = c[i].hcl
    BY <1>1, <1>3, <2>1
  <2>3. \A i \in DOMAIN c : Saved(Loaded(c))[i].kind = c[i].kind /\ Saved(Loaded(c))[i].hcl = c[i].hcl
    BY <1>2, <2>2
  <2>4. \A i \in DOMAIN c : Saved(Loaded(c))[i] = c[i]
    BY <1>2, <1>3, <2>3
  <2>5. Saved(Loaded(c)) = c
    BY <1>2, <1>3, <2>4 DEF Saved
  <2>. QED  BY <2>2, <2>5
<1>5. CASE services = <<>> /\ Whole(c)
  <2>1. \A i \in DOMAIN c : /\ Loaded(c)[i].kind = c[i].kind
                            /\ Loaded(c)[i].hcl = c[i].hcl
                            /\ c[i].hcl => c[i].kind # "none"
    BY <1>1, <1>3, <1>5 DEF Whole
  <2>2. \A i \in DOMAIN c : Saved(Loaded(c))[i].kind = c[i].kind /\ Saved(Loaded(c))[i].hcl = c[i].hcl
    BY <1>2, <1>3, <2>1
  <2>3. \A i \in DOMAIN c : Saved(Loaded(c))[i] = c[i]
    BY <1>2, <1>3, <2>2
  <2>4. Saved(Loaded(c)) = c
    BY <1>2, <1>3, <2>3 DEF Saved
  <2>. QED  BY <2>1, <2>4
<1>. QED  BY <1>4, <1>5

\* What agrees with the file after it was loaded.
LEMMA LoadingAgrees ==
  ASSUME RegistryTyped, Content \in Contents, services' = Loaded(Content), file' = file,
         Agrees \/ (services = <<>> /\ Whole(Content))
  PROVE  Agrees' /\ \A i \in DOMAIN Content :
           Content[i].hcl => i \in DOMAIN services' /\ services'[i].hcl /\ services'[i].kind # "none"
<1>1. Content = Saved(services) \/ (services = <<>> /\ Whole(Content))
  BY AgreesIs
<1>2. /\ Saved(services') = Content
      /\ \A i \in DOMAIN Content : Content[i].hcl => services'[i].hcl /\ services'[i].kind # "none"
  BY <1>1, SavedLoaded
<1>3. DOMAIN services' = DOMAIN Content
  BY LoadedIs
<1>4. file = Absent => services' = <<>>
  <2>. SUFFICES ASSUME file = Absent PROVE services' = <<>>
    OBVIOUS
  <2>1. Content = <<>>
    BY DEF Content
  <2>. QED  BY <2>1 DEF Loaded
<1>5. Agrees'
  BY <1>2, <1>4 DEF Agrees, Content
<1>. QED  BY <1>2, <1>3, <1>5

\* The services are those the reload has read, and nobody is heard of yet.
LEMMA LoadKeeps ==
  ASSUME RegistryInv, load
  PROVE  RegistryInv'
<1>1. /\ reload # Absent /\ running /\ services' = Loaded(reload.content) /\ adapterSeen' = <<>> /\ reload' = Absent
      /\ UNCHANGED <<file, write, running, callsIn, installed, crossed>>
  BY DEF load, history, RegistryInv, RegistryTyped
<1>2. reload.content \in Contents
  BY <1>1 DEF RegistryInv, RegistryTyped
<1>3. /\ Registered(services') /\ \A i \in DOMAIN services' : services'[i].consumers = {}
  BY <1>1, <1>2, LoadedIs DEF RegistryInv
<1>4. Busy' = Busy
  BY <1>1 DEF Busy
<1>5. RegistryTyped'
  BY <1>1, <1>3, <1>4 DEF RegistryInv, RegistryTyped
<1>6. ConsumersCalled'
  BY <1>1, <1>3 DEF ConsumersCalled
<1>7. ASSUME ~crossed PROVE OneContent'
  <2>1. OneContent /\ Busy = {} /\ Agrees /\ reload.content = Content
    BY <1>1, <1>7 DEF RegistryInv, OneContent
  <2>2. Agrees' /\ \A i \in DOMAIN Content :
          Content[i].hcl => i \in DOMAIN services' /\ services'[i].hcl /\ services'[i].kind # "none"
    BY <1>1, <1>2, <2>1, LoadingAgrees DEF RegistryInv
  <2>3. \A i \in installed : i \in DOMAIN Content /\ Content[i].hcl
    <3>1. Content = Saved(services)
      BY <2>1, AgreesIs DEF RegistryInv
    <3>. QED  BY <1>1, <2>1, <3>1, SavedIs DEF RegistryInv, RegistryTyped, OneContent
  <2>. QED  BY <1>1, <1>4, <2>1, <2>2, <2>3 DEF OneContent
<1>. QED  BY <1>1, <1>5, <1>6, <1>7 DEF RegistryInv

-----------------------------------------------------------------------------
(* Services and their consumers.                                           *)

\* A service that registers keeps what it leaves out.
LEMMA MergedIs ==
  ASSUME RegistryTyped, NEW i \in ServiceIds, NEW d \in Descriptors
  PROVE  /\ Merged(i, d) \in Service
         /\ i \in DOMAIN services => Merged(i, d).consumers = services[i].consumers
         /\ i \notin DOMAIN services => Merged(i, d).consumers = {}
         /\ i \in DOMAIN services /\ services[i].hcl => Merged(i, d).hcl
         /\ i \in DOMAIN services /\ services[i].kind # "none" => Merged(i, d).kind # "none"
         /\ d.hcl => Merged(i, d).hcl
         /\ d.kind # "none" => Merged(i, d).kind # "none"
<1>1. PICK old : old = IF i \in DOMAIN services THEN services[i]
                       ELSE [kind |-> "none", hcl |-> FALSE, url |-> FALSE, consumers |-> {}]
  OBVIOUS
<1>2. old \in Service /\ (i \notin DOMAIN services => old.consumers = {})
  BY <1>1 DEF RegistryTyped, Registered, Service, ServiceKinds
<1>3. PICK k : k = IF d.kind # "none" THEN d.kind ELSE old.kind
  OBVIOUS
<1>4. k \in ServiceKinds /\ (old.kind # "none" \/ d.kind # "none" => k # "none")
  BY <1>2, <1>3, RegistryConstants DEF Service
<1>5. Merged(i, d) = [old EXCEPT !.kind = k, !.hcl = old.hcl \/ d.hcl, !.url = old.url \/ d.url]
  BY <1>1, <1>3 DEF Merged
<1>6. /\ Merged(i, d) \in Service /\ Merged(i, d).kind = k
      /\ Merged(i, d).hcl = (old.hcl \/ d.hcl) /\ Merged(i, d).consumers = old.consumers
  BY <1>2, <1>4, <1>5 DEF Service
<1>. QED  BY <1>1, <1>2, <1>4, <1>6

LEMMA RegisterKeeps ==
  ASSUME RegistryInv, NEW i \in ServiceIds, NEW d \in Descriptors, register(i, d)
  PROVE  RegistryInv'
<1>1. /\ running /\ services' = With(services, i, Merged(i, d)) /\ persist(services')
      /\ installed' = IF d.kind = "nomad" /\ d.hcl THEN installed \cup {i} ELSE installed
      /\ UNCHANGED <<adapterSeen, file, reload, running, callsIn>>
  BY DEF register
<1>2. PICK m : m = Merged(i, d)
  OBVIOUS
<1>3. /\ DOMAIN services' = DOMAIN services \cup {i} /\ services'[i] = m
      /\ \A j \in DOMAIN services \ {i} : services'[j] = services[j]
      /\ services' = [j \in DOMAIN services' |-> services'[j]]
  BY <1>1, <1>2 DEF With
<1>4. Registered(services')
  <2>1. m \in Service
    BY <1>2, MergedIs DEF RegistryInv
  <2>2. \A j \in DOMAIN services' : services'[j] \in Service
    BY <1>3, <2>1 DEF RegistryInv, RegistryTyped, Registered
  <2>. QED  BY <1>3, <2>2 DEF RegistryInv, RegistryTyped, Registered
<1>5. RegistryTyped'
  <2>1. write' \in [Writers -> {NoWrite} \cup [at: {"mkdir", "open"}, snap: Contents]]
    BY <1>1, <1>4, PersistTyped
  <2>. QED  BY <1>1, <1>3, <1>4, <2>1 DEF RegistryInv, RegistryTyped
<1>6. ConsumersCalled'
  <2>1. /\ i \in DOMAIN services => m.consumers = services[i].consumers
        /\ i \notin DOMAIN services => m.consumers = {}
    BY <1>2, MergedIs DEF RegistryInv
  <2>. QED  BY <1>1, <1>3, <2>1 DEF RegistryInv, RegistryTyped, ConsumersCalled
<1>7. ~crossed => \A j \in installed' : j \in DOMAIN services' /\ services'[j].hcl /\ services'[j].kind # "none"
  <2>. SUFFICES ASSUME ~crossed, NEW j \in installed'
                PROVE  j \in DOMAIN services' /\ services'[j].hcl /\ services'[j].kind # "none"
    OBVIOUS
  <2>1. j \in installed => j \in DOMAIN services /\ services[j].hcl /\ services[j].kind # "none"
    BY <1>1 DEF RegistryInv, OneContent
  <2>2. CASE j = i
    <3>1. j \in installed \/ (d.kind # "none" /\ d.hcl)
      BY <1>1
    <3>2. m.hcl /\ m.kind # "none"
      BY <1>2, <2>1, <2>2, <3>1, MergedIs DEF RegistryInv
    <3>. QED  BY <1>3, <2>2, <3>2
  <2>3. CASE j # i
    BY <1>1, <1>3, <2>1, <2>3
  <2>. QED  BY <2>2, <2>3
<1>. QED  BY <1>1, <1>5, <1>6, <1>7, PersistKeeps

LEMMA ForgetKeeps ==
  ASSUME RegistryInv, NEW i \in ServiceIds, forget(i)
  PROVE  RegistryInv'
<1>1. /\ running /\ services' = Without(services, i) /\ adapterSeen' = Without(adapterSeen, i)
      /\ persist(services') /\ installed' = installed \ {i}
      /\ UNCHANGED <<file, reload, running, callsIn>>
  BY DEF forget, ForgetIn
<1>2. /\ DOMAIN services' = DOMAIN services \ {i}
      /\ \A j \in DOMAIN services' : services'[j] = services[j]
      /\ services' = [j \in DOMAIN services' |-> services'[j]]
      /\ DOMAIN adapterSeen' = DOMAIN adapterSeen \ {i}
      /\ \A j \in DOMAIN adapterSeen' : adapterSeen'[j] = adapterSeen[j]
  BY <1>1 DEF Without
<1>3. Registered(services')
  <2>1. \A j \in DOMAIN services' : services'[j] \in Service
    BY <1>2 DEF RegistryInv, RegistryTyped, Registered
  <2>. QED  BY <1>2, <2>1 DEF RegistryInv, RegistryTyped, Registered
<1>4. RegistryTyped'
  <2>1. write' \in [Writers -> {NoWrite} \cup [at: {"mkdir", "open"}, snap: Contents]]
    BY <1>1, <1>3, PersistTyped
  <2>. QED  BY <1>1, <1>2, <1>3, <2>1 DEF RegistryInv, RegistryTyped
<1>5. ConsumersCalled'
  BY <1>1, <1>2 DEF RegistryInv, ConsumersCalled, Fresh
<1>6. ~crossed => \A j \in installed' : j \in DOMAIN services' /\ services'[j].hcl /\ services'[j].kind # "none"
  BY <1>1, <1>2 DEF RegistryInv, OneContent
<1>. QED  BY <1>1, <1>4, <1>5, <1>6, PersistKeeps

\* A step that changes what is known of consumers only.
LEMMA ConsumersStep ==
  ASSUME RegistryInv, UNCHANGED <<file, write, reload, running, installed, crossed>>,
         DOMAIN services' = DOMAIN services, Registered(services'), running \/ UNCHANGED <<services, adapterSeen>>,
         \A i \in DOMAIN services : services'[i].kind = services[i].kind /\ services'[i].hcl = services[i].hcl,
         DOMAIN adapterSeen' \subseteq DOMAIN services,
         \A i \in DOMAIN adapterSeen' : DOMAIN adapterSeen'[i] \subseteq Adapters,
         callsIn' \in [ServiceIds -> SUBSET Adapters], ConsumersCalled'
  PROVE  RegistryInv'
<1>1. Busy' = Busy
  BY DEF Busy
<1>2. RegistryTyped'
  BY <1>1 DEF RegistryInv, RegistryTyped
<1>3. Saved(services') = Saved(services)
  BY SavedSame DEF RegistryInv, RegistryTyped
<1>4. services = <<>> => services' = <<>>
  <2>. SUFFICES ASSUME services = <<>> PROVE services' = <<>>
    OBVIOUS
  <2>1. DOMAIN services' = {} /\ services' \in [DOMAIN services' -> Service]
    BY DEF Registered
  <2>. QED  BY <2>1
<1>5. Agrees => Agrees'
  BY <1>3, <1>4 DEF Agrees
<1>6. Content' = Content
  BY DEF Content
<1>7. ~crossed => OneContent'
  <2>. SUFFICES ASSUME OneContent PROVE OneContent'
    BY DEF RegistryInv
  <2>1. installed \subseteq DOMAIN services \/ ~running
    BY DEF OneContent
  <2>. QED  BY <1>1, <1>3, <1>5, <1>6, <2>1 DEF OneContent
<1>. QED  BY <1>2, <1>7 DEF RegistryInv

\* pruneAdapters, on lists that name consumers only that have called.
LEMMA PruneKeeps ==
  ASSUME RegistryInv, running, NEW seen, NEW i \in DOMAIN services, pruneAdapters(seen, i),
         UNCHANGED <<file, write, reload, running, installed, crossed>>,
         DOMAIN seen \subseteq DOMAIN services, \A j \in DOMAIN seen : DOMAIN seen[j] \subseteq Adapters,
         callsIn' \in [ServiceIds -> SUBSET Adapters],
         \A j \in DOMAIN seen : Fresh(seen[j]) \subseteq callsIn'[j],
         \A j \in DOMAIN services \ DOMAIN seen : services[j].consumers = {}
  PROVE  RegistryInv'
<1>1. CASE i \notin DOMAIN seen
  <2>1. services' = services /\ adapterSeen' = seen
    BY <1>1 DEF pruneAdapters
  <2>2. ConsumersCalled'
    BY <2>1 DEF ConsumersCalled
  <2>. QED  BY <2>1, <2>2, ConsumersStep DEF RegistryInv, RegistryTyped
<1>2. CASE i \in DOMAIN seen
  <2>. PICK p : p = [a \in Fresh(seen[i]) |-> "fresh"]
    OBVIOUS
  <2>1. /\ adapterSeen' = [seen EXCEPT ![i] = p]
        /\ services' = [services EXCEPT ![i].consumers = Fresh(seen[i])]
    BY <1>2 DEF pruneAdapters
  <2>2. Fresh(seen[i]) \subseteq Adapters /\ DOMAIN p = Fresh(seen[i])
    BY <1>2 DEF Fresh
  <2>3. services[i] \in Service
    BY DEF RegistryInv, RegistryTyped, Registered
  <2>4. PICK s : s = [services[i] EXCEPT !.consumers = Fresh(seen[i])]
    OBVIOUS
  <2>5. s \in Service /\ s.kind = services[i].kind /\ s.hcl = services[i].hcl
    BY <2>2, <2>3, <2>4 DEF Service
  <2>6. services' = [services EXCEPT ![i] = s]
    BY <2>1, <2>4
  <2>7. /\ Registered(services') /\ DOMAIN services' = DOMAIN services
        /\ services'[i] = s /\ \A j \in DOMAIN services \ {i} : services'[j] = services[j]
    BY <2>5, <2>6 DEF RegistryInv, RegistryTyped, Registered
  <2>8. /\ DOMAIN adapterSeen' = DOMAIN seen /\ adapterSeen'[i] = p
        /\ \A j \in DOMAIN seen \ {i} : adapterSeen'[j] = seen[j]
    BY <1>2, <2>1
  <2>9. Fresh(p) \subseteq callsIn'[i]
    BY <1>2, <2>2 DEF Fresh
  <2>10. ConsumersCalled'
    <3>. SUFFICES ASSUME NEW j \in DOMAIN services
                  PROVE  IF j \in DOMAIN adapterSeen' THEN Fresh(adapterSeen'[j]) \subseteq callsIn'[j]
                         ELSE services'[j].consumers = {}
      BY <2>7 DEF ConsumersCalled
    <3>. HIDE DEF Fresh
    <3>. QED  BY <1>2, <2>7, <2>8, <2>9
  <2>11. \A j \in DOMAIN adapterSeen' : DOMAIN adapterSeen'[j] \subseteq Adapters
    BY <2>2, <2>8
  <2>. QED  BY <2>5, <2>7, <2>8, <2>10, <2>11, ConsumersStep
<1>. QED  BY <1>1, <1>2

LEMMA GetKeeps ==
  ASSUME RegistryInv, NEW i \in ServiceIds, get(i)
  PROVE  RegistryInv'
<1>1. /\ running /\ i \in DOMAIN services /\ pruneAdapters(adapterSeen, i)
      /\ UNCHANGED <<file, write, reload, running, callsIn, installed, crossed>>
  BY DEF get, history
<1>2. \A j \in DOMAIN adapterSeen : Fresh(adapterSeen[j]) \subseteq callsIn'[j]
  BY <1>1 DEF RegistryInv, RegistryTyped, ConsumersCalled
<1>3. \A j \in DOMAIN services \ DOMAIN adapterSeen : services[j].consumers = {}
  BY DEF RegistryInv, ConsumersCalled
<1>4. callsIn' \in [ServiceIds -> SUBSET Adapters]
  BY <1>1 DEF RegistryInv, RegistryTyped
<1>. QED  BY <1>1, <1>2, <1>3, <1>4, PruneKeeps DEF RegistryInv, RegistryTyped

\* A consumer that calls is in its list, and has called.
LEMMA AddAdapterKeeps ==
  ASSUME RegistryInv, NEW i \in ServiceIds, NEW a \in Adapters, addAdapter(i, a)
  PROVE  RegistryInv'
<1>. PICK list : list = IF i \in DOMAIN adapterSeen THEN adapterSeen[i] ELSE <<>>
  OBVIOUS
<1>. PICK added : added = With(list, a, "fresh")
  OBVIOUS
<1>. PICK seen : seen = With(adapterSeen, i, added)
  OBVIOUS
<1>1. /\ running /\ i \in DOMAIN services /\ pruneAdapters(seen, i)
      /\ callsIn' = [callsIn EXCEPT ![i] = callsIn[i] \cup {a}]
      /\ UNCHANGED <<file, write, reload, running, installed, crossed>>
  BY DEF addAdapter
<1>2. DOMAIN list \subseteq Adapters /\ Fresh(list) \subseteq callsIn[i]
  <2>1. CASE i \in DOMAIN adapterSeen
    BY <1>1, <2>1 DEF RegistryInv, RegistryTyped, ConsumersCalled
  <2>2. CASE i \notin DOMAIN adapterSeen
    BY <2>2, EmptyIsWhole DEF Fresh
  <2>. QED  BY <2>1, <2>2
<1>3. /\ DOMAIN added = DOMAIN list \cup {a} /\ added[a] = "fresh"
      /\ \A b \in DOMAIN list \ {a} : added[b] = list[b]
  BY DEF With
<1>4. /\ callsIn' \in [ServiceIds -> SUBSET Adapters] /\ callsIn'[i] = callsIn[i] \cup {a}
      /\ \A j \in ServiceIds \ {i} : callsIn'[j] = callsIn[j]
  BY <1>1 DEF RegistryInv, RegistryTyped
<1>5. DOMAIN added \subseteq Adapters /\ Fresh(added) \subseteq callsIn'[i]
  BY <1>2, <1>3, <1>4 DEF Fresh
<1>6. /\ DOMAIN seen = DOMAIN adapterSeen \cup {i} /\ seen[i] = added
      /\ \A j \in DOMAIN adapterSeen \ {i} : seen[j] = adapterSeen[j]
  BY DEF With
<1>7. DOMAIN seen \subseteq DOMAIN services /\ DOMAIN services \subseteq ServiceIds
  BY <1>1, <1>6 DEF RegistryInv, RegistryTyped, Registered
<1>8. \A j \in DOMAIN seen : DOMAIN seen[j] \subseteq Adapters /\ Fresh(seen[j]) \subseteq callsIn'[j]
  <2>. SUFFICES ASSUME NEW j \in DOMAIN seen
                PROVE  DOMAIN seen[j] \subseteq Adapters /\ Fresh(seen[j]) \subseteq callsIn'[j]
    OBVIOUS
  <2>1. CASE j = i
    BY <1>5, <1>6, <2>1
  <2>2. CASE j # i
    <3>1. j \in DOMAIN adapterSeen /\ j \in DOMAIN services /\ seen[j] = adapterSeen[j] /\ callsIn'[j] = callsIn[j]
      BY <1>4, <1>6, <1>7, <2>2
    <3>. QED  BY <3>1 DEF RegistryInv, RegistryTyped, ConsumersCalled
  <2>. QED  BY <2>1, <2>2
<1>9. \A j \in DOMAIN services \ DOMAIN seen : services[j].consumers = {}
  BY <1>6 DEF RegistryInv, ConsumersCalled
<1>. QED  BY <1>1, <1>4, <1>7, <1>8, <1>9, PruneKeeps

\* A consumer that is taken away is in no list.
LEMMA RemoveAdapterKeeps ==
  ASSUME RegistryInv, NEW i \in ServiceIds, NEW a \in Adapters, removeAdapter(i, a)
  PROVE  RegistryInv'
<1>1. /\ running /\ i \in DOMAIN services
      /\ callsIn' = [callsIn EXCEPT ![i] = callsIn[i] \ {a}]
      /\ UNCHANGED <<file, write, reload, running, installed, crossed>>
  BY DEF removeAdapter
<1>2. /\ callsIn' \in [ServiceIds -> SUBSET Adapters] /\ callsIn'[i] = callsIn[i] \ {a}
      /\ \A j \in ServiceIds \ {i} : callsIn'[j] = callsIn[j]
  BY <1>1 DEF RegistryInv, RegistryTyped
<1>3. DOMAIN services \subseteq ServiceIds /\ DOMAIN adapterSeen \subseteq DOMAIN services
  BY DEF RegistryInv, RegistryTyped, Registered
<1>4. CASE i \in DOMAIN adapterSeen
  <2>. PICK less : less = Without(adapterSeen[i], a)
    OBVIOUS
  <2>. PICK seen : seen = [adapterSeen EXCEPT ![i] = less]
    OBVIOUS
  <2>1. pruneAdapters(seen, i)
    BY <1>4 DEF removeAdapter
  <2>2. /\ DOMAIN less = DOMAIN adapterSeen[i] \ {a}
        /\ \A b \in DOMAIN less : less[b] = adapterSeen[i][b]
    BY DEF Without
  <2>3. Fresh(adapterSeen[i]) \subseteq callsIn[i] /\ DOMAIN adapterSeen[i] \subseteq Adapters
    BY <1>1, <1>4 DEF RegistryInv, RegistryTyped, ConsumersCalled
  <2>4. DOMAIN less \subseteq Adapters /\ Fresh(less) \subseteq callsIn'[i]
    BY <1>2, <2>2, <2>3 DEF Fresh
  <2>5. /\ DOMAIN seen = DOMAIN adapterSeen /\ seen[i] = less
        /\ \A j \in DOMAIN adapterSeen \ {i} : seen[j] = adapterSeen[j]
    BY <1>4
  <2>6. \A j \in DOMAIN seen : DOMAIN seen[j] \subseteq Adapters /\ Fresh(seen[j]) \subseteq callsIn'[j]
    <3>. SUFFICES ASSUME NEW j \in DOMAIN seen
                  PROVE  DOMAIN seen[j] \subseteq Adapters /\ Fresh(seen[j]) \subseteq callsIn'[j]
      OBVIOUS
    <3>1. CASE j = i
      BY <2>4, <2>5, <3>1
    <3>2. CASE j # i
      <4>1. j \in DOMAIN adapterSeen /\ j \in DOMAIN services /\ seen[j] = adapterSeen[j] /\ callsIn'[j] = callsIn[j]
        BY <1>2, <1>3, <2>5, <3>2
      <4>. QED  BY <4>1 DEF RegistryInv, RegistryTyped, ConsumersCalled
    <3>. QED  BY <3>1, <3>2
  <2>7. \A j \in DOMAIN services \ DOMAIN seen : services[j].consumers = {}
    BY <2>5 DEF RegistryInv, ConsumersCalled
  <2>. QED  BY <1>1, <1>2, <1>3, <2>1, <2>5, <2>6, <2>7, PruneKeeps
<1>5. CASE i \notin DOMAIN adapterSeen
  <2>1. services' = [services EXCEPT ![i].consumers = services[i].consumers \ {a}] /\ adapterSeen' = adapterSeen
    BY <1>5 DEF removeAdapter
  <2>2. services[i] \in Service /\ services[i].consumers = {}
    BY <1>1, <1>5 DEF RegistryInv, RegistryTyped, Registered, ConsumersCalled
  <2>3. PICK s : s = [services[i] EXCEPT !.consumers = services[i].consumers \ {a}]
    OBVIOUS
  <2>4. s \in Service /\ s.kind = services[i].kind /\ s.hcl = services[i].hcl /\ s.consumers = {}
    BY <2>2, <2>3 DEF Service
  <2>5. services' = [services EXCEPT ![i] = s]
    BY <2>1, <2>3
  <2>6. /\ Registered(services') /\ DOMAIN services' = DOMAIN services
        /\ services'[i] = s /\ \A j \in DOMAIN services \ {i} : services'[j] = services[j]
    BY <1>1, <2>4, <2>5 DEF RegistryInv, RegistryTyped, Registered
  <2>7. ConsumersCalled'
    <3>. SUFFICES ASSUME NEW j \in DOMAIN services
                  PROVE  IF j \in DOMAIN adapterSeen THEN Fresh(adapterSeen[j]) \subseteq callsIn'[j]
                         ELSE services'[j].consumers = {}
      BY <2>1, <2>6 DEF ConsumersCalled, Fresh
    <3>. QED  BY <1>2, <1>3, <1>5, <2>4, <2>6 DEF RegistryInv, ConsumersCalled
  <2>. QED  BY <1>1, <1>2, <2>1, <2>4, <2>6, <2>7, ConsumersStep DEF RegistryInv, RegistryTyped
<1>. QED  BY <1>4, <1>5

\* A consumer that has not called for the TTL is old in its list.
LEMMA TtlKeeps ==
  ASSUME RegistryInv, NEW i \in ServiceIds, NEW a \in Adapters, TtlPasses(i, a)
  PROVE  RegistryInv'
<1>1. /\ callsIn' = [callsIn EXCEPT ![i] = callsIn[i] \ {a}]
      /\ adapterSeen' = IF i \in DOMAIN adapterSeen /\ a \in DOMAIN adapterSeen[i]
                        THEN [adapterSeen EXCEPT ![i][a] = "old"] ELSE adapterSeen
      /\ UNCHANGED <<services, file, write, reload, running, installed, crossed>>
  BY DEF TtlPasses
<1>2. /\ callsIn' \in [ServiceIds -> SUBSET Adapters] /\ callsIn'[i] = callsIn[i] \ {a}
      /\ \A j \in ServiceIds \ {i} : callsIn'[j] = callsIn[j]
  BY <1>1 DEF RegistryInv, RegistryTyped
<1>3. /\ DOMAIN services \subseteq ServiceIds /\ DOMAIN adapterSeen \subseteq DOMAIN services
      /\ Registered(services)
      /\ \A j \in DOMAIN adapterSeen : DOMAIN adapterSeen[j] \subseteq Adapters /\ Fresh(adapterSeen[j]) \subseteq callsIn[j]
      /\ \A j \in DOMAIN services \ DOMAIN adapterSeen : services[j].consumers = {}
  BY DEF RegistryInv, RegistryTyped, Registered, ConsumersCalled
<1>4. /\ DOMAIN adapterSeen' = DOMAIN adapterSeen
      /\ \A j \in DOMAIN adapterSeen :
           DOMAIN adapterSeen'[j] \subseteq Adapters /\ Fresh(adapterSeen'[j]) \subseteq callsIn'[j]
  <2>1. CASE i \in DOMAIN adapterSeen /\ a \in DOMAIN adapterSeen[i]
    <3>. PICK older : older = [adapterSeen[i] EXCEPT ![a] = "old"]
      OBVIOUS
    <3>1. adapterSeen' = [adapterSeen EXCEPT ![i] = older]
      BY <1>1, <2>1
    <3>2. DOMAIN older = DOMAIN adapterSeen[i] /\ Fresh(older) \subseteq Fresh(adapterSeen[i]) \ {a}
      BY <2>1 DEF Fresh
    <3>3. /\ DOMAIN adapterSeen' = DOMAIN adapterSeen /\ adapterSeen'[i] = older
          /\ \A j \in DOMAIN adapterSeen \ {i} : adapterSeen'[j] = adapterSeen[j]
      BY <2>1, <3>1
    <3>. QED  BY <1>2, <1>3, <2>1, <3>2, <3>3
  <2>2. CASE ~(i \in DOMAIN adapterSeen /\ a \in DOMAIN adapterSeen[i])
    <3>1. adapterSeen' = adapterSeen
      BY <1>1, <2>2
    <3>2. i \in DOMAIN adapterSeen => a \notin Fresh(adapterSeen[i])
      BY <2>2 DEF Fresh
    <3>. QED  BY <1>2, <1>3, <3>1, <3>2
  <2>. QED  BY <2>1, <2>2
<1>5. ConsumersCalled'
  <2>. SUFFICES ASSUME NEW j \in DOMAIN services
                PROVE  IF j \in DOMAIN adapterSeen' THEN Fresh(adapterSeen'[j]) \subseteq callsIn'[j]
                       ELSE services[j].consumers = {}
    BY <1>1 DEF ConsumersCalled, Fresh
  <2>. QED  BY <1>3, <1>4
<1>6. running \/ UNCHANGED <<services, adapterSeen>>
  <2>1. ~running => adapterSeen = <<>>
    BY DEF RegistryInv, RegistryTyped
  <2>2. ~running => i \notin DOMAIN adapterSeen
    BY <2>1, EmptyIsWhole
  <2>. QED  BY <1>1, <2>2
<1>. QED  BY <1>1, <1>2, <1>3, <1>4, <1>5, <1>6, ConsumersStep

-----------------------------------------------------------------------------
(* Stop and start.                                                         *)

LEMMA CrashRegistryKeeps ==
  ASSUME RegistryInv, CrashRegistry
  PROVE  RegistryInv'
<1>1. /\ running /\ running' = FALSE
      /\ services' = <<>> /\ adapterSeen' = <<>> /\ reload' = Absent
      /\ write' = [w \in Writers |-> NoWrite] /\ crossed' = (crossed \/ Busy # {})
      /\ UNCHANGED <<file, callsIn, installed>>
  BY DEF CrashRegistry
<1>2. Busy' = {}
  BY <1>1 DEF Busy
<1>3. Registered(services') /\ DOMAIN services' = {} /\ DOMAIN adapterSeen' = {}
  BY <1>1 DEF Registered
<1>4. RegistryTyped'
  BY <1>1, <1>2, <1>3 DEF RegistryInv, RegistryTyped
<1>5. ConsumersCalled'
  BY <1>3 DEF ConsumersCalled
<1>6. ASSUME ~crossed' PROVE OneContent'
  <2>1. OneContent /\ Busy = {} /\ Agrees
    BY <1>1, <1>6 DEF RegistryInv, OneContent
  <2>2. Content = Saved(services)
    BY <2>1, AgreesIs DEF RegistryInv
  <2>3. /\ Saved(services) \in Contents /\ DOMAIN Content = DOMAIN services
        /\ \A i \in DOMAIN services : Content[i].kind = services[i].kind
                                      /\ Content[i].hcl = (services[i].hcl /\ services[i].kind # "none")
    BY <2>2, SavedIs DEF RegistryInv, RegistryTyped
  <2>4. file # Torn
    BY <2>1, <2>3, RegistryConstants DEF Agrees
  <2>5. Content' = Content
    BY <1>1 DEF Content
  <2>6. Whole(Content)
    BY <2>3 DEF Whole
  <2>7. \A i \in installed : i \in DOMAIN Content /\ Content[i].hcl
    BY <1>1, <2>1, <2>3 DEF OneContent
  <2>8. Whole(Content')
    BY <2>5, <2>6
  <2>. QED  BY <1>1, <1>2, <2>4, <2>5, <2>7, <2>8 DEF OneContent, Whole
<1>. QED  BY <1>4, <1>5, <1>6 DEF RegistryInv

LEMMA StartRegistryKeeps ==
  ASSUME RegistryInv, StartRegistry
  PROVE  RegistryInv'
<1>1. /\ ~running /\ file # Torn /\ running' = TRUE /\ services' = Loaded(Content)
      /\ UNCHANGED <<adapterSeen, file, write, reload, callsIn, installed, crossed>>
  BY DEF StartRegistry, history, Content
<1>2. services = <<>> /\ adapterSeen = <<>> /\ Busy = {} /\ reload = Absent
  BY <1>1 DEF RegistryInv, RegistryTyped
<1>3. Content \in Contents
  BY <1>1, EmptyIsWhole DEF RegistryInv, RegistryTyped, Content
<1>4. /\ Registered(services') /\ \A i \in DOMAIN services' : services'[i].consumers = {}
  BY <1>1, <1>3, LoadedIs DEF RegistryInv
<1>5. Busy' = {} /\ DOMAIN adapterSeen = {}
  BY <1>1, <1>2, EmptyIsWhole DEF Busy
<1>6. RegistryTyped'
  BY <1>1, <1>2, <1>4, <1>5 DEF RegistryInv, RegistryTyped
<1>7. ConsumersCalled'
  BY <1>1, <1>4, <1>5 DEF ConsumersCalled
<1>8. ASSUME ~crossed PROVE OneContent'
  <2>1. OneContent /\ Whole(Content)
    BY <1>1, <1>8 DEF RegistryInv, OneContent
  <2>2. Agrees' /\ \A i \in DOMAIN Content :
          Content[i].hcl => i \in DOMAIN services' /\ services'[i].hcl /\ services'[i].kind # "none"
    BY <1>1, <1>2, <1>3, <2>1, LoadingAgrees DEF RegistryInv
  <2>. QED  BY <1>1, <1>2, <1>5, <2>1, <2>2 DEF OneContent
<1>. QED  BY <1>1, <1>6, <1>7, <1>8 DEF RegistryInv

LEMMA RegistryBegins == RegistryInit => RegistryInv
<1>. SUFFICES ASSUME RegistryInit PROVE RegistryInv
  OBVIOUS
<1>1. DOMAIN services = {} /\ DOMAIN adapterSeen = {} /\ Registered(services) /\ Busy = {}
  BY EmptyIsWhole DEF RegistryInit, Registered, Busy
<1>2. RegistryTyped
  BY <1>1 DEF RegistryInit, RegistryTyped
<1>. QED  BY <1>1, <1>2 DEF RegistryInit, RegistryInv, ConsumersCalled, OneContent, Agrees

LEMMA RegistryStep == RegistryInv /\ [RegistryNext]_registryVars => RegistryInv'
<1>. SUFFICES ASSUME RegistryInv, [RegistryNext]_registryVars PROVE RegistryInv'
  OBVIOUS
<1>1. ASSUME NEW w \in Writers, writeOpen(w) \/ writeDone(w) PROVE RegistryInv'
  BY <1>1, WriteOpenKeeps, WriteDoneKeeps
<1>2. ASSUME NEW i \in ServiceIds, (\E d \in Descriptors : register(i, d)) \/ forget(i) \/ get(i)
      PROVE  RegistryInv'
  BY <1>2, RegisterKeeps, ForgetKeeps, GetKeeps
<1>3. ASSUME NEW i \in ServiceIds, NEW a \in Adapters, addAdapter(i, a) \/ removeAdapter(i, a) \/ TtlPasses(i, a)
      PROVE  RegistryInv'
  BY <1>3, AddAdapterKeeps, RemoveAdapterKeeps, TtlKeeps
<1>4. CASE reloadRead \/ load \/ CrashRegistry \/ StartRegistry
  BY <1>4, ReloadReadKeeps, LoadKeeps, CrashRegistryKeeps, StartRegistryKeeps
<1>5. CASE UNCHANGED registryVars
  <2>1. UNCHANGED <<services, adapterSeen, file, write, reload, running, callsIn, installed, crossed>>
    BY <1>5 DEF registryVars
  <2>2. ConsumersCalled'
    BY <2>1 DEF RegistryInv, ConsumersCalled, Fresh
  <2>. QED  BY <2>1, <2>2, ConsumersStep DEF RegistryInv, RegistryTyped
<1>. QED  BY <1>1, <1>2, <1>3, <1>4, <1>5 DEF RegistryNext

\* What the registry tells of its services and their consumers is so, in memory,
\* in its file and after a restart (registry.ts:123-172).
THEOREM RegistryTellsTruth == RegistrySpec => []RegistryIsKept
<1>1. RegistryInv => RegistryIsKept
  <2>. SUFFICES ASSUME RegistryInv PROVE RegistryIsKept
    OBVIOUS
  <2>1. ActiveMeansSeen
    BY DEF RegistryInv, ConsumersCalled, ActiveMeansSeen, hasActiveConsumer
  <2>2. FileIsCurrent /\ SpecSurvives
    BY DEF RegistryInv, OneContent, Agrees, FileIsCurrent, SpecSurvives
  <2>. QED  BY <2>1, <2>2 DEF RegistryIsKept
<1>. QED  BY <1>1, RegistryBegins, RegistryStep, PTL DEF RegistrySpec

-----------------------------------------------------------------------------
(* Runs of one job.  A program makes what its job needs and publishes      *)
(* last; the invariant RowInv says of one request that what its job needs  *)
(* is made or still to be made as long as it is not published.             *)

Request == [kind: Kinds \cup {"none"}, task: DOMAIN Tasks \cup {"none"},
            at: {"new", "refused", "pays", "open", "answered", "failed"},
            max: Nat, shared: Nat, cap: Nat]

Texts == {"vertex", "path", "belongs", "dir", "message", "derive", "tell", "manifest", "event",
          "batch", "publish", "set", "count"}
Statements == Texts \X Roles
Message == [topic: {"", "single", "batch"}, max: Nat]

RunsTypeOK ==
  /\ request \in [Requests -> Request]
  /\ todo \in [Requests -> Seq(Statements)]
  /\ facts \in [Requests -> SUBSET Statements]
  /\ queued \in [Requests -> Message]
  /\ system \in [DOMAIN Tasks -> Seq(Nat)]
  /\ \A q \in Requests : request[q].shared # 0 =>
       request[q].task \in DOMAIN Tasks /\ request[q].shared \in DOMAIN system[request[q].task]

\* What a job of a kind needs before it is published.
NeededOf(kind) ==
  IF kind = "newSource" THEN {"belongs", "dir", "path"} \X {"R"}
  ELSE IF kind = "set" THEN {}
  ELSE {"vertex", "belongs", "path", "dir", "message", "event"} \X {"P"}
OfSet == {"dir", "path", "derive", "tell", "manifest"} \X {"S"}

SetMade == <<"vertex", "S">>
FileShown == <<"derive", "F">>
FileAdded == <<"set", "F">>

\* The statements hold what the job needs.
Enough(kind, done) == NeededOf(kind) \subseteq done /\ (SetMade \in done => OfSet \subseteq done)

Publishes(steps) == \E s \in steps : s[1] = "publish"
PublishLast(steps) == \A i \in DOMAIN steps : steps[i][1] = "publish" => i = Len(steps)
OfFile(steps) == \A s \in steps : s[2] = "F"

-----------------------------------------------------------------------------
(* What the programs consist of.                                           *)

\* A part of a program that makes these statements and publishes nothing; one
\* that publishes nothing or does so last.
Part(steps, made) == steps \in Seq(Statements) /\ ToSet(steps) = made /\ ~Publishes(made)
Ends(steps, made) == steps \in Seq(Statements) /\ ToSet(steps) = made /\ PublishLast(steps)

LEMMA DoIs ==
  ASSUME NEW role \in Roles, NEW steps \in Seq(Texts)
  PROVE  /\ Do(role, steps) \in Seq(Statements)
         /\ ToSet(Do(role, steps)) = ToSet(steps) \X {role}
         /\ "publish" \notin ToSet(steps) => Part(Do(role, steps), ToSet(steps) \X {role})
<1> DEFINE made == Do(role, steps)
<1>1. DOMAIN made = 1 .. Len(steps) /\ Len(steps) \in Nat
  BY DEF Do
<1>2. \A i \in 1 .. Len(steps) : made[i] = <<steps[i], role>> /\ steps[i] \in Texts
  BY DEF Do
<1>3. made \in [1 .. Len(steps) -> Statements]
  BY <1>1, <1>2 DEF Do, Statements
<1>4. made \in Seq(Statements)
  BY <1>1, <1>3, IsASeq
<1>5. DOMAIN steps = 1 .. Len(steps)
  OBVIOUS
<1>6. ToSet(made) = ToSet(steps) \X {role}
  <2> HIDE DEF made
  <2>1. ASSUME NEW i \in 1 .. Len(steps) PROVE made[i] \in ToSet(steps) \X {role}
    <3>1. steps[i] \in ToSet(steps)
      BY <1>5 DEF ToSet
    <3>2. made[i] = <<steps[i], role>>
      BY <1>2
    <3> QED
      BY <3>1, <3>2
  <2>2. ASSUME NEW i \in 1 .. Len(steps) PROVE <<steps[i], role>> \in ToSet(made)
    BY <1>1, <1>2 DEF ToSet
  <2>3. ToSet(made) \subseteq ToSet(steps) \X {role}
    BY <1>1, <2>1 DEF ToSet
  <2>4. ToSet(steps) \X {role} \subseteq ToSet(made)
    BY <1>5, <2>2 DEF ToSet
  <2> QED
    BY <2>3, <2>4
<1>7. "publish" \notin ToSet(steps) => ~Publishes(ToSet(made))
  BY <1>6 DEF Publishes
<1> QED
  BY <1>4, <1>6, <1>7 DEF Part

LEMMA JoinIs ==
  ASSUME NEW s \in Seq(Statements), NEW t \in Seq(Statements)
  PROVE  /\ s \o t \in Seq(Statements)
         /\ ToSet(s \o t) = ToSet(s) \cup ToSet(t)
         /\ ~Publishes(ToSet(s)) /\ PublishLast(t) => PublishLast(s \o t)
<1>1. /\ s \o t \in Seq(Statements) /\ Len(s \o t) = Len(s) + Len(t)
      /\ \A i \in 1 .. Len(s) + Len(t) : (s \o t)[i] = IF i <= Len(s) THEN s[i] ELSE t[i - Len(s)]
      /\ DOMAIN s = 1 .. Len(s) /\ DOMAIN t = 1 .. Len(t) /\ DOMAIN (s \o t) = 1 .. Len(s) + Len(t)
      /\ Len(s) \in Nat /\ Len(t) \in Nat
  OBVIOUS
<1>2. ToSet(s \o t) \subseteq ToSet(s) \cup ToSet(t)
  BY <1>1 DEF ToSet
<1>3. ToSet(s) \subseteq ToSet(s \o t)
  BY <1>1 DEF ToSet
<1>4. ToSet(t) \subseteq ToSet(s \o t)
  <2> SUFFICES ASSUME NEW j \in 1 .. Len(t) PROVE t[j] \in ToSet(s \o t)
    BY <1>1 DEF ToSet
  <2>1. j + Len(s) \in 1 .. Len(s) + Len(t) /\ (s \o t)[j + Len(s)] = t[j]
    BY <1>1
  <2> QED
    BY <1>1, <2>1 DEF ToSet
<1>5. ASSUME ~Publishes(ToSet(s)), PublishLast(t), NEW i \in DOMAIN (s \o t), (s \o t)[i][1] = "publish"
      PROVE  i = Len(s \o t)
  <2>1. ~(i <= Len(s))
    <3>1. ASSUME i <= Len(s) PROVE FALSE
      <4>1. i \in DOMAIN s /\ s[i][1] = "publish"
        BY <1>1, <1>5, <3>1
      <4> QED
        BY <1>5, <4>1 DEF Publishes, ToSet
    <3> QED
      BY <3>1
  <2>2. i - Len(s) \in 1 .. Len(t) /\ t[i - Len(s)][1] = "publish"
    BY <1>1, <1>5, <2>1
  <2>3. i - Len(s) = Len(t)
    BY <1>1, <1>5, <2>2 DEF PublishLast
  <2>4. i \in Nat
    BY <1>1
  <2> QED
    BY <1>1, <2>3, <2>4
<1> QED
  BY <1>1, <1>2, <1>3, <1>4, <1>5 DEF PublishLast

LEMMA PartsJoin ==
  ASSUME NEW s, NEW t, NEW S, NEW T, Part(s, S)
  PROVE  /\ Part(t, T) => Part(s \o t, S \cup T)
         /\ Ends(t, T) => Ends(s \o t, S \cup T)
         /\ Ends(s, S)
<1>1. ASSUME Part(t, T) PROVE Part(s \o t, S \cup T)
  BY <1>1, JoinIs DEF Part, Publishes
<1>2. ASSUME Ends(t, T) PROVE Ends(s \o t, S \cup T)
  BY <1>2, JoinIs DEF Part, Ends
<1>3. Ends(s, S)
  BY DEF Part, Ends, Publishes, PublishLast, ToSet
<1> QED
  BY <1>1, <1>2, <1>3

MadeP == {"vertex", "path", "belongs"} \X {"P"}
MadeDir == {"dir", "message"} \X {"P"}
MadeOutputSet == {"vertex", "dir", "path", "derive", "tell", "manifest"} \X {"S"}
MadeProcessSet == {"vertex", "dir", "path", "belongs", "derive", "tell", "manifest"} \X {"S"}

\* The parts: each makes the nodes, edges and directories its name says.
LEMMA PartsAre ==
  /\ Part(createProcess, MadeP)
  /\ Part(Do("P", <<"dir", "message">>), MadeDir)
  /\ Part(createManyToOneProcess, {"vertex", "dir", "path", "belongs"} \X {"P"})
  /\ Part(createOutputSet, MadeOutputSet)
  /\ Part(createProcessSet, MadeProcessSet)
  /\ Part(Do("P", <<"vertex", "belongs">>), {"vertex", "belongs"} \X {"P"})
  /\ Part(Do("P", <<"batch">>), {"batch"} \X {"P"})
  /\ Part(Do("P", <<"vertex", "belongs", "dir", "path", "message">>),
          {"vertex", "belongs", "dir", "path", "message"} \X {"P"})
  /\ Part(createSet, {"vertex", "belongs", "dir", "path", "manifest"} \X {"S"})
  /\ Part(Do("F", <<"vertex", "belongs", "path">>), {"vertex", "belongs", "path"} \X {"F"})
  /\ Part(Do("F", <<"set", "count">>), {"set", "count"} \X {"F"})
  /\ Part(<<>>, {})
<1> USE DEF Texts, Roles
<1>1. Part(createProcess, MadeP)
  <2>1. <<"vertex", "path", "belongs">> \in Seq(Texts) /\ ToSet(<<"vertex", "path", "belongs">>) = {"vertex", "path", "belongs"}
    BY DEF ToSet
  <2> QED
    BY <2>1, DoIs DEF createProcess, MadeP
<1>2. Part(Do("P", <<"dir", "message">>), MadeDir)
  <2>1. <<"dir", "message">> \in Seq(Texts) /\ ToSet(<<"dir", "message">>) = {"dir", "message"}
    BY DEF ToSet
  <2> QED
    BY <2>1, DoIs DEF MadeDir
<1>3. Part(createManyToOneProcess, {"vertex", "dir", "path", "belongs"} \X {"P"})
  <2>1. <<"vertex", "dir", "path", "belongs">> \in Seq(Texts) /\ ToSet(<<"vertex", "dir", "path", "belongs">>) = {"vertex", "dir", "path", "belongs"}
    BY DEF ToSet
  <2> QED
    BY <2>1, DoIs DEF createManyToOneProcess
<1>4. Part(createOutputSet, MadeOutputSet)
  <2>1. <<"vertex", "dir", "path", "derive", "tell", "manifest">> \in Seq(Texts) /\ ToSet(<<"vertex", "dir", "path", "derive", "tell", "manifest">>) = {"vertex", "dir", "path", "derive", "tell", "manifest"}
    BY DEF ToSet
  <2> QED
    BY <2>1, DoIs DEF createOutputSet, MadeOutputSet
<1>5. Part(createProcessSet, MadeProcessSet)
  <2>1. <<"vertex", "dir", "path", "belongs", "derive", "tell", "manifest">> \in Seq(Texts) /\ ToSet(<<"vertex", "dir", "path", "belongs", "derive", "tell", "manifest">>) = {"vertex", "dir", "path", "belongs", "derive", "tell", "manifest"}
    BY DEF ToSet
  <2> QED
    BY <2>1, DoIs DEF createProcessSet, MadeProcessSet
<1>6. Part(Do("P", <<"vertex", "belongs">>), {"vertex", "belongs"} \X {"P"})
  <2>1. <<"vertex", "belongs">> \in Seq(Texts) /\ ToSet(<<"vertex", "belongs">>) = {"vertex", "belongs"}
    BY DEF ToSet
  <2> QED
    BY <2>1, DoIs
<1>7. Part(Do("P", <<"batch">>), {"batch"} \X {"P"})
  <2>1. <<"batch">> \in Seq(Texts) /\ ToSet(<<"batch">>) = {"batch"}
    BY DEF ToSet
  <2> QED
    BY <2>1, DoIs
<1>8. Part(Do("P", <<"vertex", "belongs", "dir", "path", "message">>), {"vertex", "belongs", "dir", "path", "message"} \X {"P"})
  <2>1. <<"vertex", "belongs", "dir", "path", "message">> \in Seq(Texts) /\ ToSet(<<"vertex", "belongs", "dir", "path", "message">>) = {"vertex", "belongs", "dir", "path", "message"}
    BY DEF ToSet
  <2> QED
    BY <2>1, DoIs
<1>9. Part(createSet, {"vertex", "belongs", "dir", "path", "manifest"} \X {"S"})
  <2>1. <<"vertex", "belongs", "dir", "path", "manifest">> \in Seq(Texts) /\ ToSet(<<"vertex", "belongs", "dir", "path", "manifest">>) = {"vertex", "belongs", "dir", "path", "manifest"}
    BY DEF ToSet
  <2> QED
    BY <2>1, DoIs DEF createSet
<1>10. Part(Do("F", <<"vertex", "belongs", "path">>), {"vertex", "belongs", "path"} \X {"F"})
  <2>1. <<"vertex", "belongs", "path">> \in Seq(Texts) /\ ToSet(<<"vertex", "belongs", "path">>) = {"vertex", "belongs", "path"}
    BY DEF ToSet
  <2> QED
    BY <2>1, DoIs
<1>11. Part(Do("F", <<"set", "count">>), {"set", "count"} \X {"F"})
  <2>1. <<"set", "count">> \in Seq(Texts) /\ ToSet(<<"set", "count">>) = {"set", "count"}
    BY DEF ToSet
  <2> QED
    BY <2>1, DoIs
<1>12. Part(<<>>, {})
  BY DEF Part, ToSet, Publishes
<1> QED
  BY <1>1, <1>2, <1>3, <1>4, <1>5, <1>6, <1>7, <1>8, <1>9, <1>10, <1>11, <1>12

LEMMA EndsAre ==
  /\ Ends(Announce, {"event", "publish"} \X {"P"})
  /\ Ends(Do("P", <<"batch", "event", "message", "publish">>), {"batch", "event", "message", "publish"} \X {"P"})
  /\ Ends(createSource, {"vertex", "belongs", "dir", "path", "publish"} \X {"R"})
<1> USE DEF Texts, Roles
<1>1. Ends(Announce, {"event", "publish"} \X {"P"})
  <2>1. <<"event", "publish">> \in Seq(Texts) /\ ToSet(<<"event", "publish">>) = {"event", "publish"}
    BY DEF ToSet
  <2>2. PublishLast(Announce)
    BY DEF PublishLast, Announce, Do
  <2> QED
    BY <2>1, <2>2, DoIs DEF Announce, Ends
<1>2. Ends(Do("P", <<"batch", "event", "message", "publish">>), {"batch", "event", "message", "publish"} \X {"P"})
  <2>1. /\ <<"batch", "event", "message", "publish">> \in Seq(Texts)
        /\ ToSet(<<"batch", "event", "message", "publish">>) = {"batch", "event", "message", "publish"}
    BY DEF ToSet
  <2>2. PublishLast(Do("P", <<"batch", "event", "message", "publish">>))
    BY DEF PublishLast, Do
  <2> QED
    BY <2>1, <2>2, DoIs DEF Ends
<1>3. Ends(createSource, {"vertex", "belongs", "dir", "path", "publish"} \X {"R"})
  <2>1. /\ <<"vertex", "belongs", "dir", "path", "publish">> \in Seq(Texts)
        /\ ToSet(<<"vertex", "belongs", "dir", "path", "publish">>) = {"vertex", "belongs", "dir", "path", "publish"}
    BY DEF ToSet
  <2>2. PublishLast(createSource)
    BY DEF PublishLast, createSource, Do
  <2> QED
    BY <2>1, <2>2, DoIs DEF createSource, Ends
<1> QED
  BY <1>1, <1>2, <1>3

\* A program publishes last, after all that its job needs.
ProgramRight(kind, steps) ==
  /\ steps \in Seq(Statements) /\ PublishLast(steps)
  /\ Publishes(ToSet(steps)) => Enough(kind, ToSet(steps)) /\ kind \notin {"newSet", "upload"}
  /\ FileShown \notin ToSet(steps)

LEMMA FileRight ==
  ASSUME NEW t \in DOMAIN Tasks
  PROVE  ProgramRight("file", queueFile(t))
<1> DEFINE outputs == IF behaviourOf(t) = "one-to-many" THEN createOutputSet ELSE <<>>
           indexed == IF isSearchOutputTask(t) THEN createProcessSet ELSE <<>>
<1>1. PICK S : Part(outputs, S) /\ S \in {{}, MadeOutputSet}
  BY PartsAre
<1>2. PICK T : Part(indexed, T) /\ T \in {{}, MadeProcessSet}
  BY PartsAre
<1> HIDE DEF outputs, indexed
<1>3. Part(createProcess \o Do("P", <<"dir", "message">>), MadeP \cup MadeDir)
  BY PartsAre, PartsJoin
<1>4. Part((createProcess \o Do("P", <<"dir", "message">>)) \o outputs, (MadeP \cup MadeDir) \cup S)
  BY <1>1, <1>3, PartsJoin
<1>5. Part(((createProcess \o Do("P", <<"dir", "message">>)) \o outputs) \o indexed,
           ((MadeP \cup MadeDir) \cup S) \cup T)
  BY <1>2, <1>4, PartsJoin
<1>6. Ends((((createProcess \o Do("P", <<"dir", "message">>)) \o outputs) \o indexed) \o Announce,
           (((MadeP \cup MadeDir) \cup S) \cup T) \cup ({"event", "publish"} \X {"P"}))
  BY <1>5, EndsAre, PartsJoin
<1>7. Ends(queueFile(t), (((MadeP \cup MadeDir) \cup S) \cup T) \cup ({"event", "publish"} \X {"P"}))
  BY <1>6 DEF queueFile, outputs, indexed
<1> QED
  BY <1>1, <1>2, <1>7 DEF Ends, ProgramRight, Enough, NeededOf, OfSet, MadeP, MadeDir, MadeOutputSet, MadeProcessSet,
     SetMade, FileShown

LEMMA WholeRight ==
  ASSUME NEW t \in DOMAIN Tasks
  PROVE  ProgramRight("whole", dispatchWholeSet(t))
<1>1. CASE Tasks[t].outputFile
  <2>1. Part(createProcess \o Do("P", <<"dir", "message">>), MadeP \cup MadeDir)
    BY PartsAre, PartsJoin
  <2>2. Ends((createProcess \o Do("P", <<"dir", "message">>)) \o Announce,
             (MadeP \cup MadeDir) \cup ({"event", "publish"} \X {"P"}))
    BY <2>1, EndsAre, PartsJoin
  <2>3. Ends(dispatchWholeSet(t), (MadeP \cup MadeDir) \cup ({"event", "publish"} \X {"P"}))
    BY <1>1, <2>2 DEF dispatchWholeSet
  <2> QED
    BY <2>3 DEF Ends, ProgramRight, Enough, NeededOf, OfSet, MadeP, MadeDir, SetMade, FileShown
<1>2. CASE ~Tasks[t].outputFile
  <2> DEFINE made == (({"vertex", "dir", "path", "belongs"} \X {"P"}) \cup MadeProcessSet)
                       \cup ({"batch", "event", "message", "publish"} \X {"P"})
  <2>1. Part(createManyToOneProcess \o createProcessSet,
             ({"vertex", "dir", "path", "belongs"} \X {"P"}) \cup MadeProcessSet)
    BY PartsAre, PartsJoin
  <2>2. Ends((createManyToOneProcess \o createProcessSet) \o Do("P", <<"batch", "event", "message", "publish">>), made)
    BY <2>1, EndsAre, PartsJoin
  <2>3. Ends(dispatchWholeSet(t), made)
    BY <1>2, <2>2 DEF dispatchWholeSet
  <2> QED
    BY <2>3 DEF Ends, ProgramRight, Enough, NeededOf, OfSet, MadeProcessSet, SetMade, FileShown
<1> QED
  BY <1>1, <1>2

LEMMA OthersRight ==
  /\ ProgramRight("set", queueSet)
  /\ ProgramRight("source", queueSource)
  /\ ProgramRight("newSource", createSource)
  /\ ProgramRight("newSet", createSet)
<1>1. ProgramRight("set", queueSet)
  <2>1. Part(createSetProcessWithOutput, ({"vertex", "belongs"} \X {"P"}) \cup MadeOutputSet)
    BY PartsAre, PartsJoin DEF createSetProcessWithOutput
  <2>2. Part(createSetProcessWithOutput \o Do("P", <<"batch">>),
             (({"vertex", "belongs"} \X {"P"}) \cup MadeOutputSet) \cup ({"batch"} \X {"P"}))
    BY <2>1, PartsAre, PartsJoin
  <2>3. Ends(queueSet, ((({"vertex", "belongs"} \X {"P"}) \cup MadeOutputSet) \cup ({"batch"} \X {"P"}))
                          \cup ({"event", "publish"} \X {"P"}))
    BY <2>2, EndsAre, PartsJoin DEF queueSet
  <2> QED
    BY <2>3 DEF Ends, ProgramRight, Enough, NeededOf, OfSet, MadeOutputSet, SetMade, FileShown
<1>2. ProgramRight("source", queueSource)
  <2>1. Part(Do("P", <<"vertex", "belongs", "dir", "path", "message">>) \o createOutputSet,
             ({"vertex", "belongs", "dir", "path", "message"} \X {"P"}) \cup MadeOutputSet)
    BY PartsAre, PartsJoin
  <2>2. Ends(queueSource, (({"vertex", "belongs", "dir", "path", "message"} \X {"P"}) \cup MadeOutputSet)
                          \cup ({"event", "publish"} \X {"P"}))
    BY <2>1, EndsAre, PartsJoin DEF queueSource
  <2> QED
    BY <2>2 DEF Ends, ProgramRight, Enough, NeededOf, OfSet, MadeOutputSet, SetMade, FileShown
<1>3. ProgramRight("newSource", createSource)
  BY EndsAre DEF Ends, ProgramRight, Enough, NeededOf, OfSet, SetMade, FileShown
<1>4. ProgramRight("newSet", createSet)
  <2>1. Ends(createSet, {"vertex", "belongs", "dir", "path", "manifest"} \X {"S"})
    BY PartsAre, PartsJoin
  <2> QED
    BY <2>1 DEF Ends, ProgramRight, Publishes, FileShown
<1> QED
  BY <1>1, <1>2, <1>3, <1>4

LEMMA UploadRight ==
  ASSUME NEW inSet \in BOOLEAN
  PROVE  ProgramRight("upload", createOriginalFile(inSet))
<1>1. PICK S : /\ Part(IF inSet THEN Do("F", <<"set", "count">>) ELSE <<>>, S)
               /\ S \in {{}, {"set", "count"} \X {"F"}}
  BY PartsAre
<1>2. Ends(createOriginalFile(inSet), ({"vertex", "belongs", "path"} \X {"F"}) \cup S)
  BY <1>1, PartsAre, PartsJoin DEF createOriginalFile
<1> QED
  BY <1>1, <1>2 DEF Ends, ProgramRight, Publishes, FileShown

\* Whatever a request makes, its job is published after it.
LEMMA ProgramsRight ==
  ASSUME NEW kind \in Kinds, NEW t \in DOMAIN Tasks \cup {"none"},
         t = "none" => kind \notin {"file", "whole"}
  PROVE  ProgramRight(kind, Program(kind, t))
<1>1. CASE kind = "file"
  BY <1>1, FileRight DEF Program
<1>2. CASE kind = "whole"
  BY <1>2, WholeRight DEF Program
<1>3. CASE kind = "set"
  BY <1>3, OthersRight DEF Program
<1>4. CASE kind = "source"
  BY <1>4, OthersRight DEF Program
<1>5. CASE kind = "newSource"
  BY <1>5, OthersRight DEF Program
<1>6. CASE kind = "newSet"
  BY <1>6, OthersRight DEF Program
<1>7. CASE kind = "upload"
  BY <1>7, UploadRight DEF Program
<1> QED
  BY <1>1, <1>2, <1>3, <1>4, <1>5, <1>6, <1>7 DEF Kinds

\* What a result makes is a file; in a set it is a member before it is shown.
FileRightly(steps, inSet) ==
  /\ steps \in Seq(Statements) /\ ~Publishes(ToSet(steps)) /\ OfFile(ToSet(steps))
  /\ inSet => \A i \in DOMAIN steps : steps[i] = FileShown => \E j \in 1 .. i - 1 : steps[j] = FileAdded

LEMMA OutputRight ==
  ASSUME NEW inSet \in BOOLEAN
  PROVE  FileRightly(createProcessFile(inSet), inSet)
<1> DEFINE made == Do("F", <<"vertex", "path">>)
           member == Do("F", <<"set">>)
           edge == Do("F", <<"derive", "tell">>)
<1>1. Part(made, {"vertex", "path"} \X {"F"})
  <2>1. <<"vertex", "path">> \in Seq(Texts) /\ ToSet(<<"vertex", "path">>) = {"vertex", "path"}
    BY DEF ToSet, Texts
  <2> QED
    BY <2>1, DoIs DEF Roles
<1>2. Part(member, {"set"} \X {"F"})
  <2>1. <<"set">> \in Seq(Texts) /\ ToSet(<<"set">>) = {"set"}
    BY DEF ToSet, Texts
  <2> QED
    BY <2>1, DoIs DEF Roles
<1>3. Part(edge, {"derive", "tell"} \X {"F"})
  <2>1. <<"derive", "tell">> \in Seq(Texts) /\ ToSet(<<"derive", "tell">>) = {"derive", "tell"}
    BY DEF ToSet, Texts
  <2> QED
    BY <2>1, DoIs DEF Roles
<1>4. /\ Len(made) = 2 /\ made[1] = <<"vertex", "F">> /\ made[2] = <<"path", "F">>
      /\ Len(member) = 1 /\ member[1] = FileAdded
      /\ Len(edge) = 2 /\ edge[1] = FileShown /\ edge[2] = <<"tell", "F">>
  BY DEF Do, FileAdded, FileShown
<1> HIDE DEF made, member, edge
<1>5. CASE inSet
  <2>1. Part((made \o member) \o edge, (({"vertex", "path"} \X {"F"}) \cup ({"set"} \X {"F"}))
                                          \cup ({"derive", "tell"} \X {"F"}))
    BY <1>1, <1>2, <1>3, PartsJoin
  <2>2. createProcessFile(inSet) = (made \o member) \o edge
    BY <1>5 DEF createProcessFile, made, member, edge
  <2>3. /\ made \in Seq(Statements) /\ member \in Seq(Statements) /\ edge \in Seq(Statements)
    BY <1>1, <1>2, <1>3 DEF Part
  <2>4. /\ made \o member \in Seq(Statements) /\ Len(made \o member) = 3
        /\ (made \o member)[1] = <<"vertex", "F">> /\ (made \o member)[2] = <<"path", "F">>
        /\ (made \o member)[3] = FileAdded
    <3>1. /\ made \o member \in Seq(Statements) /\ Len(made \o member) = Len(made) + Len(member)
          /\ \A i \in 1 .. Len(made) + Len(member) :
               (made \o member)[i] = IF i <= Len(made) THEN made[i] ELSE member[i - Len(made)]
      BY <2>3, ConcatProperties
    <3> HIDE DEF FileAdded
    <3> QED
      BY <1>4, <3>1
  <2>5. /\ DOMAIN ((made \o member) \o edge) = 1 .. 5
        /\ ((made \o member) \o edge)[1] = <<"vertex", "F">> /\ ((made \o member) \o edge)[2] = <<"path", "F">>
        /\ ((made \o member) \o edge)[3] = FileAdded
    <3>1. PICK front : front = made \o member
      OBVIOUS
    <3>2. /\ front \o edge \in Seq(Statements) /\ Len(front \o edge) = Len(front) + Len(edge)
          /\ \A i \in 1 .. Len(front) + Len(edge) :
               (front \o edge)[i] = IF i <= Len(front) THEN front[i] ELSE edge[i - Len(front)]
      BY <2>3, <2>4, <3>1, ConcatProperties
    <3>3. DOMAIN (front \o edge) = 1 .. 5 /\ (front \o edge)[1] = front[1] /\ (front \o edge)[2] = front[2]
            /\ (front \o edge)[3] = front[3]
      BY <1>4, <2>4, <3>1, <3>2
    <3> QED
      BY <2>4, <3>1, <3>3
  <2>6. ASSUME NEW i \in DOMAIN ((made \o member) \o edge), ((made \o member) \o edge)[i] = FileShown
        PROVE  3 \in 1 .. i - 1
    BY <2>5, <2>6 DEF FileShown, FileAdded
  <2>7. OfFile((({"vertex", "path"} \X {"F"}) \cup ({"set"} \X {"F"})) \cup ({"derive", "tell"} \X {"F"}))
    BY DEF OfFile
  <2>8. \A i \in DOMAIN createProcessFile(inSet) : createProcessFile(inSet)[i] = FileShown =>
          \E j \in 1 .. i - 1 : createProcessFile(inSet)[j] = FileAdded
    BY <2>2, <2>5, <2>6
  <2> QED
    BY <2>1, <2>2, <2>7, <2>8 DEF FileRightly, Part
<1>6. CASE ~inSet
  <2>1. Part((made \o <<>>) \o edge, (({"vertex", "path"} \X {"F"}) \cup {}) \cup ({"derive", "tell"} \X {"F"}))
    BY <1>1, <1>3, PartsAre, PartsJoin
  <2>2. createProcessFile(inSet) = (made \o <<>>) \o edge
    BY <1>6 DEF createProcessFile, made, edge
  <2>3. OfFile((({"vertex", "path"} \X {"F"}) \cup {}) \cup ({"derive", "tell"} \X {"F"}))
    BY DEF OfFile
  <2> QED
    BY <1>6, <2>1, <2>2, <2>3 DEF FileRightly, Part
<1> QED
  BY <1>5, <1>6

-----------------------------------------------------------------------------
(* A request.                                                              *)

\* A request r with these statements left, these done and this message sent.
RowInv(r, steps, done, sent) ==
  /\ r.at \in {"new", "refused", "answered", "failed"} => steps = <<>>
  /\ r.at = "new" => done = {}
  /\ r.at \in {"new", "pays"} => sent = Unpublished
  /\ PublishLast(steps)
  /\ Publishes(ToSet(steps)) =>
       /\ sent = Unpublished /\ r.kind \notin {"newSet", "upload"}
       /\ Enough(r.kind, done \cup ToSet(steps))
  /\ sent # Unpublished => Enough(r.kind, done) /\ OfFile(ToSet(steps)) /\ r.kind \notin {"newSet", "upload"}
  /\ FileShown \in done \cup ToSet(steps) => SetMade \notin ToSet(steps)
  /\ SetMade \in done =>
       /\ FileShown \in done => FileAdded \in done
       /\ \A i \in DOMAIN steps : steps[i] = FileShown =>
            FileAdded \in done \/ \E j \in 1 .. i - 1 : steps[j] = FileAdded

CapInv ==
  \A q \in Requests :
    /\ request[q].at = "pays" => request[q].cap = 0
    /\ request[q].cap # 0 => /\ MaxOf(q) \in 1 .. request[q].cap
                             /\ queued[q] # Unpublished => queued[q].max \in 1 .. request[q].cap

RunsInv ==
  /\ RunsTypeOK
  /\ \A q \in Requests : RowInv(request[q], todo[q], facts[q], queued[q])
  /\ CapInv

LEMMA TailIs ==
  ASSUME NEW steps \in Seq(Statements), steps # <<>>
  PROVE  /\ Head(steps) \in Statements /\ Tail(steps) \in Seq(Statements)
         /\ 1 \in DOMAIN steps /\ Head(steps) = steps[1]
         /\ ToSet(steps) = {Head(steps)} \cup ToSet(Tail(steps))
         /\ \A i \in DOMAIN Tail(steps) : i + 1 \in DOMAIN steps /\ Tail(steps)[i] = steps[i + 1] /\ i \in Nat \ {0}
         /\ Len(Tail(steps)) = Len(steps) - 1 /\ Len(steps) \in Nat \ {0}
         /\ DOMAIN steps = 1 .. Len(steps) /\ DOMAIN Tail(steps) = 1 .. Len(steps) - 1
         /\ \A i \in DOMAIN steps : i # 1 => i - 1 \in DOMAIN Tail(steps) /\ Tail(steps)[i - 1] = steps[i]
<1>1. /\ Head(steps) \in Statements /\ Tail(steps) \in Seq(Statements)
      /\ 1 \in DOMAIN steps /\ Head(steps) = steps[1]
      /\ Len(Tail(steps)) = Len(steps) - 1 /\ Len(steps) \in Nat \ {0}
      /\ DOMAIN steps = 1 .. Len(steps) /\ DOMAIN Tail(steps) = 1 .. Len(steps) - 1
  OBVIOUS
<1>2. \A i \in DOMAIN Tail(steps) : i + 1 \in DOMAIN steps /\ Tail(steps)[i] = steps[i + 1] /\ i \in Nat \ {0}
  BY <1>1
<1>3. \A i \in DOMAIN steps : i # 1 => i - 1 \in DOMAIN Tail(steps) /\ Tail(steps)[i - 1] = steps[i]
  BY <1>1
<1>4. ToSet(steps) \subseteq {Head(steps)} \cup ToSet(Tail(steps))
  <2> SUFFICES ASSUME NEW i \in DOMAIN steps, i # 1 PROVE steps[i] \in ToSet(Tail(steps))
    BY <1>1 DEF ToSet
  <2>1. i - 1 \in DOMAIN Tail(steps) /\ Tail(steps)[i - 1] = steps[i]
    BY <1>3
  <2> QED
    BY <2>1 DEF ToSet
<1>5. {Head(steps)} \cup ToSet(Tail(steps)) \subseteq ToSet(steps)
  BY <1>1, <1>2 DEF ToSet
<1> QED
  BY <1>1, <1>2, <1>3, <1>4, <1>5

\* The next statement is done.
LEMMA RowDoes ==
  ASSUME NEW r, NEW steps \in Seq(Statements), NEW done, NEW sent, RowInv(r, steps, done, sent), r.at = "open",
         steps # <<>>, Head(steps)[1] # "publish"
  PROVE  RowInv(r, Tail(steps), done \cup {Head(steps)}, sent)
<1> DEFINE rest == Tail(steps)
           now == done \cup {Head(steps)}
<1>1. /\ rest \in Seq(Statements) /\ 1 \in DOMAIN steps /\ Head(steps) = steps[1]
      /\ ToSet(steps) = {Head(steps)} \cup ToSet(rest)
      /\ Len(rest) = Len(steps) - 1 /\ Len(steps) \in Nat \ {0}
      /\ DOMAIN steps = 1 .. Len(steps) /\ DOMAIN rest = 1 .. Len(steps) - 1
  BY TailIs
<1>2. \A i \in DOMAIN rest : i + 1 \in DOMAIN steps /\ rest[i] = steps[i + 1] /\ i \in Nat \ {0}
  BY TailIs
<1>3. \A i \in DOMAIN steps : i # 1 => i - 1 \in DOMAIN rest /\ rest[i - 1] = steps[i]
  BY TailIs
<1>4. now \cup ToSet(rest) = done \cup ToSet(steps)
  BY <1>1
<1> HIDE DEF rest
<1>5. PublishLast(rest)
  BY <1>1, <1>2 DEF RowInv, PublishLast
<1>6. Publishes(ToSet(rest)) => Publishes(ToSet(steps))
  BY <1>1 DEF Publishes
<1>7. ASSUME sent # Unpublished PROVE Enough(r.kind, now) /\ OfFile(ToSet(rest))
  <2>1. OfFile(ToSet(steps)) /\ Enough(r.kind, done)
    BY <1>7 DEF RowInv
  <2>2. Head(steps) # SetMade /\ OfFile(ToSet(rest))
    BY <1>1, <2>1 DEF OfFile, SetMade
  <2> QED
    BY <2>1, <2>2 DEF Enough
<1>8. FileShown \in now \cup ToSet(rest) => SetMade \notin ToSet(rest)
  BY <1>1, <1>4 DEF RowInv
<1>9. ASSUME SetMade \in now
      PROVE  /\ FileShown \in now => FileAdded \in now
             /\ \A i \in DOMAIN rest : rest[i] = FileShown =>
                  FileAdded \in now \/ \E j \in 1 .. i - 1 : rest[j] = FileAdded
  <2>1. CASE Head(steps) = SetMade
    <3>1. FileShown \notin done \cup ToSet(steps)
      BY <1>1, <2>1 DEF RowInv
    <3>2. \A i \in DOMAIN rest : rest[i] \in ToSet(rest)
      BY DEF ToSet
    <3> QED
      BY <1>4, <3>1, <3>2
  <2>2. CASE Head(steps) # SetMade
    <3>1. /\ FileShown \in done => FileAdded \in done
          /\ \A i \in DOMAIN steps : steps[i] = FileShown =>
               FileAdded \in done \/ \E j \in 1 .. i - 1 : steps[j] = FileAdded
      BY <1>9, <2>2 DEF RowInv
    <3>2. FileShown \in now => FileAdded \in now
      BY <1>1, <3>1
    <3>3. ASSUME NEW i \in DOMAIN rest, rest[i] = FileShown, FileAdded \notin now
          PROVE  \E j \in 1 .. i - 1 : rest[j] = FileAdded
      <4>1. i \in Nat \ {0} /\ i <= Len(steps) - 1 /\ i + 1 \in DOMAIN steps /\ steps[i + 1] = FileShown
        BY <1>1, <1>2, <3>3
      <4>2. PICK j \in 1 .. (i + 1) - 1 : steps[j] = FileAdded
        BY <3>1, <3>3, <4>1
      <4>3. j # 1 /\ j \in DOMAIN steps
        BY <1>1, <3>3, <4>1, <4>2
      <4>4. j - 1 \in 1 .. i - 1 /\ rest[j - 1] = FileAdded
        BY <1>3, <4>1, <4>2, <4>3
      <4> QED
        BY <4>4
    <3> QED
      BY <3>2, <3>3
  <2> QED
    BY <2>1, <2>2
<1>10. Publishes(ToSet(rest)) => sent = Unpublished /\ r.kind \notin {"newSet", "upload"}
                                  /\ Enough(r.kind, now \cup ToSet(rest))
  BY <1>4, <1>6 DEF RowInv
<1>11. sent # Unpublished => r.kind \notin {"newSet", "upload"}
  BY DEF RowInv
<1> QED
  BY <1>5, <1>7, <1>8, <1>9, <1>10, <1>11 DEF RowInv, rest

\* The job is published, or that fails.
LEMMA RowPublishes ==
  ASSUME NEW r, NEW steps \in Seq(Statements), NEW done, NEW sent, RowInv(r, steps, done, sent), r.at = "open",
         steps # <<>>, Head(steps)[1] = "publish", NEW now
  PROVE  RowInv(r, Tail(steps), done, now) /\ sent = Unpublished
<1>1. /\ 1 \in DOMAIN steps /\ Head(steps) = steps[1] /\ Tail(steps) \in Seq(Statements)
      /\ ToSet(steps) = {Head(steps)} \cup ToSet(Tail(steps))
      /\ Len(Tail(steps)) = Len(steps) - 1 /\ Len(steps) \in Nat \ {0}
  BY TailIs
<1>2. Len(steps) = 1
  BY <1>1 DEF RowInv, PublishLast
<1>3. Tail(steps) = <<>>
  <2>1. \A s \in Seq(Statements) : s # <<>> => Len(s) \in Nat \ {0}
    BY EmptySeq
  <2>2. Len(Tail(steps)) = 0
    BY <1>1, <1>2
  <2> QED
    BY <1>1, <2>1, <2>2
<1>4. ToSet(Tail(steps)) = {} /\ ToSet(steps) = {Head(steps)}
  BY <1>1, <1>3 DEF ToSet
<1>5. /\ sent = Unpublished /\ r.kind \notin {"newSet", "upload"} /\ Enough(r.kind, done \cup {Head(steps)})
  BY <1>4 DEF RowInv, Publishes
<1>6. Enough(r.kind, done)
  <2>1. Head(steps) \notin NeededOf(r.kind) /\ Head(steps) \notin OfSet /\ Head(steps) # SetMade
    BY DEF NeededOf, OfSet, SetMade
  <2> QED
    BY <1>5, <2>1 DEF Enough
<1>7. ~Publishes({}) /\ OfFile({}) /\ PublishLast(<<>>)
  BY DEF Publishes, OfFile, PublishLast
<1>8. SetMade \in done /\ FileShown \in done => FileAdded \in done
  BY DEF RowInv
<1>9. ToSet(<<>>) = {} /\ DOMAIN <<>> = {}
  BY DEF ToSet
<1> QED
  BY <1>3, <1>5, <1>6, <1>7, <1>8, <1>9 DEF RowInv

\* A result comes once the request is answered.
LEMMA RowResults ==
  ASSUME NEW r, NEW done, NEW sent, RowInv(r, <<>>, done, sent), sent # Unpublished, NEW now, NEW steps,
         FileRightly(steps, SetMade \in done), now.kind = r.kind, now.at = "open",
         \A step \in done : step[2] # "F"
  PROVE  RowInv(now, steps, done, sent)
<1>1. \A i \in DOMAIN steps : steps[i] \in ToSet(steps)
  BY DEF ToSet
<1>2. PublishLast(steps)
  BY <1>1 DEF FileRightly, Publishes, PublishLast
<1>3. FileShown \notin done /\ SetMade \notin ToSet(steps)
  BY DEF FileRightly, OfFile, FileShown, SetMade
<1>4. Enough(r.kind, done) /\ r.kind \notin {"newSet", "upload"}
  BY DEF RowInv
<1>5. SetMade \in done => \A i \in DOMAIN steps : steps[i] = FileShown => \E j \in 1 .. i - 1 : steps[j] = FileAdded
  BY DEF FileRightly
<1> QED
  BY <1>2, <1>3, <1>4, <1>5 DEF RowInv, FileRightly

\* The rest is not done, or nothing is left.
LEMMA RowStops ==
  ASSUME NEW r, NEW steps, NEW done, NEW sent, RowInv(r, steps, done, sent), NEW now,
         now.at \in {"refused", "answered", "failed"}, now.kind = r.kind
  PROVE  RowInv(now, <<>>, done, sent)
<1>1. ToSet(<<>>) = {} /\ DOMAIN <<>> = {}
  BY DEF ToSet
<1>2. ~Publishes({}) /\ OfFile({}) /\ PublishLast(<<>>)
  BY DEF Publishes, OfFile, PublishLast
<1>3. SetMade \in done /\ FileShown \in done => FileAdded \in done
  BY DEF RowInv
<1>4. sent # Unpublished => Enough(r.kind, done) /\ r.kind \notin {"newSet", "upload"}
  BY DEF RowInv
<1> QED
  BY <1>1, <1>2, <1>3, <1>4 DEF RowInv

LEMMA RowBegins ==
  ASSUME NEW r, NEW steps, ProgramRight(r.kind, steps), r.at \in {"pays", "open"}
  PROVE  RowInv(r, steps, {}, Unpublished)
<1>1. {} \cup ToSet(steps) = ToSet(steps)
  OBVIOUS
<1> QED
  BY <1>1 DEF RowInv, ProgramRight

-----------------------------------------------------------------------------
(* The steps.                                                              *)

LEMMA MaxTyped ==
  ASSUME RunsTypeOK, NEW q \in Requests
  PROVE  MaxOf(q) \in Nat
<1>1. request[q] \in Request
  BY DEF RunsTypeOK
<1>2. CASE request[q].shared = 0
  BY <1>1, <1>2 DEF MaxOf, Request
<1>3. CASE request[q].shared # 0
  <2>1. /\ request[q].task \in DOMAIN Tasks /\ request[q].shared \in DOMAIN system[request[q].task]
        /\ system[request[q].task] \in Seq(Nat)
    BY <1>3 DEF RunsTypeOK
  <2>2. \A s \in Seq(Nat) : \A i \in DOMAIN s : s[i] \in Nat
    OBVIOUS
  <2> QED
    BY <1>3, <2>1, <2>2 DEF MaxOf
<1> QED
  BY <1>2, <1>3

LEMMA RunsBegin == RunsInit => RunsInv
<1> SUFFICES ASSUME RunsInit PROVE RunsInv
  OBVIOUS
<1>1. RunsTypeOK
  <2>1. NewRequest \in Request
    BY DEF NewRequest, Request
  <2>2. \A t \in DOMAIN Tasks : <<Tasks[t].system>> \in Seq(Nat)
    BY RunConstants
  <2>3. NewRequest.shared = 0 /\ Unpublished \in Message
    BY DEF NewRequest, Unpublished, Message
  <2> QED
    BY <2>1, <2>2, <2>3 DEF RunsInit, RunsTypeOK
<1>2. ASSUME NEW q \in Requests PROVE RowInv(request[q], todo[q], facts[q], queued[q])
  <2>1. request[q] = NewRequest /\ todo[q] = <<>> /\ facts[q] = {} /\ queued[q] = Unpublished
    BY DEF RunsInit
  <2>2. ToSet(<<>>) = {} /\ DOMAIN <<>> = {} /\ ~Publishes({}) /\ PublishLast(<<>>)
    BY DEF ToSet, Publishes, PublishLast
  <2> QED
    BY <2>1, <2>2 DEF RowInv
<1>3. CapInv
  BY DEF RunsInit, CapInv, NewRequest
<1> QED
  BY <1>1, <1>2, <1>3 DEF RunsInv

LEMMA BeginKeeps ==
  ASSUME RunsInv, NEW q \in Requests, NEW kind \in Kinds, NEW t \in DOMAIN Tasks \cup {"none"},
         NEW asked \in AskedMax, begin(q, kind, t, asked)
  PROVE  RunsInv'
<1>1. /\ request[q].at = "new"
      /\ t = "none" => kind \notin {"file", "whole"}
      /\ UNCHANGED <<facts, system, queued>>
  BY DEF begin
<1>2. RowInv(request[q], todo[q], facts[q], queued[q]) /\ RunsTypeOK
  BY DEF RunsInv
<1>3. facts[q] = {} /\ queued[q] = Unpublished /\ todo[q] = <<>>
  BY <1>1, <1>2 DEF RowInv
<1>4. asked \in Nat
  BY RunConstants
<1>5. request[q] \in Request /\ \A p \in Requests : request[p] \in Request
  BY <1>2 DEF RunsTypeOK
<1>6. CASE ~Accepted(kind, t)
  <2>1. request' = [request EXCEPT ![q].at = "refused"] /\ todo' = todo
    BY <1>6 DEF begin
  <2>2. /\ request'[q].at = "refused" /\ request'[q].kind = request[q].kind /\ request'[q].cap = request[q].cap
        /\ request'[q].shared = request[q].shared /\ request'[q].task = request[q].task
        /\ request'[q].max = request[q].max /\ request'[q] \in Request
    BY <1>2, <1>5, <2>1 DEF RunsTypeOK, Request
  <2>3. \A p \in Requests : p # q => request'[p] = request[p]
    BY <1>2, <2>1 DEF RunsTypeOK
  <2>4. RunsTypeOK'
    BY <1>1, <1>2, <2>1, <2>2, <2>3 DEF RunsTypeOK
  <2>5. RowInv(request'[q], <<>>, facts[q], queued[q])
    BY <1>2, <2>2, RowStops
  <2>6. \A p \in Requests : RowInv(request'[p], todo'[p], facts'[p], queued'[p])
    BY <1>1, <1>3, <2>1, <2>3, <2>5 DEF RunsInv
  <2>7. CapInv'
    BY <1>1, <1>3, <2>2, <2>3 DEF RunsInv, CapInv, MaxOf
  <2> QED
    BY <2>4, <2>6, <2>7 DEF RunsInv
<1>7. CASE Accepted(kind, t)
  <2>1. PICK task : task = IF kind \in {"file", "whole"} THEN prepareTask(t, asked, kind = "file")
                           ELSE [shared |-> 0, max |-> 0]
    OBVIOUS
  <2>2. PICK r : r = [NewRequest EXCEPT !.kind = kind, !.task = t, !.max = task.max, !.shared = task.shared,
                        !.at = IF kind \in {"file", "whole"} THEN "pays" ELSE "open"]
    OBVIOUS
  <2>3. request' = [request EXCEPT ![q] = r] /\ todo' = [todo EXCEPT ![q] = Program(kind, t)]
    BY <1>7, <2>1, <2>2 DEF begin
  <2>4. /\ task.max \in Nat /\ task.shared \in Nat
        /\ task.shared # 0 => t \in DOMAIN Tasks /\ task.shared \in DOMAIN system[t]
    <3>1. CASE kind \in {"file", "whole"}
      <4>1. t \in DOMAIN Tasks /\ system[t] \in Seq(Nat)
        BY <1>1, <1>2, <3>1 DEF RunsTypeOK
      <4>2. Len(system[t]) \in Nat /\ DOMAIN system[t] = 1 .. Len(system[t])
        BY <4>1
      <4> QED
        BY <1>4, <2>1, <3>1, <4>1, <4>2 DEF prepareTask
    <3>2. CASE kind \notin {"file", "whole"}
      BY <2>1, <3>2
    <3> QED
      BY <3>1, <3>2
  <2>5. r \in Request /\ r.kind = kind /\ r.task = t /\ r.shared = task.shared /\ r.cap = 0 /\ r.at \in {"pays", "open"}
    BY <2>2, <2>4 DEF NewRequest, Request
  <2>6. /\ request'[q] = r /\ todo'[q] = Program(kind, t)
        /\ \A p \in Requests : p # q => request'[p] = request[p] /\ todo'[p] = todo[p]
    BY <1>2, <2>3 DEF RunsTypeOK
  <2>7. ProgramRight(kind, Program(kind, t))
    BY <1>1, ProgramsRight
  <2>8. RunsTypeOK'
    <3>1. Program(kind, t) \in Seq(Statements)
      BY <2>7 DEF ProgramRight
    <3> QED
      BY <1>1, <1>2, <2>3, <2>4, <2>5, <2>6, <3>1 DEF RunsTypeOK
  <2>9. RowInv(r, Program(kind, t), {}, Unpublished)
    BY <2>5, <2>7, RowBegins
  <2>10. \A p \in Requests : RowInv(request'[p], todo'[p], facts'[p], queued'[p])
    BY <1>1, <1>3, <2>6, <2>9 DEF RunsInv
  <2>11. CapInv'
    BY <1>1, <2>5, <2>6 DEF RunsInv, CapInv, MaxOf
  <2> QED
    BY <2>8, <2>10, <2>11 DEF RunsInv
<1> QED
  BY <1>6, <1>7

\* A cap never raises what a job may write, and keeps to the caps before it.
LEMMA CappedIs ==
  ASSUME NEW asked \in Nat, NEW cap \in Nat
  PROVE  /\ Capped(asked, cap) \in Nat
         /\ cap # 0 => Capped(asked, cap) \in 1 .. cap
         /\ \A old \in Nat : asked \in 1 .. old => Capped(asked, cap) \in 1 .. old
<1>1. asked > 0 /\ cap # 0 => Min({asked, cap}) = IF asked <= cap THEN asked ELSE cap
  BY DEF Min
<1> QED
  BY <1>1 DEF Capped

LEMMA ApplyKeeps ==
  ASSUME RunsInv, NEW q \in Requests, NEW cap \in Caps, apply(q, cap)
  PROVE  RunsInv'
<1>1. RowInv(request[q], todo[q], facts[q], queued[q]) /\ RunsTypeOK /\ request[q] \in Request
  BY DEF RunsInv, RunsTypeOK
<1>2. PICK max : max = Capped(MaxOf(q), cap)
  OBVIOUS
<1>3. PICK r : r = [request[q] EXCEPT !.at = "open", !.cap = cap, !.max = max]
  OBVIOUS
<1>4. /\ request[q].at = "pays" /\ request' = [request EXCEPT ![q] = r]
      /\ UNCHANGED <<todo, facts, queued>>
  BY <1>2, <1>3 DEF apply
<1>5. cap \in Nat /\ MaxOf(q) \in Nat
  BY <1>1, MaxTyped, RunConstants
<1>6. max \in Nat /\ (cap # 0 => max \in 1 .. cap) /\ \A old \in Nat : MaxOf(q) \in 1 .. old => max \in 1 .. old
  BY <1>2, <1>5, CappedIs
<1>7. /\ r \in Request /\ r.at = "open" /\ r.cap = cap /\ r.max = max /\ r.kind = request[q].kind
      /\ r.shared = request[q].shared /\ r.task = request[q].task
  BY <1>1, <1>3, <1>5, <1>6 DEF Request
<1>8. request'[q] = r /\ \A p \in Requests : p # q => request'[p] = request[p]
  BY <1>1, <1>4 DEF RunsTypeOK
<1>9. queued[q] = Unpublished
  BY <1>1, <1>4 DEF RowInv
<1>10. \A p \in Requests : RowInv(request'[p], todo'[p], facts'[p], queued'[p])
  <2>1. RowInv(r, todo[q], facts[q], queued[q])
    BY <1>1, <1>4, <1>7 DEF RowInv
  <2> QED
    BY <1>4, <1>8, <2>1 DEF RunsInv
<1>11. CASE request[q].shared = 0
  <2>1. system' = system
    BY <1>11 DEF apply
  <2>2. RunsTypeOK'
    BY <1>1, <1>4, <1>7, <1>8, <1>11, <2>1 DEF RunsTypeOK
  <2>3. MaxOf(q)' = max /\ \A p \in Requests : p # q => MaxOf(p)' = MaxOf(p)
    BY <1>7, <1>8, <1>11, <2>1 DEF MaxOf
  <2>4. CapInv'
    BY <1>4, <1>6, <1>7, <1>8, <1>9, <2>3 DEF RunsInv, CapInv
  <2> QED
    BY <1>10, <2>2, <2>4 DEF RunsInv
<1>12. CASE request[q].shared # 0
  <2>1. PICK t : t = request[q].task
    OBVIOUS
  <2>2. PICK k : k = request[q].shared
    OBVIOUS
  <2>3. system' = [system EXCEPT ![t] = [system[t] EXCEPT ![k] = max]]
    BY <1>2, <1>12, <2>1, <2>2 DEF apply
  <2>4. t \in DOMAIN Tasks /\ k \in DOMAIN system[t] /\ system[t] \in Seq(Nat)
    BY <1>1, <1>12, <2>1, <2>2 DEF RunsTypeOK
  <2>5. /\ [system[t] EXCEPT ![k] = max] \in Seq(Nat)
        /\ DOMAIN [system[t] EXCEPT ![k] = max] = DOMAIN system[t]
    BY <1>6, <2>4, ExceptSeq
  <2>6. /\ system' \in [DOMAIN Tasks -> Seq(Nat)] /\ \A u \in DOMAIN Tasks : DOMAIN system'[u] = DOMAIN system[u]
        /\ system'[t][k] = max
        /\ \A u \in DOMAIN Tasks : \A i \in DOMAIN system[u] : <<u, i>> # <<t, k>> => system'[u][i] = system[u][i]
    BY <1>1, <2>3, <2>4, <2>5 DEF RunsTypeOK
  <2>7. RunsTypeOK'
    <3>1. request' \in [Requests -> Request]
      BY <1>1, <1>4, <1>7 DEF RunsTypeOK
    <3>2. \A p \in Requests : request'[p].shared = request[p].shared /\ request'[p].task = request[p].task
      BY <1>7, <1>8
    <3> QED
      BY <1>1, <1>4, <2>6, <3>1, <3>2 DEF RunsTypeOK
  <2>8. MaxOf(q) = system[t][k] /\ MaxOf(q)' = max
    BY <1>7, <1>8, <1>12, <2>1, <2>2, <2>6 DEF MaxOf
  <2>9. ASSUME NEW p \in Requests, p # q PROVE MaxOf(p)' = MaxOf(p) \/ (MaxOf(p)' = max /\ MaxOf(p) = MaxOf(q))
    <3>1. CASE request[p].shared = 0
      BY <1>8, <2>9, <3>1 DEF MaxOf
    <3>2. CASE request[p].shared # 0
      <4>1. request[p].task \in DOMAIN Tasks /\ request[p].shared \in DOMAIN system[request[p].task]
        BY <1>1, <3>2 DEF RunsTypeOK
      <4>2. /\ MaxOf(p) = system[request[p].task][request[p].shared]
            /\ MaxOf(p)' = system'[request[p].task][request[p].shared]
        BY <1>8, <2>9, <3>2 DEF MaxOf
      <4> QED
        BY <2>6, <2>8, <4>1, <4>2
    <3> QED
      BY <3>1, <3>2
  <2>10. ASSUME NEW p \in Requests, p # q, request[p].cap # 0
         PROVE  MaxOf(p)' \in 1 .. request[p].cap
    <3>1. MaxOf(p) \in 1 .. request[p].cap /\ request[p].cap \in Nat
      BY <1>1, <2>10 DEF RunsInv, CapInv, RunsTypeOK, Request
    <3> QED
      BY <1>6, <2>9, <2>10, <3>1
  <2>11. CapInv'
    <3> SUFFICES ASSUME NEW p \in Requests
                 PROVE  /\ request'[p].at = "pays" => request'[p].cap = 0
                        /\ request'[p].cap # 0 =>
                             /\ MaxOf(p)' \in 1 .. request'[p].cap
                             /\ queued'[p] # Unpublished => queued'[p].max \in 1 .. request'[p].cap
      BY DEF CapInv
    <3>1. CASE p = q
      BY <1>4, <1>6, <1>7, <1>8, <1>9, <2>8, <3>1
    <3>2. CASE p # q
      BY <1>4, <1>8, <2>10, <3>2 DEF RunsInv, CapInv
    <3> QED
      BY <3>1, <3>2
  <2> QED
    BY <1>10, <2>7, <2>11 DEF RunsInv
<1> QED
  BY <1>11, <1>12

LEMMA StatementKeeps ==
  ASSUME RunsInv, NEW q \in Requests, statement(q)
  PROVE  RunsInv'
<1>1. RowInv(request[q], todo[q], facts[q], queued[q]) /\ RunsTypeOK /\ todo[q] \in Seq(Statements)
  BY DEF RunsInv, RunsTypeOK
<1>2. /\ request[q].at = "open" /\ todo[q] # <<>> /\ UNCHANGED <<request, system>>
      /\ todo' = [todo EXCEPT ![q] = Tail(todo[q])]
  BY DEF statement
<1>3. Head(todo[q]) \in Statements /\ Tail(todo[q]) \in Seq(Statements)
  BY <1>1, <1>2, TailIs
<1>4. todo'[q] = Tail(todo[q]) /\ \A p \in Requests : p # q => todo'[p] = todo[p]
  BY <1>1, <1>2 DEF RunsTypeOK
<1>5. \A p \in Requests : MaxOf(p)' = MaxOf(p)
  BY <1>2 DEF MaxOf
<1>6. CASE Head(todo[q])[1] # "publish"
  <2>1. facts' = [facts EXCEPT ![q] = facts[q] \cup {Head(todo[q])}] /\ queued' = queued
    BY <1>6 DEF statement
  <2>2. facts'[q] = facts[q] \cup {Head(todo[q])} /\ \A p \in Requests : p # q => facts'[p] = facts[p]
    BY <1>1, <2>1 DEF RunsTypeOK
  <2>3. RunsTypeOK'
    BY <1>1, <1>2, <1>3, <2>1 DEF RunsTypeOK
  <2>4. RowInv(request[q], Tail(todo[q]), facts[q] \cup {Head(todo[q])}, queued[q])
    BY <1>1, <1>2, <1>6, RowDoes
  <2>5. \A p \in Requests : RowInv(request'[p], todo'[p], facts'[p], queued'[p])
    BY <1>2, <1>4, <2>1, <2>2, <2>4 DEF RunsInv
  <2>6. CapInv'
    BY <1>2, <1>5, <2>1 DEF RunsInv, CapInv
  <2> QED
    BY <2>3, <2>5, <2>6 DEF RunsInv
<1>7. CASE Head(todo[q])[1] = "publish"
  <2>1. PICK sent : sent = [topic |-> TopicOf(q), max |-> MaxOf(q)]
    OBVIOUS
  <2>2. facts' = [facts EXCEPT ![q] = facts[q]] /\ queued' = [queued EXCEPT ![q] = sent]
    BY <1>7, <2>1 DEF statement
  <2>3. facts' = facts
    BY <1>1, <2>2 DEF RunsTypeOK
  <2>4. queued'[q] = sent /\ \A p \in Requests : p # q => queued'[p] = queued[p]
    BY <1>1, <2>2 DEF RunsTypeOK
  <2>5. RunsTypeOK'
    <3>1. TopicOf(q) \in {"", "single", "batch"}
      BY DEF TopicOf, queueName
    <3>2. sent \in Message
      BY <1>1, <2>1, <3>1, MaxTyped DEF Message
    <3> QED
      BY <1>1, <1>2, <1>3, <2>2, <2>3, <3>2 DEF RunsTypeOK
  <2>6. RowInv(request[q], Tail(todo[q]), facts[q], queued'[q])
    BY <1>1, <1>2, <1>7, RowPublishes
  <2>7. \A p \in Requests : RowInv(request'[p], todo'[p], facts'[p], queued'[p])
    BY <1>2, <1>4, <2>3, <2>4, <2>6 DEF RunsInv
  <2>8. sent.max = MaxOf(q)
    BY <2>1
  <2>9. CapInv'
    BY <1>2, <1>5, <2>4, <2>8 DEF RunsInv, CapInv
  <2> QED
    BY <2>5, <2>7, <2>9 DEF RunsInv
<1> QED
  BY <1>6, <1>7

LEMMA RespondKeeps ==
  ASSUME RunsInv, NEW q \in Requests, respond(q)
  PROVE  RunsInv'
<1>1. RowInv(request[q], todo[q], facts[q], queued[q]) /\ RunsTypeOK /\ request[q] \in Request
  BY DEF RunsInv, RunsTypeOK
<1>2. /\ request[q].at = "open" /\ todo[q] = <<>> /\ UNCHANGED <<todo, facts, system, queued>>
      /\ request' = [request EXCEPT ![q].at = "answered"]
  BY DEF respond
<1>3. PICK r : r = [request[q] EXCEPT !.at = "answered"]
  OBVIOUS
<1>4. /\ r \in Request /\ r.at = "answered" /\ r.kind = request[q].kind /\ r.task = request[q].task
      /\ r.shared = request[q].shared /\ r.max = request[q].max /\ r.cap = request[q].cap
  BY <1>1, <1>3 DEF Request
<1>5. request'[q] = r /\ \A p \in Requests : p # q => request'[p] = request[p]
  BY <1>1, <1>2, <1>3 DEF RunsTypeOK
<1>6. RunsTypeOK'
  BY <1>1, <1>2, <1>4, <1>5 DEF RunsTypeOK
<1>7. RowInv(r, <<>>, facts[q], queued[q])
  BY <1>1, <1>4, RowStops
<1>8. \A p \in Requests : RowInv(request'[p], todo'[p], facts'[p], queued'[p])
  BY <1>2, <1>5, <1>7 DEF RunsInv
<1>9. CapInv'
  BY <1>2, <1>4, <1>5 DEF RunsInv, CapInv, MaxOf
<1> QED
  BY <1>6, <1>8, <1>9 DEF RunsInv

LEMMA StatementFailsKeeps ==
  ASSUME RunsInv, NEW q \in Requests, statementFails(q)
  PROVE  RunsInv'
<1>1. RowInv(request[q], todo[q], facts[q], queued[q]) /\ RunsTypeOK /\ request[q] \in Request
        /\ todo[q] \in Seq(Statements)
  BY DEF RunsInv, RunsTypeOK
<1>2. request[q].at = "open" /\ todo[q] # <<>> /\ UNCHANGED <<facts, system, queued>>
  BY DEF statementFails
<1>3. CASE Head(todo[q])[1] = "publish"
  <2>1. todo' = [todo EXCEPT ![q] = Tail(todo[q])] /\ request' = request
    BY <1>3 DEF statementFails
  <2>2. Tail(todo[q]) \in Seq(Statements)
    BY <1>1, <1>2, TailIs
  <2>3. RunsTypeOK'
    BY <1>1, <1>2, <2>1, <2>2 DEF RunsTypeOK
  <2>4. RowInv(request[q], Tail(todo[q]), facts[q], queued[q])
    BY <1>1, <1>2, <1>3, RowPublishes
  <2>5. todo'[q] = Tail(todo[q]) /\ \A p \in Requests : p # q => todo'[p] = todo[p]
    BY <1>1, <2>1 DEF RunsTypeOK
  <2>6. \A p \in Requests : RowInv(request'[p], todo'[p], facts'[p], queued'[p])
    BY <1>2, <2>1, <2>4, <2>5 DEF RunsInv
  <2>7. CapInv'
    BY <1>2, <2>1 DEF RunsInv, CapInv, MaxOf
  <2> QED
    BY <2>3, <2>6, <2>7 DEF RunsInv
<1>4. CASE Head(todo[q])[1] # "publish"
  <2>1. todo' = [todo EXCEPT ![q] = <<>>] /\ request' = [request EXCEPT ![q].at = "failed"]
    BY <1>4 DEF statementFails
  <2>2. PICK r : r = [request[q] EXCEPT !.at = "failed"]
    OBVIOUS
  <2>3. /\ r \in Request /\ r.at = "failed" /\ r.kind = request[q].kind /\ r.task = request[q].task
        /\ r.shared = request[q].shared /\ r.max = request[q].max /\ r.cap = request[q].cap
    BY <1>1, <2>2 DEF Request
  <2>4. /\ request'[q] = r /\ todo'[q] = <<>>
        /\ \A p \in Requests : p # q => request'[p] = request[p] /\ todo'[p] = todo[p]
    BY <1>1, <2>1, <2>2 DEF RunsTypeOK
  <2>5. RunsTypeOK'
    <3>1. <<>> \in Seq(Statements)
      OBVIOUS
    <3> QED
      BY <1>1, <1>2, <2>1, <2>3, <2>4, <3>1 DEF RunsTypeOK
  <2>6. RowInv(r, <<>>, facts[q], queued[q])
    BY <1>1, <2>3, RowStops
  <2>7. \A p \in Requests : RowInv(request'[p], todo'[p], facts'[p], queued'[p])
    BY <1>2, <2>4, <2>6 DEF RunsInv
  <2>8. CapInv'
    BY <1>2, <2>3, <2>4 DEF RunsInv, CapInv, MaxOf
  <2> QED
    BY <2>5, <2>7, <2>8 DEF RunsInv
<1> QED
  BY <1>3, <1>4

LEMMA ResultKeeps ==
  ASSUME RunsInv, NEW q \in Requests, result(q)
  PROVE  RunsInv'
<1>1. RowInv(request[q], todo[q], facts[q], queued[q]) /\ RunsTypeOK /\ request[q] \in Request
  BY DEF RunsInv, RunsTypeOK
<1>2. /\ queued[q] # Unpublished /\ request[q].at = "answered" /\ UNCHANGED <<facts, system, queued>>
      /\ \A step \in facts[q] : step[2] # "F"
      /\ todo' = [todo EXCEPT ![q] = createProcessFile(SetMade \in facts[q])]
      /\ request' = [request EXCEPT ![q].at = "open"]
  BY DEF result, createReferenceFile, createErrorNode, SetMade
<1>3. PICK steps : steps = createProcessFile(SetMade \in facts[q])
  OBVIOUS
<1>4. FileRightly(steps, SetMade \in facts[q])
  <2>1. (SetMade \in facts[q]) \in BOOLEAN
    OBVIOUS
  <2>2. \A inSet \in BOOLEAN : FileRightly(createProcessFile(inSet), inSet)
    BY OutputRight
  <2> QED
    BY <1>3, <2>1, <2>2, Zenon
<1>5. PICK r : r = [request[q] EXCEPT !.at = "open"]
  OBVIOUS
<1>6. /\ r \in Request /\ r.at = "open" /\ r.kind = request[q].kind /\ r.task = request[q].task
      /\ r.shared = request[q].shared /\ r.max = request[q].max /\ r.cap = request[q].cap
  BY <1>1, <1>5 DEF Request
<1>7. /\ request'[q] = r /\ todo'[q] = steps
      /\ \A p \in Requests : p # q => request'[p] = request[p] /\ todo'[p] = todo[p]
  BY <1>1, <1>2, <1>3, <1>5 DEF RunsTypeOK
<1>8. todo[q] = <<>>
  BY <1>1, <1>2 DEF RowInv
<1>9. RunsTypeOK'
  <2>1. steps \in Seq(Statements)
    BY <1>4 DEF FileRightly
  <2> QED
    BY <1>1, <1>2, <1>3, <1>6, <1>7, <2>1 DEF RunsTypeOK
<1>10. RowInv(r, steps, facts[q], queued[q])
  BY <1>1, <1>2, <1>4, <1>6, <1>8, RowResults
<1>11. \A p \in Requests : RowInv(request'[p], todo'[p], facts'[p], queued'[p])
  BY <1>2, <1>7, <1>10 DEF RunsInv
<1>12. CapInv'
  BY <1>2, <1>6, <1>7 DEF RunsInv, CapInv, MaxOf
<1> QED
  BY <1>9, <1>11, <1>12 DEF RunsInv

LEMMA RegisterAnewKeeps ==
  ASSUME RunsInv, NEW t \in DOMAIN Tasks, registerAnew(t)
  PROVE  RunsInv'
<1>1. RunsTypeOK /\ system[t] \in Seq(Nat) /\ Tasks[t].system \in Nat
  BY RunConstants DEF RunsInv, RunsTypeOK
<1>2. UNCHANGED <<request, todo, facts, queued>> /\ system' = [system EXCEPT ![t] = Append(system[t], Tasks[t].system)]
  BY DEF registerAnew
<1>3. /\ Append(system[t], Tasks[t].system) \in Seq(Nat)
      /\ \A i \in DOMAIN system[t] : /\ i \in DOMAIN Append(system[t], Tasks[t].system)
                                     /\ Append(system[t], Tasks[t].system)[i] = system[t][i]
  BY <1>1
<1>4. /\ system' \in [DOMAIN Tasks -> Seq(Nat)]
      /\ \A u \in DOMAIN Tasks : \A i \in DOMAIN system[u] : i \in DOMAIN system'[u] /\ system'[u][i] = system[u][i]
  BY <1>1, <1>2, <1>3 DEF RunsTypeOK
<1>5. RunsTypeOK'
  BY <1>1, <1>2, <1>4 DEF RunsTypeOK
<1>6. ASSUME NEW p \in Requests PROVE MaxOf(p)' = MaxOf(p)
  <2>1. request[p].shared # 0 =>
          request[p].task \in DOMAIN Tasks /\ request[p].shared \in DOMAIN system[request[p].task]
    BY <1>1 DEF RunsTypeOK
  <2> QED
    BY <1>2, <1>4, <2>1 DEF MaxOf
<1>7. CapInv'
  BY <1>2, <1>6 DEF RunsInv, CapInv
<1> QED
  BY <1>2, <1>5, <1>7 DEF RunsInv

LEMMA RunsStep == RunsInv /\ [RunsNext]_runVars => RunsInv'
<1> SUFFICES ASSUME RunsInv, [RunsNext]_runVars PROVE RunsInv'
  OBVIOUS
<1>1. CASE UNCHANGED runVars
  <2>1. request' = request /\ todo' = todo /\ facts' = facts /\ system' = system /\ queued' = queued
    BY <1>1 DEF runVars
  <2> QED
    BY <2>1 DEF RunsInv, RunsTypeOK, CapInv, MaxOf
<1>2. ASSUME NEW q \in Requests, RequestSteps(q) PROVE RunsInv'
  <2>1. CASE BeginsRun(q)
    BY <2>1, BeginKeeps DEF BeginsRun
  <2>2. CASE Proceeds(q)
    BY <2>2, ApplyKeeps, StatementKeeps, RespondKeeps DEF Proceeds
  <2> QED
    BY <1>2, <2>1, <2>2, StatementFailsKeeps, ResultKeeps DEF RequestSteps
<1> QED
  BY <1>1, <1>2, RegisterAnewKeeps DEF RunsNext, RegisterSteps

\* Runs that any requests start, on any tasks, with any statement failing: a
\* job finds the directories and sets its message names, an output is a member
\* of its set before it is shown, and no job is let write more than its cap.
THEOREM JobsFindTheirPlace == RunsSpec => []RunsAreReady
<1>1. RunsInv => RunsAreReady
  <2> SUFFICES ASSUME RunsInv PROVE RunsAreReady
    OBVIOUS
  <2>1. ASSUME NEW q \in Requests, queued[q] # Unpublished PROVE Enough(request[q].kind, facts[q])
    BY <2>1 DEF RunsInv, RowInv
  <2>2. /\ ToSet(Do("P", <<"vertex", "belongs", "path", "dir", "message", "event">>))
             = {"vertex", "belongs", "path", "dir", "message", "event"} \X {"P"}
        /\ ToSet(Do("S", <<"dir", "path", "derive", "tell", "manifest">>))
             = {"dir", "path", "derive", "tell", "manifest"} \X {"S"}
        /\ ToSet(Do("R", <<"belongs", "dir", "path">>)) = {"belongs", "dir", "path"} \X {"R"}
    <3>1. /\ <<"vertex", "belongs", "path", "dir", "message", "event">> \in Seq(Texts)
          /\ ToSet(<<"vertex", "belongs", "path", "dir", "message", "event">>)
               = {"vertex", "belongs", "path", "dir", "message", "event"}
      BY DEF Texts, ToSet
    <3>2. /\ <<"dir", "path", "derive", "tell", "manifest">> \in Seq(Texts)
          /\ ToSet(<<"dir", "path", "derive", "tell", "manifest">>) = {"dir", "path", "derive", "tell", "manifest"}
      BY DEF Texts, ToSet
    <3>3. /\ <<"belongs", "dir", "path">> \in Seq(Texts)
          /\ ToSet(<<"belongs", "dir", "path">>) = {"belongs", "dir", "path"}
      BY DEF Texts, ToSet
    <3>4. {"P", "S", "R"} \subseteq Roles
      BY DEF Roles
    <3> QED
      BY <3>1, <3>2, <3>3, <3>4, DoIs
  <2>3. JobsAreReady
    <3> SUFFICES ASSUME NEW q \in Requests, queued[q] # Unpublished
                 PROVE  /\ request[q].kind \notin {"newSource", "set"} =>
                             Has(q, "P", <<"vertex", "belongs", "path", "dir", "message", "event">>)
                        /\ <<"vertex", "S">> \in facts[q] =>
                             Has(q, "S", <<"dir", "path", "derive", "tell", "manifest">>)
                        /\ request[q].kind = "newSource" => Has(q, "R", <<"belongs", "dir", "path">>)
      BY DEF JobsAreReady
    <3> QED
      BY <2>1, <2>2 DEF Has, Enough, NeededOf, OfSet, SetMade
  <2>4. MembersStayOffDesk
    BY DEF RunsInv, RowInv, MembersStayOffDesk, SetMade, FileShown, FileAdded
  <2>5. CapIsKept
    BY DEF RunsInv, CapInv, CapIsKept
  <2> QED
    BY <2>3, <2>4, <2>5 DEF RunsAreReady
<1> QED
  BY <1>1, RunsBegin, RunsStep, PTL DEF RunsSpec

-----------------------------------------------------------------------------
(* Token budgets: types.                                                   *)

Rows == {NoRow, NoLimits} \cup Limits
Periods == {"day", "month"}
Parts == {"group_total", "per_user"}
Peak == [Parts -> Nat \cup {Unlimited}]
Chosen == {"queued", "running", "stopped", "done"}
PaidJob == [at: {"new", "choose", "used", "tooMany", "forbidden"} \cup Chosen,
            user: Payers \cup {NoJob}, service: Services \cup {NoJob}, k: Nat, limits: Rows,
            ref: Groups \cup {NoGroup}, tries: Nat, changed: BOOLEAN]
Holding == [job: Jobs \cup {NoJob}, at: {"idle", "check", "sums", "run"}, limits: Rows]
UsageRows == (Groups \cup {NoGroup}) \X Payers \X Days

BudgetTypes ==
  /\ group \in [Groups -> Rows] /\ usage \in [UsageRows -> Nat] /\ today \in Days
  /\ job \in [Jobs -> PaidJob] /\ consumer \in [Consumers -> Holding]
  /\ peak \in [Groups -> [Periods -> Peak]] /\ failures \in Nat /\ updates \in Nat

\* A job that is choosing looks at one of the groups of its user.
JobFits(k) ==
  /\ k.at # "new" => k.user \in Payers /\ k.service \in Services
  /\ k.at \in {"choose", "used"} => k.k \in candidatesOf(k.user, k.service)
  /\ k.at = "used" => k.limits \in Limits

\* A high limit was read: it is in the history.
CoversIn(pk, g, limits) ==
  \A p \in Periods, f \in Parts :
    pk[g][p][f] = Unlimited \/ (Limit(limits, f, p) # Unlimited /\ Limit(limits, f, p) <= pk[g][p][f])

ConsumerFits(m, jb, pk) ==
  /\ m.at # "idle" => m.job \in Jobs /\ jb[m.job].at \in Chosen
  /\ m.at \in {"check", "sums"} => jb[m.job].ref \in Groups
  /\ m.at = "sums" => m.limits \in Limits /\ CoversIn(pk, jb[m.job].ref, m.limits)

BudgetRows ==
  /\ BudgetTypes /\ \A j \in Jobs : JobFits(job[j])
  /\ \A c \in Consumers : ConsumerFits(consumer[c], job, peak)

-----------------------------------------------------------------------------
(* What is used, as sums over rows.                                        *)

GroupRows(g, start) == {g} \X Payers \X {d \in Days : d >= start}
UserRows(g, u, start) == {r \in GroupRows(g, start) : r[2] = u}

StartOf(day, period) == IF period = "day" THEN day ELSE ((day - 1) \div DaysPerMonth) * DaysPerMonth + 1
GroupUse(us, g, start) == SumOf(us, GroupRows(g, start))
UserUse(us, g, u, start) == SumOf(us, UserRows(g, u, start))

LEMMA UsedIs ==
  ASSUME NEW g, NEW u, NEW p
  PROVE  /\ used(g, u, p).group = GroupUse(usage, g, StartOf(today, p))
         /\ used(g, u, p).user = UserUse(usage, g, u, StartOf(today, p))
BY DEF used, Total, GroupUse, UserUse, GroupRows, UserRows, periodStart, StartOf, SumOf

LEMMA UsedThen ==
  ASSUME NEW g, NEW u, NEW p
  PROVE  /\ used(g, u, p).group' = GroupUse(usage', g, StartOf(today', p))
         /\ used(g, u, p).user' = UserUse(usage', g, u, StartOf(today', p))
<1>1. \A us, rows : Total(us, rows) = SumOf(us, rows)
  BY DEF Total, SumOf
<1> QED
  BY <1>1 DEF used, GroupUse, UserUse, GroupRows, UserRows, periodStart, StartOf

LEMMA RowsAreFinite ==
  ASSUME NEW g \in Groups, NEW u, NEW start
  PROVE  /\ GroupRows(g, start) \subseteq UsageRows /\ IsFiniteSet(GroupRows(g, start))
         /\ UserRows(g, u, start) \subseteq GroupRows(g, start) /\ IsFiniteSet(UserRows(g, u, start))
<1>1. GroupRows(g, start) \subseteq UsageRows /\ UserRows(g, u, start) \subseteq GroupRows(g, start)
  BY DEF GroupRows, UserRows, UsageRows
<1>2. IsFiniteSet(Payers) /\ IsFiniteSet(Days)
  BY BudgetConstants, FS_Interval DEF Days
<1>3. IsFiniteSet(Payers \X Days)
  BY <1>2, FS_Product
<1> DEFINE F == {<<g, q[1], q[2]>> : q \in Payers \X Days}
           Of == [q \in Payers \X Days |-> <<g, q[1], q[2]>>]
<1>4. IsFiniteSet(F)
  <2>1. Of \in Surjection(Payers \X Days, F)
    BY DEF Surjection
  <2> HIDE DEF F, Of
  <2> QED
    BY <1>3, <2>1, FS_Surjection
<1>5. GroupRows(g, start) \subseteq F
  <2> SUFFICES ASSUME NEW r \in GroupRows(g, start) PROVE r \in F
    OBVIOUS
  <2>1. r = <<g, r[2], r[3]>> /\ r[2] \in Payers /\ r[3] \in Days
    BY DEF GroupRows
  <2>2. <<r[2], r[3]>> \in Payers \X Days /\ <<r[2], r[3]>>[1] = r[2] /\ <<r[2], r[3]>>[2] = r[3]
    BY <2>1
  <2> QED
    BY <2>1, <2>2
<1> QED
  BY <1>1, <1>4, <1>5, FS_Subset

\* A month begins no later than the day, and never earlier than before.
LEMMA DivGrows ==
  ASSUME NEW a \in Nat, NEW b \in Nat, a <= b, NEW d \in Nat \ {0}
  PROVE  /\ a \div d \in Nat /\ (a \div d) * d \in Nat /\ (a \div d) * d <= a
         /\ (a \div d) * d <= (b \div d) * d
<1> DEFINE q == a \div d
           r == b \div d
<1>1. q \in Nat /\ r \in Nat
  OBVIOUS
<1>2. q * d <= a /\ a < q * d + d /\ r * d <= b /\ b < r * d + d /\ q * d \in Nat /\ r * d \in Nat
  OBVIOUS
<1> HIDE DEF q, r
<1>3. q <= r
  <2> SUFFICES ASSUME r + 1 <= q PROVE FALSE
    BY <1>1
  <2>1. (r + 1) * d <= q * d
    BY <1>1
  <2>2. (r + 1) * d = r * d + d
    BY <1>1
  <2> QED
    BY <1>1, <1>2, <2>1, <2>2
<1>4. q * d <= r * d
  BY <1>1, <1>3
<1> QED
  BY <1>1, <1>2, <1>4 DEF q, r

LEMMA PeriodsStart ==
  ASSUME NEW a \in Days, NEW b \in Days, a <= b, NEW p \in Periods
  PROVE  /\ StartOf(a, p) \in Nat /\ StartOf(a, p) <= StartOf(b, p)
         /\ StartOf(a, "month") <= StartOf(a, "day") /\ StartOf(a, p) <= a
<1>1. DaysPerMonth \in Nat \ {0} /\ a - 1 \in Nat /\ b - 1 \in Nat /\ a - 1 <= b - 1 /\ a \in Nat /\ b \in Nat
  BY BudgetConstants DEF Days
<1>2. /\ ((a - 1) \div DaysPerMonth) * DaysPerMonth \in Nat
      /\ ((a - 1) \div DaysPerMonth) * DaysPerMonth <= a - 1
      /\ ((a - 1) \div DaysPerMonth) * DaysPerMonth <= ((b - 1) \div DaysPerMonth) * DaysPerMonth
  BY <1>1, DivGrows
<1>3. /\ ((b - 1) \div DaysPerMonth) * DaysPerMonth \in Nat
  BY <1>1, DivGrows
<1> QED
  BY <1>1, <1>2, <1>3 DEF StartOf, Periods

LEMMA UseGrows ==
  ASSUME NEW g \in Groups, NEW u \in Payers, NEW us \in [UsageRows -> Nat], NEW vs \in [UsageRows -> Nat],
         \A r \in UsageRows : us[r] <= vs[r], NEW a \in Nat, NEW b \in Nat, b <= a
  PROVE  /\ GroupUse(us, g, a) \in Nat /\ UserUse(us, g, u, a) \in Nat
         /\ GroupUse(us, g, a) <= GroupUse(vs, g, b) /\ UserUse(us, g, u, a) <= UserUse(vs, g, u, b)
<1>1. GroupRows(g, a) \subseteq GroupRows(g, b) /\ UserRows(g, u, a) \subseteq UserRows(g, u, b)
  BY DEF GroupRows, UserRows, Days
<1>2. /\ GroupRows(g, b) \subseteq UsageRows /\ IsFiniteSet(GroupRows(g, b))
      /\ UserRows(g, u, b) \subseteq UsageRows /\ IsFiniteSet(UserRows(g, u, b))
  BY RowsAreFinite
<1>3. SumOf(us, GroupRows(g, a)) \in Nat /\ SumOf(us, GroupRows(g, a)) <= SumOf(vs, GroupRows(g, b))
  <2> DEFINE S == GroupRows(g, a)
             T == GroupRows(g, b)
  <2>1. S \in SUBSET UsageRows /\ T \in SUBSET UsageRows /\ IsFiniteSet(T) /\ S \subseteq T /\ \A r \in S : us[r] <= vs[r]
    BY <1>1, <1>2
  <2> HIDE DEF S, T
  <2>2. SumOf(us, S) \in Nat /\ SumOf(us, S) <= SumOf(vs, T)
    BY <2>1, SumGrows
  <2> QED
    BY <2>2 DEF S, T
<1>4. SumOf(us, UserRows(g, u, a)) \in Nat /\ SumOf(us, UserRows(g, u, a)) <= SumOf(vs, UserRows(g, u, b))
  <2> DEFINE S == UserRows(g, u, a)
             T == UserRows(g, u, b)
  <2>1. S \in SUBSET UsageRows /\ T \in SUBSET UsageRows /\ IsFiniteSet(T) /\ S \subseteq T /\ \A r \in S : us[r] <= vs[r]
    BY <1>1, <1>2
  <2> HIDE DEF S, T
  <2>2. SumOf(us, S) \in Nat /\ SumOf(us, S) <= SumOf(vs, T)
    BY <2>1, SumGrows
  <2> QED
    BY <2>2 DEF S, T
<1> QED
  BY <1>3, <1>4 DEF GroupUse, UserUse

\* A report of n tokens counts for its group and its user.
LEMMA UseAdds ==
  ASSUME NEW us \in [UsageRows -> Nat], NEW vs \in [UsageRows -> Nat], NEW r \in UsageRows, NEW n \in Nat,
         vs[r] = us[r] + n, \A x \in UsageRows \ {r} : vs[x] = us[x],
         NEW g \in Groups, NEW u \in Payers, NEW start \in Nat, start <= r[3]
  PROVE  /\ GroupUse(vs, g, start) = IF r[1] = g THEN GroupUse(us, g, start) + n ELSE GroupUse(us, g, start)
         /\ UserUse(vs, g, u, start) = IF r[1] = g /\ r[2] = u THEN UserUse(us, g, u, start) + n
                                       ELSE UserUse(us, g, u, start)
<1>1. /\ r \in GroupRows(g, start) <=> r[1] = g
      /\ r \in UserRows(g, u, start) <=> r[1] = g /\ r[2] = u
  BY DEF GroupRows, UserRows, UsageRows
<1>2. /\ GroupRows(g, start) \subseteq UsageRows /\ IsFiniteSet(GroupRows(g, start))
      /\ UserRows(g, u, start) \subseteq UsageRows /\ IsFiniteSet(UserRows(g, u, start))
  BY RowsAreFinite
<1>3. ASSUME NEW S \in SUBSET UsageRows, IsFiniteSet(S)
      PROVE  SumOf(vs, S) = IF r \in S THEN SumOf(us, S) + n ELSE SumOf(us, S)
  BY <1>3, SumAdds
<1>4. /\ SumOf(vs, GroupRows(g, start)) = IF r \in GroupRows(g, start) THEN SumOf(us, GroupRows(g, start)) + n
                                          ELSE SumOf(us, GroupRows(g, start))
      /\ SumOf(vs, UserRows(g, u, start)) = IF r \in UserRows(g, u, start) THEN SumOf(us, UserRows(g, u, start)) + n
                                            ELSE SumOf(us, UserRows(g, u, start))
  BY <1>2, <1>3
<1> QED
  BY <1>1, <1>4 DEF GroupUse, UserUse

\* The largest report.
LEMMA MostIs ==
  /\ Max(Reports) \in Reports /\ Max(Reports) \in Nat
  /\ \A n \in Reports : n <= Max(Reports)
BY BudgetConstants, GreatestIs

-----------------------------------------------------------------------------
(* What steps leave to jobs and to what consumers hold.                    *)

\* A job that has its group keeps it.
Stays(jb, kb) ==
  \A j \in Jobs : jb[j].at \in Chosen =>
    kb[j].at \in Chosen /\ kb[j].ref = jb[j].ref /\ kb[j].user = jb[j].user

\* The history of limits only rises.
Rises(pk, qk) ==
  \A g \in Groups, p \in Periods, f \in Parts :
    qk[g][p][f] = Unlimited \/ (pk[g][p][f] # Unlimited /\ pk[g][p][f] <= qk[g][p][f])

LEMMA RisesFurther ==
  ASSUME NEW pk \in [Groups -> [Periods -> Peak]], NEW qk \in [Groups -> [Periods -> Peak]], Rises(pk, qk),
         NEW g \in Groups, NEW l, CoversIn(pk, g, l), l \in Limits
  PROVE  CoversIn(qk, g, l)
<1> SUFFICES ASSUME NEW p \in Periods, NEW f \in Parts
    PROVE  qk[g][p][f] = Unlimited \/ (Limit(l, f, p) # Unlimited /\ Limit(l, f, p) <= qk[g][p][f])
  BY DEF CoversIn
<1>1. Limit(l, f, p) \in Nat \cup {Unlimited}
  BY DEF Limit, Limits, Parts
<1>2. qk[g][p][f] \in Nat \cup {Unlimited} /\ pk[g][p][f] \in Nat \cup {Unlimited}
  BY DEF Peak
<1>3. pk[g][p][f] = Unlimited \/ (Limit(l, f, p) # Unlimited /\ Limit(l, f, p) <= pk[g][p][f])
  BY DEF CoversIn
<1>4. qk[g][p][f] = Unlimited \/ (pk[g][p][f] # Unlimited /\ pk[g][p][f] <= qk[g][p][f])
  BY DEF Rises
<1> QED
  BY <1>1, <1>2, <1>3, <1>4 DEF Unlimited

LEMMA ConsumerStays ==
  ASSUME NEW jb \in [Jobs -> PaidJob], NEW kb \in [Jobs -> PaidJob], Stays(jb, kb),
         NEW pk \in [Groups -> [Periods -> Peak]], NEW qk \in [Groups -> [Periods -> Peak]], Rises(pk, qk),
         NEW m, ConsumerFits(m, jb, pk)
  PROVE  ConsumerFits(m, kb, qk)
<1>1. m.at # "idle" => m.job \in Jobs /\ jb[m.job].at \in Chosen
  BY DEF ConsumerFits
<1>2. m.at # "idle" => kb[m.job].at \in Chosen /\ kb[m.job].ref = jb[m.job].ref
  BY <1>1 DEF Stays
<1>3. m.at \in {"check", "sums"} => m.at # "idle" /\ jb[m.job].ref \in Groups
  BY DEF ConsumerFits
<1>4. m.at = "sums" => m.limits \in Limits /\ CoversIn(qk, kb[m.job].ref, m.limits)
  BY <1>2, <1>3, RisesFurther DEF ConsumerFits
<1> QED
  BY <1>1, <1>2, <1>3, <1>4 DEF ConsumerFits

\* One job moves.
LEMMA JobMoves ==
  ASSUME BudgetRows, NEW j \in Jobs, NEW k \in PaidJob, job' = [job EXCEPT ![j] = k], JobFits(k),
         job[j].at \in Chosen => k.at \in Chosen /\ k.ref = job[j].ref /\ k.user = job[j].user
  PROVE  job' \in [Jobs -> PaidJob] /\ (\A i \in Jobs : JobFits(job'[i])) /\ Stays(job, job')
<1>1. job \in [Jobs -> PaidJob] /\ \A i \in Jobs : JobFits(job[i])
  BY DEF BudgetRows, BudgetTypes
<1>2. \A i \in Jobs : job'[i] = IF i = j THEN k ELSE job[i]
  BY <1>1
<1> QED
  BY <1>1, <1>2 DEF Stays

LEMMA NothingRises == \A pk \in [Groups -> [Periods -> Peak]] : Rises(pk, pk)
<1> SUFFICES ASSUME NEW pk \in [Groups -> [Periods -> Peak]], NEW g \in Groups, NEW p \in Periods, NEW f \in Parts
    PROVE  pk[g][p][f] = Unlimited \/ (pk[g][p][f] # Unlimited /\ pk[g][p][f] <= pk[g][p][f])
  BY DEF Rises
<1>1. pk[g][p][f] \in Nat \cup {Unlimited}
  BY DEF Peak
<1> QED
  BY <1>1

\* What is left to prove of a step that moves one job and no consumer.
LEMMA RowsByJobs ==
  ASSUME BudgetRows, job' \in [Jobs -> PaidJob], \A i \in Jobs : JobFits(job'[i]), Stays(job, job'),
         consumer' = consumer, peak' = peak, failures' = failures,
         group' \in [Groups -> Rows], usage' = usage, today' \in Days, updates' \in Nat
  PROVE  BudgetRows'
<1>1. /\ job \in [Jobs -> PaidJob] /\ peak \in [Groups -> [Periods -> Peak]]
      /\ \A c \in Consumers : ConsumerFits(consumer[c], job, peak)
  BY DEF BudgetRows, BudgetTypes
<1>2. Rises(peak, peak')
  BY <1>1, NothingRises
<1>3. \A c \in Consumers : ConsumerFits(consumer'[c], job', peak')
  BY <1>1, <1>2, ConsumerStays
<1>4. BudgetTypes'
  BY DEF BudgetRows, BudgetTypes
<1> QED
  BY <1>3, <1>4 DEF BudgetRows

\* One consumer moves.
LEMMA RowsByConsumer ==
  ASSUME BudgetRows, job' \in [Jobs -> PaidJob], \A i \in Jobs : JobFits(job'[i]), Stays(job, job'),
         NEW c \in Consumers, NEW m \in Holding, consumer' = [consumer EXCEPT ![c] = m],
         peak' \in [Groups -> [Periods -> Peak]], Rises(peak, peak'), ConsumerFits(m, job', peak'),
         failures' \in Nat, group' = group, usage' \in [UsageRows -> Nat], today' = today, updates' = updates
  PROVE  BudgetRows'
<1>1. /\ job \in [Jobs -> PaidJob] /\ peak \in [Groups -> [Periods -> Peak]] /\ consumer \in [Consumers -> Holding]
      /\ \A d \in Consumers : ConsumerFits(consumer[d], job, peak)
  BY DEF BudgetRows, BudgetTypes
<1>2. \A d \in Consumers : ConsumerFits(consumer[d], job', peak')
  BY <1>1, ConsumerStays
<1>3. \A d \in Consumers : consumer'[d] = IF d = c THEN m ELSE consumer[d]
  BY <1>1
<1>4. \A d \in Consumers : ConsumerFits(consumer'[d], job', peak')
  BY <1>2, <1>3
<1>5. BudgetTypes'
  BY <1>1 DEF BudgetRows, BudgetTypes
<1> QED
  BY <1>4, <1>5 DEF BudgetRows

-----------------------------------------------------------------------------
(* Jobs choose.                                                            *)

LEMMA JobsSame ==
  ASSUME BudgetRows, job' = job
  PROVE  job' \in [Jobs -> PaidJob] /\ (\A i \in Jobs : JobFits(job'[i])) /\ Stays(job, job')
BY DEF BudgetRows, BudgetTypes, Stays

LEMMA CandidatesAre ==
  ASSUME NEW u \in Payers, NEW s \in Services
  PROVE  /\ candidatesOf(u, s) \subseteq Nat
         /\ \A k \in candidatesOf(u, s) : PaidServices[s][k] \in Groups
<1>1. PaidServices[s] \in Seq(Groups)
  BY BudgetConstants
<1>2. DOMAIN PaidServices[s] = 1 .. Len(PaidServices[s]) /\ Len(PaidServices[s]) \in Nat
  BY <1>1
<1> QED
  BY <1>1, <1>2 DEF candidatesOf

LEMMA ChooseMoves ==
  ASSUME BudgetRows, NEW j \in Jobs, NEW u \in Payers, NEW s \in Services, choose(j, u, s)
  PROVE  BudgetRows' /\ Stays(job, job')
<1> DEFINE mine == candidatesOf(u, s)
           to == IF PaidServices[s] = <<>> THEN "queued" ELSE IF mine = {} THEN "forbidden" ELSE "choose"
           k == [job[j] EXCEPT !.user = u, !.service = s, !.at = to, !.k = IF mine = {} THEN 0 ELSE Min(mine)]
<1>1. job' = [job EXCEPT ![j] = k] /\ job[j].at = "new"
  BY DEF choose
<1>2. job[j] \in PaidJob
  BY DEF BudgetRows, BudgetTypes
<1>3. mine # {} => Min(mine) \in mine /\ Min(mine) \in Nat
  BY LeastIs, CandidatesAre
<1>4. to \in {"queued", "forbidden", "choose"} /\ (to = "choose" => mine # {})
  OBVIOUS
<1> HIDE DEF mine, to
<1>5. k \in PaidJob
  BY <1>2, <1>3, <1>4 DEF PaidJob, Chosen
<1>6. k.at = to /\ k.user = u /\ k.service = s /\ (mine # {} => k.k = Min(mine))
  BY <1>2 DEF PaidJob
<1> HIDE DEF k
<1>7. JobFits(k)
  BY <1>3, <1>4, <1>6 DEF JobFits, mine
<1>8. job[j].at \notin Chosen
  BY <1>1 DEF Chosen
<1>9. job' \in [Jobs -> PaidJob] /\ (\A i \in Jobs : JobFits(job'[i])) /\ Stays(job, job')
  BY <1>1, <1>5, <1>7, <1>8, JobMoves
<1> QED
  BY <1>9, RowsByJobs DEF choose, BudgetRows, BudgetTypes

LEMMA ChooseGroupMoves ==
  ASSUME BudgetRows, NEW j \in Jobs, chooseGroup(j)
  PROVE  BudgetRows' /\ Stays(job, job')
<1> DEFINE g == Candidate(j)
           free == group[g] \in {NoRow, NoLimits}
           k == [job[j] EXCEPT !.limits = group[g], !.at = IF free THEN "queued" ELSE "used",
                               !.ref = IF free THEN g ELSE job[j].ref]
<1>1. job' = [job EXCEPT ![j] = k] /\ job[j].at = "choose"
  BY DEF chooseGroup
<1>2. job[j] \in PaidJob /\ JobFits(job[j]) /\ group \in [Groups -> Rows]
  BY DEF BudgetRows, BudgetTypes
<1>3. /\ job[j].user \in Payers /\ job[j].service \in Services
      /\ job[j].k \in candidatesOf(job[j].user, job[j].service)
  BY <1>1, <1>2 DEF JobFits
<1>4. g \in Groups
  BY <1>3, CandidatesAre DEF Candidate
<1>5. group[g] \in Rows
  BY <1>2, <1>4
<1> HIDE DEF g
<1>6. k \in PaidJob
  BY <1>2, <1>4, <1>5 DEF PaidJob, Chosen
<1>7. /\ k.at = IF free THEN "queued" ELSE "used"
      /\ k.limits = group[g] /\ k.user = job[j].user /\ k.service = job[j].service /\ k.k = job[j].k
  BY <1>2 DEF PaidJob
<1>8. ~free => group[g] \in Limits
  BY <1>5 DEF Rows
<1> HIDE DEF k, free
<1>9. JobFits(k)
  BY <1>3, <1>7, <1>8 DEF JobFits
<1>10. job[j].at \notin Chosen
  BY <1>1 DEF Chosen
<1>11. job' \in [Jobs -> PaidJob] /\ (\A i \in Jobs : JobFits(job'[i])) /\ Stays(job, job')
  BY <1>1, <1>6, <1>9, <1>10, JobMoves
<1> QED
  BY <1>11, RowsByJobs DEF chooseGroup, BudgetRows, BudgetTypes

\* The next candidate is a candidate; between it and the last there is none.
LEMMA NextIs ==
  ASSUME BudgetRows, NEW j \in Jobs, job[j].at = "used", NEW jb, jb = NextCandidate(j)
  PROVE  \E k \in PaidJob :
           /\ jb = [job EXCEPT ![j] = k] /\ JobFits(k) /\ k.at \in {"choose", "tooMany"}
           /\ k.user = job[j].user /\ k.service = job[j].service /\ k.changed = job[j].changed
           /\ k.k \in Nat
           /\ \A i \in candidates(j) : (k.at = "tooMany" \/ i < k.k) => i <= job[j].k
<1> DEFINE later == {i \in candidates(j) : i > job[j].k}
           to == [job[j] EXCEPT !.k = Min(later), !.at = "choose"]
           end == [job[j] EXCEPT !.at = "tooMany"]
<1>1. job[j] \in PaidJob /\ JobFits(job[j])
  BY DEF BudgetRows, BudgetTypes
<1>2. /\ job[j].user \in Payers /\ job[j].service \in Services /\ job[j].k \in Nat
      /\ candidates(j) = candidatesOf(job[j].user, job[j].service)
  BY <1>1 DEF JobFits, candidates, PaidJob
<1>3. candidates(j) \subseteq Nat
  BY <1>2, CandidatesAre
<1>4. CASE later # {}
  <2>1. Min(later) \in later /\ \A i \in later : Min(later) <= i
    BY <1>3, <1>4, LeastIs
  <2>2. Min(later) \in candidatesOf(job[j].user, job[j].service) /\ Min(later) \in Nat
    BY <1>2, <1>3, <2>1
  <2>3. \A i \in candidates(j) : i < Min(later) => i <= job[j].k
    BY <1>2, <1>3, <2>1
  <2>4. jb = [job EXCEPT ![j] = to]
    BY <1>4 DEF NextCandidate
  <2> HIDE DEF later
  <2>5. to \in PaidJob /\ to.at = "choose" /\ to.k = Min(later)
        /\ to.user = job[j].user /\ to.service = job[j].service /\ to.changed = job[j].changed
    BY <1>1, <2>2 DEF PaidJob
  <2> HIDE DEF to
  <2>6. JobFits(to)
    BY <1>2, <2>2, <2>5 DEF JobFits
  <2> QED
    BY <2>2, <2>3, <2>4, <2>5, <2>6
<1>5. CASE later = {}
  <2>1. \A i \in candidates(j) : i <= job[j].k
    BY <1>2, <1>3, <1>5
  <2>2. jb = [job EXCEPT ![j] = end]
    BY <1>5 DEF NextCandidate
  <2>3. end \in PaidJob /\ end.at = "tooMany" /\ end.k = job[j].k
        /\ end.user = job[j].user /\ end.service = job[j].service /\ end.changed = job[j].changed
    BY <1>1 DEF PaidJob
  <2> HIDE DEF end
  <2>4. JobFits(end)
    BY <1>2, <2>3 DEF JobFits
  <2> QED
    BY <1>2, <2>1, <2>2, <2>3, <2>4
<1> QED
  BY <1>4, <1>5

LEMMA ChooseUsedMoves ==
  ASSUME BudgetRows, NEW j \in Jobs, chooseUsed(j)
  PROVE  BudgetRows' /\ Stays(job, job')
<1> DEFINE x == exhaustedReason(job[j].limits, used(Candidate(j), job[j].user, job[j].limits.period))
           k == [job[j] EXCEPT !.at = "queued", !.ref = Candidate(j)]
<1>1. job[j].at = "used" /\ job' = IF x THEN NextCandidate(j) ELSE [job EXCEPT ![j] = k]
  BY DEF chooseUsed
<1>2. job[j] \in PaidJob /\ JobFits(job[j])
  BY DEF BudgetRows, BudgetTypes
<1>3. job[j].at \notin Chosen
  BY <1>1 DEF Chosen
<1>4. \E m \in PaidJob : job' = [job EXCEPT ![j] = m] /\ JobFits(m)
  <2>1. CASE x
    BY <1>1, <2>1, NextIs
  <2>2. CASE ~x
    <3>1. /\ job[j].user \in Payers /\ job[j].service \in Services
          /\ job[j].k \in candidatesOf(job[j].user, job[j].service)
      BY <1>1, <1>2 DEF JobFits
    <3>2. Candidate(j) \in Groups
      BY <3>1, CandidatesAre DEF Candidate
    <3>3. k \in PaidJob /\ k.at = "queued" /\ k.user = job[j].user /\ k.service = job[j].service
      BY <1>2, <3>2 DEF PaidJob, Chosen
    <3> HIDE DEF k
    <3>4. JobFits(k)
      BY <3>1, <3>3 DEF JobFits
    <3> QED
      BY <1>1, <2>2, <3>3, <3>4
  <2> QED
    BY <2>1, <2>2
<1>5. job' \in [Jobs -> PaidJob] /\ (\A i \in Jobs : JobFits(job'[i])) /\ Stays(job, job')
  BY <1>3, <1>4, JobMoves
<1> QED
  BY <1>5, RowsByJobs DEF chooseUsed, BudgetRows, BudgetTypes

LEMMA LapseMoves ==
  ASSUME BudgetRows, NEW j \in Jobs, LeaseLapses(j)
  PROVE  BudgetRows' /\ Stays(job, job')
<1> DEFINE k == [job[j] EXCEPT !.at = "queued"]
<1>1. job' = [job EXCEPT ![j] = k] /\ job[j].at = "running"
  BY DEF LeaseLapses
<1>2. job[j] \in PaidJob /\ JobFits(job[j])
  BY DEF BudgetRows, BudgetTypes
<1>3. k \in PaidJob /\ k.at = "queued" /\ k.user = job[j].user /\ k.service = job[j].service /\ k.ref = job[j].ref
  BY <1>2 DEF PaidJob, Chosen
<1> HIDE DEF k
<1>4. JobFits(k)
  BY <1>1, <1>2, <1>3 DEF JobFits
<1>5. k.at \in Chosen
  BY <1>3 DEF Chosen
<1>6. job' \in [Jobs -> PaidJob] /\ (\A i \in Jobs : JobFits(job'[i])) /\ Stays(job, job')
  BY <1>1, <1>3, <1>4, <1>5, JobMoves
<1> QED
  BY <1>6, RowsByJobs DEF LeaseLapses, BudgetRows, BudgetTypes

-----------------------------------------------------------------------------
(* Consumers move.                                                         *)

LEMMA ClaimMoves ==
  ASSUME BudgetRows, NEW c \in Consumers, NEW j \in Jobs, claim(c, j)
  PROVE  BudgetRows' /\ Stays(job, job')
<1> DEFINE k == [job[j] EXCEPT !.at = "running", !.tries = job[j].tries + 1]
           at == IF job[j].ref = NoGroup THEN "run" ELSE "check"
           m == [job |-> j, limits |-> NoLimits, at |-> at]
<1>1. job' = [job EXCEPT ![j] = k] /\ job[j].at = "queued" /\ consumer' = [consumer EXCEPT ![c] = m]
  BY DEF claim
<1>2. job[j] \in PaidJob /\ JobFits(job[j]) /\ job \in [Jobs -> PaidJob] /\ peak \in [Groups -> [Periods -> Peak]]
  BY DEF BudgetRows, BudgetTypes
<1>0. job[j].tries + 1 \in Nat
  BY <1>2 DEF PaidJob
<1>3. k \in PaidJob /\ k.at = "running" /\ k.user = job[j].user /\ k.service = job[j].service /\ k.ref = job[j].ref
  BY <1>0, <1>2 DEF PaidJob, Chosen
<1> HIDE DEF k
<1>4. JobFits(k)
  BY <1>1, <1>2, <1>3 DEF JobFits
<1>5. k.at \in Chosen
  BY <1>3 DEF Chosen
<1>6. job' \in [Jobs -> PaidJob] /\ (\A i \in Jobs : JobFits(job'[i])) /\ Stays(job, job')
  BY <1>1, <1>3, <1>4, <1>5, JobMoves
<1>8. m \in Holding /\ m.at = at /\ m.job = j
  BY DEF Holding, Rows
<1>9. job'[j] = k
  BY <1>1, <1>2
<1>10. job[j].ref \in Groups \cup {NoGroup}
  BY <1>2 DEF PaidJob
<1> HIDE DEF m
<1>11. ConsumerFits(m, job', peak)
  BY <1>3, <1>5, <1>8, <1>9, <1>10 DEF ConsumerFits
<1>12. Rises(peak, peak') /\ peak' = peak
  BY <1>2, NothingRises DEF claim
<1>13. /\ peak' \in [Groups -> [Periods -> Peak]] /\ ConsumerFits(m, job', peak')
       /\ failures' \in Nat /\ group' = group /\ usage' \in [UsageRows -> Nat] /\ today' = today /\ updates' = updates
  BY <1>11, <1>12, <1>2 DEF claim, BudgetRows, BudgetTypes
<1> QED
  BY <1>1, <1>6, <1>8, <1>12, <1>13, RowsByConsumer

\* What a check has read is in the history from then on.
LEMMA SeenRises ==
  ASSUME BudgetRows, NEW g \in Groups, NEW l \in Rows, NEW pk, pk = Seen(g, l)
  PROVE  /\ pk \in [Groups -> [Periods -> Peak]] /\ Rises(peak, pk) /\ CoversIn(pk, g, l)
         /\ \A h \in Groups \ {g} : pk[h] = peak[h]
         /\ l \in {NoRow, NoLimits} => \A p \in Periods, f \in Parts : pk[g][p][f] = Unlimited
<1> DEFINE at(p, f) == Higher(peak[g][p][f], Limit(l, f, p))
<1>1. peak \in [Groups -> [Periods -> Peak]]
  BY DEF BudgetRows, BudgetTypes
<1>2. ASSUME NEW p \in Periods, NEW f \in Parts
      PROVE  /\ at(p, f) \in Nat \cup {Unlimited}
             /\ at(p, f) = Unlimited \/ (peak[g][p][f] # Unlimited /\ peak[g][p][f] <= at(p, f))
             /\ at(p, f) = Unlimited \/ (Limit(l, f, p) # Unlimited /\ Limit(l, f, p) <= at(p, f))
             /\ l \in {NoRow, NoLimits} => at(p, f) = Unlimited
  <2>1. peak[g][p][f] \in Nat \cup {Unlimited}
    BY <1>1 DEF Peak
  <2>2. Limit(l, f, p) \in Nat \cup {Unlimited}
    BY DEF Limit, Limits, Parts, Rows
  <2>3. l \in {NoRow, NoLimits} => Limit(l, f, p) = Unlimited
    BY DEF Limit
  <2> HIDE DEF Periods, Parts
  <2> QED
    BY <2>1, <2>2, <2>3 DEF Higher, Unlimited
<1>3. pk = [peak EXCEPT ![g] = [p \in Periods |-> [f \in Parts |-> at(p, f)]]]
  BY DEF Seen, Periods, Parts
<1> HIDE DEF at
<1>4. pk[g] = [p \in Periods |-> [f \in Parts |-> at(p, f)]] /\ \A h \in Groups \ {g} : pk[h] = peak[h]
  BY <1>1, <1>3
<1>5. \A p \in Periods, f \in Parts : pk[g][p][f] = at(p, f)
  BY <1>4
<1>6. \A p \in Periods : [f \in Parts |-> at(p, f)] \in Peak
  BY <1>2 DEF Peak
<1>7. pk \in [Groups -> [Periods -> Peak]]
  BY <1>1, <1>3, <1>6
<1>8. Rises(peak, pk)
  <2> SUFFICES ASSUME NEW h \in Groups, NEW p \in Periods, NEW f \in Parts
      PROVE  pk[h][p][f] = Unlimited \/ (peak[h][p][f] # Unlimited /\ peak[h][p][f] <= pk[h][p][f])
    BY DEF Rises
  <2>1. CASE h = g
    BY <1>2, <1>5, <2>1
  <2>2. CASE h # g
    BY <1>1, <1>4, <2>2, NothingRises DEF Rises
  <2> QED
    BY <2>1, <2>2
<1>9. CoversIn(pk, g, l)
  BY <1>2, <1>5 DEF CoversIn
<1> QED
  BY <1>2, <1>4, <1>5, <1>7, <1>8, <1>9

LEMMA CheckMoves ==
  ASSUME BudgetRows, NEW c \in Consumers, checkGroup(c)
  PROVE  BudgetRows' /\ Stays(job, job')
<1> DEFINE g == job[consumer[c].job].ref
           at == IF group[g] \in {NoRow, NoLimits} THEN "run" ELSE "sums"
           m == [consumer[c] EXCEPT !.limits = group[g], !.at = at]
<1>1. consumer[c].at = "check" /\ consumer' = [consumer EXCEPT ![c] = m] /\ peak' = Seen(g, group[g])
  BY DEF checkGroup
<1>2. consumer[c] \in Holding /\ ConsumerFits(consumer[c], job, peak) /\ group \in [Groups -> Rows]
  BY DEF BudgetRows, BudgetTypes
<1>3. g \in Groups /\ consumer[c].job \in Jobs /\ job[consumer[c].job].at \in Chosen
  BY <1>1, <1>2 DEF ConsumerFits
<1>4. group[g] \in Rows
  BY <1>2, <1>3
<1>5. m \in Holding /\ m.at = at /\ m.limits = group[g] /\ m.job = consumer[c].job
  BY <1>2, <1>4 DEF Holding
<1>6. peak' \in [Groups -> [Periods -> Peak]] /\ Rises(peak, peak') /\ CoversIn(peak', g, group[g])
  BY <1>1, <1>3, <1>4, SeenRises
<1>7. at = "sums" => group[g] \in Limits
  BY <1>4 DEF Rows
<1>8. job' = job
  BY DEF checkGroup
<1> HIDE DEF m
<1>9. ConsumerFits(m, job', peak')
  BY <1>3, <1>5, <1>6, <1>7, <1>8 DEF ConsumerFits
<1>10. job' \in [Jobs -> PaidJob] /\ (\A i \in Jobs : JobFits(job'[i])) /\ Stays(job, job')
  BY <1>8, JobsSame
<1>11. failures' \in Nat /\ group' = group /\ usage' \in [UsageRows -> Nat] /\ today' = today /\ updates' = updates
  BY DEF checkGroup, BudgetRows, BudgetTypes
<1> QED
  BY <1>1, <1>5, <1>6, <1>9, <1>10, <1>11, RowsByConsumer

\* The consumer runs its job now.
LEMMA RunMoves ==
  ASSUME BudgetRows, NEW c \in Consumers, consumer[c].at \in {"check", "sums"},
         consumer' = [consumer EXCEPT ![c] = [consumer[c] EXCEPT !.at = "run"]],
         failures' \in Nat, UNCHANGED <<group, usage, today, job, peak, updates>>
  PROVE  BudgetRows' /\ Stays(job, job')
<1> DEFINE m == [consumer[c] EXCEPT !.at = "run"]
<1>1. consumer[c] \in Holding /\ ConsumerFits(consumer[c], job, peak) /\ peak \in [Groups -> [Periods -> Peak]]
  BY DEF BudgetRows, BudgetTypes
<1>2. m \in Holding /\ m.at = "run" /\ m.job = consumer[c].job
  BY <1>1 DEF Holding
<1> HIDE DEF m
<1>3. ConsumerFits(m, job', peak')
  BY <1>1, <1>2 DEF ConsumerFits
<1>4. job' \in [Jobs -> PaidJob] /\ (\A i \in Jobs : JobFits(job'[i])) /\ Stays(job, job')
  BY JobsSame
<1>5. Rises(peak, peak') /\ peak' \in [Groups -> [Periods -> Peak]]
  BY <1>1, NothingRises
<1>6. group' = group /\ usage' \in [UsageRows -> Nat] /\ today' = today /\ updates' = updates
  BY DEF BudgetRows, BudgetTypes
<1>7. consumer' = [consumer EXCEPT ![c] = m]
  BY DEF m
<1> QED
  BY <1>2, <1>3, <1>4, <1>5, <1>6, <1>7, RowsByConsumer

\* A consumer is free again; its job ends or goes on elsewhere.
LEMMA FreeMoves ==
  ASSUME BudgetRows, NEW c \in Consumers, consumer[c].at # "idle", consumer' = [consumer EXCEPT ![c] = FreeConsumer],
         NEW at \in {"stopped", "done"}, NEW k, k = [job[consumer[c].job] EXCEPT !.at = at],
         job' = job \/ job' = [job EXCEPT ![consumer[c].job] = k],
         usage' \in [UsageRows -> Nat], UNCHANGED <<group, today, peak, failures, updates>>
  PROVE  BudgetRows' /\ Stays(job, job')
<1> DEFINE j == consumer[c].job
<1>1. ConsumerFits(consumer[c], job, peak) /\ job \in [Jobs -> PaidJob] /\ \A i \in Jobs : JobFits(job[i])
  BY DEF BudgetRows, BudgetTypes
<1>2. j \in Jobs /\ job[j].at \in Chosen
  BY <1>1 DEF ConsumerFits
<1>3. /\ k \in PaidJob /\ k.at = at /\ k.user = job[j].user /\ k.service = job[j].service /\ k.ref = job[j].ref
  BY <1>1, <1>2 DEF PaidJob, Chosen
<1>4. JobFits(k)
  BY <1>1, <1>2, <1>3 DEF JobFits, Chosen
<1>5. k.at \in Chosen
  BY <1>3 DEF Chosen
<1>6. job' \in [Jobs -> PaidJob] /\ (\A i \in Jobs : JobFits(job'[i])) /\ Stays(job, job')
  BY <1>2, <1>3, <1>4, <1>5, JobMoves, JobsSame
<1>7. FreeConsumer \in Holding /\ ConsumerFits(FreeConsumer, job', peak')
  BY DEF FreeConsumer, Holding, ConsumerFits, Rows
<1>8. /\ peak' \in [Groups -> [Periods -> Peak]] /\ Rises(peak, peak')
      /\ failures' \in Nat /\ group' = group /\ today' = today /\ updates' = updates
  BY NothingRises DEF BudgetRows, BudgetTypes
<1> QED
  BY <1>6, <1>7, <1>8, RowsByConsumer

LEMMA CheckUsedMoves ==
  ASSUME BudgetRows, NEW c \in Consumers, checkUsed(c)
  PROVE  BudgetRows' /\ Stays(job, job')
<1>1. CASE MayRun(c)
  BY <1>1, RunMoves DEF checkUsed, BudgetRows, BudgetTypes
<1>2. CASE ~MayRun(c)
  BY <1>2, FreeMoves DEF checkUsed, BudgetRows, BudgetTypes
<1> QED
  BY <1>1, <1>2

LEMMA CheckFailsMoves ==
  ASSUME BudgetRows, NEW c \in Consumers, checkFails(c)
  PROVE  BudgetRows' /\ Stays(job, job')
<1>1. failures' \in Nat
  BY DEF checkFails, BudgetRows, BudgetTypes
<1> QED
  BY <1>1, RunMoves DEF checkFails

\* What a report adds.
LEMMA ReportAdds ==
  ASSUME BudgetRows, NEW c \in Consumers, handleMetadata(c)
  PROVE  \E n \in Reports :
           LET j == consumer[c].job
               r == <<job[j].ref, job[j].user, today>>
           IN  /\ j \in Jobs /\ r \in UsageRows /\ n \in Nat /\ usage' \in [UsageRows -> Nat]
               /\ usage'[r] = usage[r] + n /\ \A x \in UsageRows \ {r} : usage'[x] = usage[x]
<1> DEFINE j == consumer[c].job
           r == <<job[j].ref, job[j].user, today>>
<1>1. PICK n \in Reports : usage' = [usage EXCEPT ![r] = usage[r] + n]
  BY DEF handleMetadata
<1>2. ConsumerFits(consumer[c], job, peak) /\ consumer[c].at # "idle"
  BY DEF BudgetRows, handleMetadata
<1>3. j \in Jobs /\ job[j].at \in Chosen
  BY <1>2 DEF ConsumerFits
<1>4. job[j] \in PaidJob /\ JobFits(job[j]) /\ today \in Days /\ usage \in [UsageRows -> Nat]
  BY <1>3 DEF BudgetRows, BudgetTypes
<1>5. job[j].user \in Payers /\ job[j].ref \in Groups \cup {NoGroup}
  BY <1>3, <1>4 DEF JobFits, PaidJob, Chosen
<1>6. r \in UsageRows
  BY <1>4, <1>5 DEF UsageRows
<1>7. n \in Nat
  BY BudgetConstants
<1> HIDE DEF r
<1>8. /\ usage' \in [UsageRows -> Nat]
      /\ usage'[r] = usage[r] + n /\ \A x \in UsageRows \ {r} : usage'[x] = usage[x]
  BY <1>1, <1>4, <1>6, <1>7
<1> QED
  BY <1>3, <1>6, <1>7, <1>8 DEF r

LEMMA ReportMoves ==
  ASSUME BudgetRows, NEW c \in Consumers, handleMetadata(c)
  PROVE  BudgetRows' /\ Stays(job, job')
<1>1. usage' \in [UsageRows -> Nat]
  BY ReportAdds
<1>2. \/ job' = job
      \/ job' = [job EXCEPT ![consumer[c].job] = [job[consumer[c].job] EXCEPT !.at = "done"]]
  BY DEF handleMetadata
<1> QED
  BY <1>1, <1>2, FreeMoves DEF handleMetadata

-----------------------------------------------------------------------------
(* Limits change, and days.                                                *)

LEMMA ChangedIs ==
  ASSUME BudgetRows, job' = Changed
  PROVE  /\ job' \in [Jobs -> PaidJob] /\ (\A i \in Jobs : JobFits(job'[i])) /\ Stays(job, job')
         /\ \A i \in Jobs : job'[i].changed \/ job'[i].at = "new"
<1>1. ASSUME NEW i \in Jobs
      PROVE  /\ job'[i] \in PaidJob /\ JobFits(job'[i]) /\ (job'[i].changed \/ job'[i].at = "new")
             /\ job'[i].at = job[i].at /\ job'[i].ref = job[i].ref /\ job'[i].user = job[i].user
  <2> DEFINE k == [job[i] EXCEPT !.changed = job[i].changed \/ job[i].at # "new"]
  <2>1. job'[i] = k
    BY DEF Changed
  <2>2. job[i] \in PaidJob /\ JobFits(job[i])
    BY DEF BudgetRows, BudgetTypes
  <2>3. (job[i].changed \/ job[i].at # "new") \in BOOLEAN
    OBVIOUS
  <2>4. /\ k \in PaidJob /\ k.at = job[i].at /\ k.user = job[i].user /\ k.ref = job[i].ref
        /\ k.service = job[i].service /\ k.k = job[i].k /\ k.limits = job[i].limits
        /\ k.changed = (job[i].changed \/ job[i].at # "new")
    BY <2>2, <2>3 DEF PaidJob
  <2> HIDE DEF k
  <2>5. JobFits(k)
    BY <2>2, <2>4 DEF JobFits
  <2> QED
    BY <2>1, <2>4, <2>5
<1>2. job' = [i \in Jobs |-> job'[i]]
  BY DEF Changed
<1> QED
  BY <1>1, <1>2 DEF Stays

LEMMA NormalIs ==
  ASSUME NEW raw \in RawLimits
  PROVE  normalizeTokenLimits(raw) \in Rows
<1>1. raw \in [period : STRING, group_total : Int, per_user : Int]
  BY BudgetConstants
<1> DEFINE given == {f \in {"group_total", "per_user"} : raw[f] # 0}
<1>2. CASE raw.period \notin {"", "month", "day"} \/ (\E f \in given : raw[f] < 0) \/ given = {}
  BY <1>2 DEF normalizeTokenLimits, Rows
<1>3. CASE ~(raw.period \notin {"", "month", "day"} \/ (\E f \in given : raw[f] < 0) \/ given = {})
  <2>1. normalizeTokenLimits(raw) = [raw EXCEPT !.period = IF raw.period = "" THEN "month" ELSE raw.period]
    BY <1>3 DEF normalizeTokenLimits
  <2>2. raw.group_total \in Nat /\ raw.per_user \in Nat
    <3>1. raw["group_total"] \in Int /\ raw["per_user"] \in Int /\ raw.group_total = raw["group_total"]
          /\ raw.per_user = raw["per_user"]
      BY <1>1
    <3>2. ASSUME raw["group_total"] # 0 PROVE raw["group_total"] >= 0
      <4>1. "group_total" \in given
        BY <3>2
      <4>2. ~(raw["group_total"] < 0)
        BY <1>3, <4>1
      <4> HIDE DEF given
      <4> QED
        BY <3>1, <4>2
    <3>3. ASSUME raw["per_user"] # 0 PROVE raw["per_user"] >= 0
      <4>1. "per_user" \in given
        BY <3>3
      <4>2. ~(raw["per_user"] < 0)
        BY <1>3, <4>1
      <4> HIDE DEF given
      <4> QED
        BY <3>1, <4>2
    <3> QED
      BY <3>1, <3>2, <3>3
  <2>3. (IF raw.period = "" THEN "month" ELSE raw.period) \in {"day", "month"}
    BY <1>3
  <2> QED
    BY <1>1, <2>1, <2>2, <2>3 DEF Rows, Limits
<1> QED
  BY <1>2, <1>3

LEMMA GroupMoves ==
  ASSUME BudgetRows,
         NEW g \in Groups, (\E raw \in RawLimits : create(g, raw) \/ update(g, raw)) \/ remove(g)
  PROVE  BudgetRows' /\ job' = Changed /\ UNCHANGED <<usage, today, consumer, peak, failures>>
<1>1. \E row \in Rows : group' = [group EXCEPT ![g] = row]
  BY NormalIs DEF create, update, saveGroup, remove, Rows
<1>2. group' \in [Groups -> Rows]
  BY <1>1 DEF BudgetRows, BudgetTypes
<1>3. job' = Changed /\ UNCHANGED <<usage, today, consumer, peak, failures>> /\ updates' = updates + 1
  BY DEF create, update, saveGroup, remove
<1> QED
  BY <1>2, <1>3, ChangedIs, RowsByJobs DEF BudgetRows, BudgetTypes

LEMMA DayMoves ==
  ASSUME BudgetRows, NewDay
  PROVE  BudgetRows' /\ job' = Changed /\ today' \in Days /\ today <= today'
<1>1. today' \in Days /\ today <= today' /\ job' = Changed
  BY BudgetConstants DEF NewDay, BudgetRows, BudgetTypes, Days
<1> QED
  BY <1>1, ChangedIs, RowsByJobs DEF NewDay, BudgetRows, BudgetTypes

LEMMA RowsInit == BudgetInit => BudgetRows
<1> SUFFICES ASSUME BudgetInit PROVE BudgetRows
  OBVIOUS
<1>1. FreshJob \in PaidJob /\ JobFits(FreshJob) /\ FreeConsumer \in Holding /\ FreeConsumer.at = "idle"
  BY DEF FreshJob, PaidJob, JobFits, FreeConsumer, Holding, Rows
<1>2. /\ group \in [Groups -> Rows] /\ usage \in [UsageRows -> Nat] /\ today \in Days
      /\ failures \in Nat /\ updates \in Nat
  BY BudgetConstants DEF BudgetInit, Rows, UsageRows, Days
<1>3. /\ job \in [Jobs -> PaidJob] /\ consumer \in [Consumers -> Holding]
      /\ \A j \in Jobs : JobFits(job[j])
      /\ \A c \in Consumers : consumer[c].at = "idle"
  BY <1>1 DEF BudgetInit
<1>4. peak \in [Groups -> [Periods -> Peak]]
  BY DEF BudgetInit, Periods, Parts, Peak
<1>5. \A c \in Consumers : ConsumerFits(consumer[c], job, peak)
  BY <1>3 DEF ConsumerFits
<1> QED
  BY <1>2, <1>3, <1>4, <1>5 DEF BudgetRows, BudgetTypes

-----------------------------------------------------------------------------
(* Overruns: what is used and what consumers may still report together.    *)

HandsOn(con, jb, g) == {c \in Consumers : con[c].at = "run" /\ jb[con[c].job].ref = g}
HandsFor(con, jb, g, u) == {c \in HandsOn(con, jb, g) : jb[con[c].job].user = u}

\* x is used, h consumers have a job in hand, n checks failed.
Over(x, h, limit, n) ==
  limit # Unlimited =>
    x + h * Max(Reports) < limit + (Cardinality(Consumers) + n) * Max(Reports)

OverOf(g, u, p) ==
  /\ Over(GroupUse(usage, g, StartOf(today, p)), Cardinality(HandsOn(consumer, job, g)),
          peak[g][p]["group_total"], failures)
  /\ Over(UserUse(usage, g, u, StartOf(today, p)), Cardinality(HandsFor(consumer, job, g, u)),
          peak[g][p]["per_user"], failures)
BudgetOver == \A g \in Groups, u \in Payers, p \in Periods : OverOf(g, u, p)

LEMMA HandsAre ==
  ASSUME NEW con, NEW jb, NEW g, NEW u
  PROVE  /\ IsFiniteSet(HandsOn(con, jb, g)) /\ Cardinality(HandsOn(con, jb, g)) \in Nat
         /\ Cardinality(HandsOn(con, jb, g)) <= Cardinality(Consumers)
         /\ IsFiniteSet(HandsFor(con, jb, g, u)) /\ Cardinality(HandsFor(con, jb, g, u)) \in Nat
         /\ Cardinality(HandsFor(con, jb, g, u)) <= Cardinality(Consumers)
         /\ Cardinality(Consumers) \in Nat
<1>1. IsFiniteSet(Consumers)
  BY BudgetConstants
<1>2. HandsOn(con, jb, g) \subseteq Consumers /\ HandsFor(con, jb, g, u) \subseteq Consumers
  BY DEF HandsOn, HandsFor
<1> QED
  BY <1>1, <1>2, FS_Subset, FS_CardinalityType

\* Times the largest report.
LEMMA MostTimes ==
  ASSUME NEW a \in Nat, NEW b \in Nat, NEW m \in Nat, a <= b
  PROVE  a * m <= b * m /\ a * m \in Nat /\ (a + 1) * m = a * m + m
OBVIOUS

LEMMA OverGoesOn ==
  ASSUME NEW x \in Nat, NEW y \in Nat, NEW h \in Nat, NEW i \in Nat, NEW n \in Nat,
         NEW l \in Nat \cup {Unlimited}, NEW k \in Nat \cup {Unlimited},
         Over(x, h, l, n), y <= x, i <= h, k = Unlimited \/ (l # Unlimited /\ l <= k)
  PROVE  Over(y, i, k, n)
<1> DEFINE M == Max(Reports)
           R == (Cardinality(Consumers) + n) * M
<1>1. M \in Nat /\ Cardinality(Consumers) \in Nat
  BY MostIs, HandsAre
<1>2. R \in Nat
  BY <1>1
<1>3. i * M <= h * M /\ i * M \in Nat /\ h * M \in Nat
  BY <1>1, MostTimes
<1> SUFFICES ASSUME k # Unlimited PROVE y + i * M < k + R
  BY DEF Over
<1>4. x + h * M < l + R
  BY DEF Over
<1> HIDE DEF M, R
<1> QED
  BY <1>2, <1>3, <1>4 DEF Unlimited

\* The same with less in hand, or with less used.
LEMMA OverLess ==
  ASSUME NEW x \in Nat, NEW h \in Nat, NEW i \in Nat, NEW n \in Nat, NEW l \in Nat \cup {Unlimited},
         Over(x, h, l, n), i <= h
  PROVE  Over(x, i, l, n)
<1>1. x <= x /\ (l = Unlimited \/ (l # Unlimited /\ l <= l))
  OBVIOUS
<1> QED
  BY <1>1, OverGoesOn

LEMMA OneMore ==
  ASSUME NEW H, IsFiniteSet(H), NEW c, NEW K, K \subseteq H \cup {c}
  PROVE  Cardinality(K) <= Cardinality(H) + 1
<1> DEFINE G == H \cup {c}
<1>1. IsFiniteSet(G) /\ Cardinality(G) = IF c \in H THEN Cardinality(H) ELSE Cardinality(H) + 1
  BY FS_AddElement
<1>2. K \in SUBSET G
  OBVIOUS
<1> HIDE DEF G
<1>3. IsFiniteSet(K) /\ Cardinality(K) <= Cardinality(G)
  BY <1>1, <1>2, FS_Subset
<1>4. Cardinality(K) \in Nat /\ Cardinality(H) \in Nat /\ Cardinality(G) \in Nat
  BY <1>1, <1>3, FS_CardinalityType
<1> QED
  BY <1>1, <1>3, <1>4

LEMMA OneLess ==
  ASSUME NEW H, IsFiniteSet(H), NEW c, NEW K, K \subseteq H \ {c}
  PROVE  Cardinality(K) <= Cardinality(H) /\ (c \in H => Cardinality(K) + 1 <= Cardinality(H))
<1> DEFINE G == H \ {c}
<1>1. IsFiniteSet(G) /\ Cardinality(G) = IF c \in H THEN Cardinality(H) - 1 ELSE Cardinality(H)
  BY FS_RemoveElement
<1>2. K \in SUBSET G
  OBVIOUS
<1> HIDE DEF G
<1>3. IsFiniteSet(K) /\ Cardinality(K) <= Cardinality(G)
  BY <1>1, <1>2, FS_Subset
<1>4. Cardinality(K) \in Nat /\ Cardinality(H) \in Nat /\ Cardinality(G) \in Nat
  BY <1>1, <1>3, FS_CardinalityType
<1> QED
  BY <1>1, <1>3, <1>4

LEMMA OverFails ==
  ASSUME NEW x \in Nat, NEW h \in Nat, NEW i \in Nat, NEW n \in Nat,
         NEW l \in Nat \cup {Unlimited}, Over(x, h, l, n), i <= h + 1
  PROVE  Over(x, i, l, n + 1)
<1> DEFINE M == Max(Reports)
           C == Cardinality(Consumers)
<1>1. M \in Nat /\ C \in Nat
  BY MostIs, HandsAre
<1>2. i * M <= (h + 1) * M /\ (h + 1) * M = h * M + M /\ i * M \in Nat /\ h * M \in Nat
  <2> HIDE DEF M
  <2> QED
    BY <1>1, MostTimes
<1>3. (C + (n + 1)) * M = (C + n) * M + M /\ (C + n) * M \in Nat
  <2>1. C + (n + 1) = (C + n) + 1 /\ C + n \in Nat
    BY <1>1
  <2> HIDE DEF M, C
  <2> QED
    BY <1>1, <2>1, MostTimes
<1> SUFFICES ASSUME l # Unlimited PROVE x + i * M < l + (C + (n + 1)) * M
  BY DEF Over
<1>4. x + h * M < l + (C + n) * M
  BY DEF Over
<1> HIDE DEF M, C
<1> QED
  BY <1>1, <1>2, <1>3, <1>4 DEF Unlimited

LEMMA OverReports ==
  ASSUME NEW x \in Nat, NEW r \in Reports, NEW h \in Nat, NEW i \in Nat, NEW n \in Nat,
         NEW l \in Nat \cup {Unlimited}, Over(x, h, l, n), i + 1 <= h
  PROVE  Over(x + r, i, l, n)
<1> DEFINE M == Max(Reports)
           R == (Cardinality(Consumers) + n) * M
<1>1. M \in Nat /\ Cardinality(Consumers) \in Nat /\ r <= M /\ r \in Nat
  BY MostIs, HandsAre, BudgetConstants
<1>2. R \in Nat
  BY <1>1
<1>3. (i + 1) * M <= h * M /\ (i + 1) * M = i * M + M /\ i * M \in Nat /\ h * M \in Nat
  <2> HIDE DEF M
  <2> QED
    BY <1>1, MostTimes
<1> SUFFICES ASSUME l # Unlimited PROVE (x + r) + i * M < l + R
  BY DEF Over
<1>4. x + h * M < l + R
  BY DEF Over
<1> HIDE DEF M, R
<1> QED
  BY <1>1, <1>2, <1>3, <1>4 DEF Unlimited

\* Below a limit there is room for every consumer.
LEMMA OverChecked ==
  ASSUME NEW x \in Nat, NEW i \in Nat, NEW n \in Nat, NEW k \in Nat \cup {Unlimited},
         k # Unlimited => x < k, i <= Cardinality(Consumers)
  PROVE  Over(x, i, k, n)
<1> DEFINE M == Max(Reports)
           C == Cardinality(Consumers)
<1>1. M \in Nat /\ C \in Nat
  BY MostIs, HandsAre
<1>2. i <= C + n /\ C + n \in Nat
  BY <1>1
<1>3. i * M <= (C + n) * M /\ i * M \in Nat /\ (C + n) * M \in Nat
  <2> HIDE DEF M, C
  <2> QED
    BY <1>1, <1>2, MostTimes
<1> SUFFICES ASSUME k # Unlimited PROVE x + i * M < k + (C + n) * M
  BY DEF Over
<1> HIDE DEF M, C
<1> QED
  BY <1>3 DEF Unlimited

\* Consumers that do not move have in hand what they had.
LEMMA HandsStay ==
  ASSUME BudgetRows, Stays(job, job'), NEW g, NEW u, NEW d \in Consumers, consumer'[d] = consumer[d]
  PROVE  /\ d \in HandsOn(consumer', job', g) <=> d \in HandsOn(consumer, job, g)
         /\ d \in HandsFor(consumer', job', g, u) <=> d \in HandsFor(consumer, job, g, u)
<1>1. consumer[d].at = "run" => consumer[d].job \in Jobs /\ job[consumer[d].job].at \in Chosen
  BY DEF BudgetRows, ConsumerFits
<1>2. consumer[d].at = "run" => /\ job'[consumer[d].job].ref = job[consumer[d].job].ref
                                /\ job'[consumer[d].job].user = job[consumer[d].job].user
  BY <1>1 DEF Stays
<1> QED
  BY <1>2 DEF HandsOn, HandsFor

\* The numbers that Over is about.
LEMMA OverNumbers ==
  ASSUME BudgetRows, NEW g \in Groups, NEW u \in Payers, NEW p \in Periods
  PROVE  /\ GroupUse(usage, g, StartOf(today, p)) \in Nat /\ UserUse(usage, g, u, StartOf(today, p)) \in Nat
         /\ peak[g][p]["group_total"] \in Nat \cup {Unlimited} /\ peak[g][p]["per_user"] \in Nat \cup {Unlimited}
         /\ failures \in Nat /\ StartOf(today, p) \in Nat
<1>1. usage \in [UsageRows -> Nat] /\ today \in Days /\ peak \in [Groups -> [Periods -> Peak]] /\ failures \in Nat
  BY DEF BudgetRows, BudgetTypes
<1>2. StartOf(today, p) \in Nat /\ today <= today
  BY <1>1, PeriodsStart DEF Days
<1>3. \A r \in UsageRows : usage[r] <= usage[r]
  BY <1>1
<1>4. GroupUse(usage, g, StartOf(today, p)) \in Nat /\ UserUse(usage, g, u, StartOf(today, p)) \in Nat
  <2> DEFINE s == StartOf(today, p)
  <2>1. s \in Nat /\ s <= s
    BY <1>2
  <2> HIDE DEF s
  <2>2. GroupUse(usage, g, s) \in Nat /\ UserUse(usage, g, u, s) \in Nat
    BY <1>1, <1>3, <2>1, UseGrows
  <2> QED
    BY <2>2 DEF s
<1>5. peak[g][p] \in Peak
  BY <1>1
<1> QED
  BY <1>1, <1>2, <1>4, <1>5 DEF Peak, Parts

\* Nothing is reported and nothing is begun.
LEMMA OverQuiet ==
  ASSUME BudgetRows, BudgetRows', NEW g \in Groups, NEW u \in Payers, NEW p \in Periods, OverOf(g, u, p),
         usage' = usage, today <= today', failures' = failures, Rises(peak, peak'),
         HandsOn(consumer', job', g) \subseteq HandsOn(consumer, job, g),
         HandsFor(consumer', job', g, u) \subseteq HandsFor(consumer, job, g, u)
  PROVE  OverOf(g, u, p)'
<1>1. /\ usage \in [UsageRows -> Nat] /\ today \in Days /\ today' \in Days
  BY DEF BudgetRows, BudgetTypes
<1>2. StartOf(today, p) <= StartOf(today', p) /\ StartOf(today, p) \in Nat
  BY <1>1, PeriodsStart
<1>3. StartOf(today', p) \in Nat
  <2>1. today' <= today'
    BY <1>1 DEF Days
  <2> QED
    BY <1>1, <2>1, PeriodsStart
<1>4. \A r \in UsageRows : usage[r] <= usage[r]
  BY <1>1
<1>5. /\ GroupUse(usage, g, StartOf(today', p)) \in Nat /\ UserUse(usage, g, u, StartOf(today', p)) \in Nat
      /\ GroupUse(usage, g, StartOf(today', p)) <= GroupUse(usage, g, StartOf(today, p))
      /\ UserUse(usage, g, u, StartOf(today', p)) <= UserUse(usage, g, u, StartOf(today, p))
  <2> DEFINE a == StartOf(today', p)
             b == StartOf(today, p)
  <2>1. a \in Nat /\ b \in Nat /\ b <= a
    BY <1>2, <1>3
  <2> HIDE DEF a, b
  <2>2. /\ GroupUse(usage, g, a) \in Nat /\ UserUse(usage, g, u, a) \in Nat
        /\ GroupUse(usage, g, a) <= GroupUse(usage, g, b) /\ UserUse(usage, g, u, a) <= UserUse(usage, g, u, b)
    BY <1>1, <1>4, <2>1, UseGrows
  <2> QED
    BY <2>2 DEF a, b
<1>6. /\ Cardinality(HandsOn(consumer', job', g)) \in Nat /\ Cardinality(HandsOn(consumer, job, g)) \in Nat
      /\ Cardinality(HandsOn(consumer', job', g)) <= Cardinality(HandsOn(consumer, job, g))
      /\ Cardinality(HandsFor(consumer', job', g, u)) \in Nat /\ Cardinality(HandsFor(consumer, job, g, u)) \in Nat
      /\ Cardinality(HandsFor(consumer', job', g, u)) <= Cardinality(HandsFor(consumer, job, g, u))
  BY HandsAre, FS_Subset
<1>7. /\ GroupUse(usage, g, StartOf(today, p)) \in Nat /\ UserUse(usage, g, u, StartOf(today, p)) \in Nat
      /\ peak[g][p]["group_total"] \in Nat \cup {Unlimited} /\ peak[g][p]["per_user"] \in Nat \cup {Unlimited}
      /\ failures \in Nat
  BY OverNumbers
<1>8. peak'[g][p]["group_total"] \in Nat \cup {Unlimited} /\ peak'[g][p]["per_user"] \in Nat \cup {Unlimited}
  <2>1. peak' \in [Groups -> [Periods -> Peak]]
    BY DEF BudgetRows, BudgetTypes
  <2>2. peak'[g][p] \in Peak
    BY <2>1
  <2> QED
    BY <2>2 DEF Peak, Parts
<1>9. \A f \in Parts : peak'[g][p][f] = Unlimited \/ (peak[g][p][f] # Unlimited /\ peak[g][p][f] <= peak'[g][p][f])
  BY DEF Rises
<1>10. Over(GroupUse(usage, g, StartOf(today', p)), Cardinality(HandsOn(consumer', job', g)),
            peak'[g][p]["group_total"], failures)
  <2> DEFINE x == GroupUse(usage, g, StartOf(today, p))
             y == GroupUse(usage, g, StartOf(today', p))
             h == Cardinality(HandsOn(consumer, job, g))
             i == Cardinality(HandsOn(consumer', job', g))
             l == peak[g][p]["group_total"]
             k == peak'[g][p]["group_total"]
  <2>1. /\ x \in Nat /\ y \in Nat /\ h \in Nat /\ i \in Nat /\ failures \in Nat
        /\ l \in Nat \cup {Unlimited} /\ k \in Nat \cup {Unlimited}
        /\ y <= x /\ i <= h /\ (k = Unlimited \/ (l # Unlimited /\ l <= k))
    BY <1>5, <1>6, <1>7, <1>8, <1>9 DEF Parts
  <2>2. Over(x, h, l, failures)
    BY DEF OverOf
  <2> HIDE DEF x, y, h, i, l, k
  <2>3. Over(y, i, k, failures)
    BY <2>1, <2>2, OverGoesOn
  <2> QED
    BY <2>3 DEF y, i, k
<1>11. Over(UserUse(usage, g, u, StartOf(today', p)), Cardinality(HandsFor(consumer', job', g, u)),
            peak'[g][p]["per_user"], failures)
  <2> DEFINE x == UserUse(usage, g, u, StartOf(today, p))
             y == UserUse(usage, g, u, StartOf(today', p))
             h == Cardinality(HandsFor(consumer, job, g, u))
             i == Cardinality(HandsFor(consumer', job', g, u))
             l == peak[g][p]["per_user"]
             k == peak'[g][p]["per_user"]
  <2>1. /\ x \in Nat /\ y \in Nat /\ h \in Nat /\ i \in Nat /\ failures \in Nat
        /\ l \in Nat \cup {Unlimited} /\ k \in Nat \cup {Unlimited}
        /\ y <= x /\ i <= h /\ (k = Unlimited \/ (l # Unlimited /\ l <= k))
    BY <1>5, <1>6, <1>7, <1>8, <1>9 DEF Parts
  <2>2. Over(x, h, l, failures)
    BY DEF OverOf
  <2> HIDE DEF x, y, h, i, l, k
  <2>3. Over(y, i, k, failures)
    BY <2>1, <2>2, OverGoesOn
  <2> QED
    BY <2>3 DEF y, i, k
<1> QED
  BY <1>10, <1>11 DEF OverOf

\* The history is of the group's limits; who reads none is unlimited.
LEMMA FreeOver ==
  ASSUME NEW g \in Groups, NEW u, NEW p \in Periods,
         \A f \in Parts : peak[g][p][f] = Unlimited
  PROVE  OverOf(g, u, p)
BY DEF OverOf, Over, Parts

\* Steps that move no consumer.
LEMMA OverByJobs ==
  ASSUME BudgetRows, BudgetRows', BudgetOver, Stays(job, job'), UNCHANGED <<usage, consumer, peak, failures>>,
         today <= today'
  PROVE  BudgetOver'
<1> SUFFICES ASSUME NEW g \in Groups, NEW u \in Payers, NEW p \in Periods PROVE OverOf(g, u, p)'
  BY DEF BudgetOver
<1>1. OverOf(g, u, p)
  BY DEF BudgetOver
<1>2. \A d \in Consumers : consumer'[d] = consumer[d]
  OBVIOUS
<1>3. /\ HandsOn(consumer', job', g) \subseteq HandsOn(consumer, job, g)
      /\ HandsFor(consumer', job', g, u) \subseteq HandsFor(consumer, job, g, u)
  <2>1. \A d \in Consumers : /\ d \in HandsOn(consumer', job', g) => d \in HandsOn(consumer, job, g)
                             /\ d \in HandsFor(consumer', job', g, u) => d \in HandsFor(consumer, job, g, u)
    BY <1>2, HandsStay
  <2>2. HandsOn(consumer', job', g) \subseteq Consumers /\ HandsFor(consumer', job', g, u) \subseteq Consumers
    BY DEF HandsOn, HandsFor
  <2> QED
    BY <2>1, <2>2
<1>4. Rises(peak, peak')
  BY NothingRises DEF BudgetRows, BudgetTypes
<1> QED
  BY <1>1, <1>3, <1>4, OverQuiet

\* When consumer c moves, the others have in hand what they had.
LEMMA OthersHands ==
  ASSUME BudgetRows, Stays(job, job'), NEW c \in Consumers, NEW m, consumer' = [consumer EXCEPT ![c] = m]
  PROVE  /\ consumer'[c] = m
         /\ \A d \in Consumers \ {c} : consumer'[d] = consumer[d]
BY DEF BudgetRows, BudgetTypes

LEMMA HandsBut ==
  ASSUME BudgetRows, Stays(job, job'), NEW c \in Consumers, \A d \in Consumers \ {c} : consumer'[d] = consumer[d],
         NEW g, NEW u
  PROVE  /\ HandsOn(consumer', job', g) \subseteq HandsOn(consumer, job, g) \cup {c}
         /\ HandsFor(consumer', job', g, u) \subseteq HandsFor(consumer, job, g, u) \cup {c}
<1>2. \A d \in Consumers \ {c} : /\ d \in HandsOn(consumer', job', g) => d \in HandsOn(consumer, job, g)
                                 /\ d \in HandsFor(consumer', job', g, u) => d \in HandsFor(consumer, job, g, u)
  BY HandsStay
<1>3. HandsOn(consumer', job', g) \subseteq Consumers /\ HandsFor(consumer', job', g, u) \subseteq Consumers
  BY DEF HandsOn, HandsFor
<1> QED
  BY <1>2, <1>3

\* Steps after which consumer c does not run a job of the group.
LEMMA OverElsewhere ==
  ASSUME BudgetRows, BudgetRows', Stays(job, job'), NEW c \in Consumers, NEW m, consumer' = [consumer EXCEPT ![c] = m],
         UNCHANGED <<usage, today, failures>>, Rises(peak, peak'),
         NEW g \in Groups, NEW u \in Payers, NEW p \in Periods, OverOf(g, u, p),
         m.at = "run" => job'[m.job].ref # g
  PROVE  OverOf(g, u, p)'
<1>1. /\ HandsOn(consumer', job', g) \subseteq HandsOn(consumer, job, g)
      /\ HandsFor(consumer', job', g, u) \subseteq HandsFor(consumer, job, g, u)
  <2>1. consumer'[c] = m /\ \A d \in Consumers \ {c} : consumer'[d] = consumer[d]
    BY OthersHands
  <2>2. /\ HandsOn(consumer', job', g) \subseteq HandsOn(consumer, job, g) \cup {c}
        /\ HandsFor(consumer', job', g, u) \subseteq HandsFor(consumer, job, g, u) \cup {c}
    BY <2>1, HandsBut
  <2>3. c \notin HandsOn(consumer', job', g) /\ c \notin HandsFor(consumer', job', g, u)
    BY <2>1 DEF HandsOn, HandsFor
  <2> QED
    BY <2>2, <2>3
<1>2. today <= today'
  BY DEF BudgetRows, BudgetTypes, Days
<1> QED
  BY <1>1, <1>2, OverQuiet

LEMMA ClaimOver ==
  ASSUME BudgetRows, BudgetRows', BudgetOver, Stays(job, job'), NEW c \in Consumers, NEW j \in Jobs, claim(c, j)
  PROVE  BudgetOver'
<1> SUFFICES ASSUME NEW g \in Groups, NEW u \in Payers, NEW p \in Periods PROVE OverOf(g, u, p)'
  BY DEF BudgetOver
<1> DEFINE at == IF job[j].ref = NoGroup THEN "run" ELSE "check"
           m == [job |-> j, limits |-> NoLimits, at |-> at]
<1>1. consumer' = [consumer EXCEPT ![c] = m] /\ UNCHANGED <<usage, today, failures>> /\ peak' = peak
  BY DEF claim
<1>2. Rises(peak, peak')
  BY <1>1, NothingRises DEF BudgetRows, BudgetTypes
<1>3. job'[j].ref = job[j].ref
  <2>1. job[j].at \in Chosen
    BY DEF claim, Chosen
  <2> QED
    BY <2>1 DEF Stays
<1>4. m.at = "run" => job'[m.job].ref # g
  BY <1>3, BudgetConstants
<1> HIDE DEF m
<1>5. OverOf(g, u, p)
  BY DEF BudgetOver
<1> QED
  BY <1>1, <1>2, <1>4, <1>5, OverElsewhere

LEMMA CheckOver ==
  ASSUME BudgetRows, BudgetRows', BudgetOver, Stays(job, job'), NEW c \in Consumers, checkGroup(c)
  PROVE  BudgetOver'
<1> SUFFICES ASSUME NEW g \in Groups, NEW u \in Payers, NEW p \in Periods PROVE OverOf(g, u, p)'
  BY DEF BudgetOver
<1> DEFINE h == job[consumer[c].job].ref
           at == IF group[h] \in {NoRow, NoLimits} THEN "run" ELSE "sums"
           m == [consumer[c] EXCEPT !.limits = group[h], !.at = at]
<1>1. /\ consumer[c].at = "check" /\ consumer' = [consumer EXCEPT ![c] = m] /\ peak' = Seen(h, group[h])
      /\ UNCHANGED <<usage, today, failures, job>>
  BY DEF checkGroup
<1>2. consumer[c] \in Holding /\ ConsumerFits(consumer[c], job, peak) /\ group \in [Groups -> Rows]
  BY DEF BudgetRows, BudgetTypes
<1>3. h \in Groups /\ group[h] \in Rows
  BY <1>1, <1>2 DEF ConsumerFits
<1>4. /\ Rises(peak, peak')
      /\ group[h] \in {NoRow, NoLimits} => \A q \in Periods, f \in Parts : peak'[h][q][f] = Unlimited
  <2> DEFINE l == group[h]
  <2>1. peak' = Seen(h, l) /\ h \in Groups /\ l \in Rows
    BY <1>1, <1>3
  <2> HIDE DEF h, l
  <2>2. /\ Rises(peak, peak')
        /\ l \in {NoRow, NoLimits} => \A q \in Periods, f \in Parts : peak'[h][q][f] = Unlimited
    BY <2>1, SeenRises
  <2> QED
    BY <2>2 DEF l
<1>5. m.at = at /\ m.job = consumer[c].job
  BY <1>2 DEF Holding
<1>6. CASE at = "run" /\ g = h
  <2>1. \A f \in Parts : peak'[g][p][f] = Unlimited
    BY <1>4, <1>6
  <2> QED
    BY <2>1 DEF OverOf, Over, Parts
<1>7. CASE ~(at = "run" /\ g = h)
  <2>1. m.at = "run" => job'[m.job].ref # g
    BY <1>1, <1>5, <1>7
  <2>2. OverOf(g, u, p)
    BY DEF BudgetOver
  <2> HIDE DEF m
  <2> QED
    BY <1>1, <1>4, <2>1, <2>2, OverElsewhere
<1> QED
  BY <1>6, <1>7

\* What a check that lets a job run has found.
LEMMA CheckedFinds ==
  ASSUME BudgetRows, NEW c \in Consumers, checkUsed(c), MayRun(c), NEW p \in Periods
  PROVE  LET j == consumer[c].job
             g == job[j].ref
             u == job[j].user
         IN  /\ g \in Groups /\ u \in Payers
             /\ peak[g][p]["group_total"] # Unlimited => GroupUse(usage, g, StartOf(today, p)) < peak[g][p]["group_total"]
             /\ peak[g][p]["per_user"] # Unlimited => UserUse(usage, g, u, StartOf(today, p)) < peak[g][p]["per_user"]
<1> DEFINE j == consumer[c].job
           g == job[j].ref
           u == job[j].user
           l == consumer[c].limits
           a == StartOf(today, p)
           b == StartOf(today, l.period)
<1>1. /\ consumer[c].at = "sums" /\ ConsumerFits(consumer[c], job, peak) /\ job \in [Jobs -> PaidJob]
      /\ \A i \in Jobs : JobFits(job[i])
      /\ usage \in [UsageRows -> Nat] /\ today \in Days
  BY DEF checkUsed, BudgetRows, BudgetTypes
<1>2. j \in Jobs /\ job[j].at \in Chosen /\ g \in Groups /\ l \in Limits /\ CoversIn(peak, g, l)
  BY <1>1 DEF ConsumerFits
<1>3. u \in Payers
  BY <1>1, <1>2 DEF JobFits, Chosen
<1>4. l.period \in Periods /\ l.group_total \in Nat /\ l.per_user \in Nat /\ l \notin {NoLimits, NoRow}
      /\ l["group_total"] = l.group_total /\ l["per_user"] = l.per_user
  BY <1>2, BudgetConstants DEF Limits, Periods
<1>5. a \in Nat /\ b \in Nat
  BY <1>1, <1>4, OverNumbers, <1>2, <1>3
<1>6. /\ l.group_total # 0 => ~(GroupUse(usage, g, b) >= l.group_total)
      /\ l.per_user # 0 => ~(UserUse(usage, g, u, b) >= l.per_user)
  <2>1. ~exhaustedReason(l, used(g, u, l.period))
    BY DEF MayRun
  <2>2. /\ l.group_total # 0 => ~(used(g, u, l.period).group >= l.group_total)
        /\ l.per_user # 0 => ~(used(g, u, l.period).user >= l.per_user)
    BY <1>4, <2>1 DEF exhaustedReason
  <2> QED
    BY <2>2, UsedIs
<1>7. ~(p = "month" /\ l.period = "day") => b <= a
  BY <1>1, <1>4, PeriodsStart DEF Periods, Days
<1>8. b <= a => /\ GroupUse(usage, g, a) <= GroupUse(usage, g, b)
                /\ UserUse(usage, g, u, a) <= UserUse(usage, g, u, b)
  <2>1. \A r \in UsageRows : usage[r] <= usage[r]
    BY <1>1
  <2> HIDE DEF a, b, g, u
  <2> QED
    BY <1>1, <1>2, <1>3, <1>5, <2>1, UseGrows
<1>9. /\ GroupUse(usage, g, a) \in Nat /\ UserUse(usage, g, u, a) \in Nat
      /\ GroupUse(usage, g, b) \in Nat /\ UserUse(usage, g, u, b) \in Nat
      /\ peak[g][p]["group_total"] \in Nat \cup {Unlimited} /\ peak[g][p]["per_user"] \in Nat \cup {Unlimited}
  BY <1>2, <1>3, <1>4, OverNumbers
<1>10. ASSUME NEW f \in Parts, peak[g][p][f] # Unlimited
       PROVE  l[f] # 0 /\ l[f] <= peak[g][p][f] /\ ~(p = "month" /\ l.period = "day")
  <2>1. Limit(l, f, p) # Unlimited /\ Limit(l, f, p) <= peak[g][p][f]
    BY <1>2, <1>10 DEF CoversIn
  <2> QED
    BY <2>1 DEF Limit
<1>11. peak[g][p]["group_total"] # Unlimited => GroupUse(usage, g, a) < peak[g][p]["group_total"]
  <2> SUFFICES ASSUME peak[g][p]["group_total"] # Unlimited PROVE GroupUse(usage, g, a) < peak[g][p]["group_total"]
    OBVIOUS
  <2>1. l.group_total # 0 /\ l.group_total <= peak[g][p]["group_total"] /\ ~(p = "month" /\ l.period = "day")
    BY <1>4, <1>10 DEF Parts
  <2>2. GroupUse(usage, g, a) <= GroupUse(usage, g, b) /\ ~(GroupUse(usage, g, b) >= l.group_total)
    BY <1>6, <1>7, <1>8, <2>1
  <2> HIDE DEF a, b, g, l
  <2> QED
    BY <1>4, <1>9, <2>1, <2>2
<1>12. peak[g][p]["per_user"] # Unlimited => UserUse(usage, g, u, a) < peak[g][p]["per_user"]
  <2> SUFFICES ASSUME peak[g][p]["per_user"] # Unlimited PROVE UserUse(usage, g, u, a) < peak[g][p]["per_user"]
    OBVIOUS
  <2>1. l.per_user # 0 /\ l.per_user <= peak[g][p]["per_user"] /\ ~(p = "month" /\ l.period = "day")
    BY <1>4, <1>10 DEF Parts
  <2>2. UserUse(usage, g, u, a) <= UserUse(usage, g, u, b) /\ ~(UserUse(usage, g, u, b) >= l.per_user)
    BY <1>6, <1>7, <1>8, <2>1
  <2> HIDE DEF a, b, g, u, l
  <2> QED
    BY <1>4, <1>9, <2>1, <2>2
<1> QED
  BY <1>2, <1>3, <1>11, <1>12

LEMMA CheckUsedOver ==
  ASSUME BudgetRows, BudgetRows', BudgetOver, Stays(job, job'), NEW c \in Consumers, checkUsed(c)
  PROVE  BudgetOver'
<1> SUFFICES ASSUME NEW g \in Groups, NEW u \in Payers, NEW p \in Periods PROVE OverOf(g, u, p)'
  BY DEF BudgetOver
<1>1. UNCHANGED <<usage, today, peak, failures>> /\ OverOf(g, u, p) /\ consumer[c] \in Holding
  BY DEF checkUsed, BudgetOver, BudgetRows, BudgetTypes
<1>2. Rises(peak, peak')
  BY <1>1, NothingRises DEF BudgetRows, BudgetTypes
<1>3. CASE ~MayRun(c)
  <2>1. consumer' = [consumer EXCEPT ![c] = FreeConsumer] /\ FreeConsumer.at # "run"
    BY <1>3 DEF checkUsed, FreeConsumer
  <2> QED
    BY <1>1, <1>2, <2>1, OverElsewhere
<1>4. CASE MayRun(c)
  <2> DEFINE m == [consumer[c] EXCEPT !.at = "run"]
             h == job[consumer[c].job].ref
             v == job[consumer[c].job].user
  <2>1. consumer' = [consumer EXCEPT ![c] = m] /\ job' = job
    BY <1>4 DEF checkUsed
  <2>2. m.at = "run" /\ m.job = consumer[c].job
    BY <1>1 DEF Holding
  <2>3. CASE h # g
    <3>1. m.at = "run" => job'[m.job].ref # g
      BY <2>1, <2>2, <2>3
    <3> HIDE DEF m
    <3> QED
      BY <1>1, <1>2, <2>1, <3>1, OverElsewhere
  <2>4. CASE h = g
    <3>1. /\ peak[g][p]["group_total"] # Unlimited => GroupUse(usage, g, StartOf(today, p)) < peak[g][p]["group_total"]
          /\ v = u /\ peak[g][p]["per_user"] # Unlimited =>
               UserUse(usage, g, u, StartOf(today, p)) < peak[g][p]["per_user"]
      BY <1>4, <2>4, CheckedFinds
    <3>2. /\ GroupUse(usage, g, StartOf(today, p)) \in Nat /\ UserUse(usage, g, u, StartOf(today, p)) \in Nat
          /\ peak[g][p]["group_total"] \in Nat \cup {Unlimited} /\ peak[g][p]["per_user"] \in Nat \cup {Unlimited}
          /\ failures \in Nat
      BY OverNumbers
    <3>3. /\ Cardinality(HandsOn(consumer', job', g)) \in Nat
          /\ Cardinality(HandsOn(consumer', job', g)) <= Cardinality(Consumers)
          /\ Cardinality(HandsFor(consumer', job', g, u)) \in Nat
          /\ Cardinality(HandsFor(consumer', job', g, u)) <= Cardinality(Consumers)
      BY HandsAre
    <3>4. Over(GroupUse(usage, g, StartOf(today, p)), Cardinality(HandsOn(consumer', job', g)),
               peak[g][p]["group_total"], failures)
      BY <3>1, <3>2, <3>3, OverChecked
    <3>5. Over(UserUse(usage, g, u, StartOf(today, p)), Cardinality(HandsFor(consumer', job', g, u)),
               peak[g][p]["per_user"], failures)
      <4>1. CASE v = u
        BY <3>1, <3>2, <3>3, <4>1, OverChecked
      <4>2. CASE v # u
        <5>1. HandsFor(consumer', job', g, u) \subseteq HandsFor(consumer, job, g, u)
          <6>1. job'[m.job].user # u
            BY <2>1, <2>2, <4>2
          <6> HIDE DEF m
          <6>2. consumer'[c] = m /\ \A d \in Consumers \ {c} : consumer'[d] = consumer[d]
            BY <2>1 DEF BudgetRows, BudgetTypes
          <6>3. HandsFor(consumer', job', g, u) \subseteq HandsFor(consumer, job, g, u) \cup {c}
            BY <6>2, HandsBut
          <6>4. c \notin HandsFor(consumer', job', g, u)
            BY <6>1, <6>2 DEF HandsFor
          <6> QED
            BY <6>3, <6>4
        <5> DEFINE x == UserUse(usage, g, u, StartOf(today, p))
                   i == Cardinality(HandsFor(consumer', job', g, u))
                   k == Cardinality(HandsFor(consumer, job, g, u))
                   l == peak[g][p]["per_user"]
        <5>2. k \in Nat /\ i <= k
          BY <5>1, HandsAre, FS_Subset
        <5>3. Over(x, k, l, failures)
          BY <1>1 DEF OverOf
        <5>4. x \in Nat /\ i \in Nat /\ l \in Nat \cup {Unlimited} /\ failures \in Nat /\ x <= x
              /\ (l = Unlimited \/ (l # Unlimited /\ l <= l))
          BY <3>2, <3>3
        <5> HIDE DEF x, i, k, l
        <5>5. Over(x, i, l, failures)
          BY <5>2, <5>3, <5>4, OverGoesOn
        <5> QED
          BY <5>5 DEF x, i, l
      <4> QED
        BY <4>1, <4>2
    <3> QED
      BY <1>1, <3>4, <3>5 DEF OverOf
  <2> QED
    BY <2>3, <2>4
<1> QED
  BY <1>3, <1>4

LEMMA CheckFailsOver ==
  ASSUME BudgetRows, BudgetRows', BudgetOver, Stays(job, job'), NEW c \in Consumers, checkFails(c)
  PROVE  BudgetOver'
<1> SUFFICES ASSUME NEW g \in Groups, NEW u \in Payers, NEW p \in Periods PROVE OverOf(g, u, p)'
  BY DEF BudgetOver
<1> DEFINE m == [consumer[c] EXCEPT !.at = "run"]
           H == HandsOn(consumer, job, g)
           K == HandsOn(consumer', job', g)
           HF == HandsFor(consumer, job, g, u)
           KF == HandsFor(consumer', job', g, u)
<1>1. consumer' = [consumer EXCEPT ![c] = m] /\ UNCHANGED <<usage, today, peak>> /\ failures' = failures + 1
  BY DEF checkFails
<1>2. K \subseteq H \cup {c} /\ KF \subseteq HF \cup {c}
  <2> HIDE DEF m
  <2>1. \A d \in Consumers \ {c} : consumer'[d] = consumer[d]
    BY <1>1 DEF BudgetRows, BudgetTypes
  <2>2. /\ HandsOn(consumer', job', g) \subseteq HandsOn(consumer, job, g) \cup {c}
        /\ HandsFor(consumer', job', g, u) \subseteq HandsFor(consumer, job, g, u) \cup {c}
    BY <2>1, HandsBut
  <2> QED
    BY <2>2
<1>3. /\ IsFiniteSet(H) /\ Cardinality(H) \in Nat /\ Cardinality(K) \in Nat
      /\ IsFiniteSet(HF) /\ Cardinality(HF) \in Nat /\ Cardinality(KF) \in Nat
  BY HandsAre
<1> HIDE DEF H, K, HF, KF, m
<1>4. Cardinality(K) <= Cardinality(H) + 1 /\ Cardinality(KF) <= Cardinality(HF) + 1
  BY <1>2, <1>3, OneMore
<1>5. /\ GroupUse(usage, g, StartOf(today, p)) \in Nat /\ UserUse(usage, g, u, StartOf(today, p)) \in Nat
      /\ peak[g][p]["group_total"] \in Nat \cup {Unlimited} /\ peak[g][p]["per_user"] \in Nat \cup {Unlimited}
      /\ failures \in Nat
  BY OverNumbers
<1>6. /\ Over(GroupUse(usage, g, StartOf(today, p)), Cardinality(H), peak[g][p]["group_total"], failures)
      /\ Over(UserUse(usage, g, u, StartOf(today, p)), Cardinality(HF), peak[g][p]["per_user"], failures)
  BY DEF BudgetOver, OverOf, H, HF
<1>7. /\ Over(GroupUse(usage, g, StartOf(today, p)), Cardinality(K), peak[g][p]["group_total"], failures + 1)
      /\ Over(UserUse(usage, g, u, StartOf(today, p)), Cardinality(KF), peak[g][p]["per_user"], failures + 1)
  BY <1>3, <1>4, <1>5, <1>6, OverFails
<1> QED
  BY <1>1, <1>7 DEF OverOf, K, KF

LEMMA ReportOver ==
  ASSUME BudgetRows, BudgetRows', BudgetOver, Stays(job, job'), NEW c \in Consumers, handleMetadata(c)
  PROVE  BudgetOver'
<1> SUFFICES ASSUME NEW g \in Groups, NEW u \in Payers, NEW p \in Periods PROVE OverOf(g, u, p)'
  BY DEF BudgetOver
<1> DEFINE j == consumer[c].job
           r == <<job[j].ref, job[j].user, today>>
           s == StartOf(today, p)
           H == HandsOn(consumer, job, g)
           K == HandsOn(consumer', job', g)
           HF == HandsFor(consumer, job, g, u)
           KF == HandsFor(consumer', job', g, u)
<1>1. PICK n \in Reports : /\ r \in UsageRows /\ n \in Nat /\ usage' \in [UsageRows -> Nat]
                           /\ usage'[r] = usage[r] + n /\ \A x \in UsageRows \ {r} : usage'[x] = usage[x]
  BY ReportAdds
<1>2. /\ consumer[c].at = "run" /\ consumer' = [consumer EXCEPT ![c] = FreeConsumer] /\ UNCHANGED <<today, peak, failures>>
  BY DEF handleMetadata
<1>3. /\ usage \in [UsageRows -> Nat] /\ today \in Days /\ s \in Nat /\ s <= today
  BY PeriodsStart DEF BudgetRows, BudgetTypes, Days
<1>4. /\ GroupUse(usage', g, s) = IF job[j].ref = g THEN GroupUse(usage, g, s) + n ELSE GroupUse(usage, g, s)
      /\ UserUse(usage', g, u, s) = IF job[j].ref = g /\ job[j].user = u THEN UserUse(usage, g, u, s) + n
                                    ELSE UserUse(usage, g, u, s)
  <2>1. r[1] = job[j].ref /\ r[2] = job[j].user /\ r[3] = today
    OBVIOUS
  <2> HIDE DEF r, s
  <2>2. /\ GroupUse(usage', g, s) = IF r[1] = g THEN GroupUse(usage, g, s) + n ELSE GroupUse(usage, g, s)
        /\ UserUse(usage', g, u, s) = IF r[1] = g /\ r[2] = u THEN UserUse(usage, g, u, s) + n ELSE UserUse(usage, g, u, s)
    BY <1>1, <1>3, <2>1, UseAdds
  <2> QED
    BY <2>1, <2>2
<1>5. K \subseteq H \ {c} /\ KF \subseteq HF \ {c}
  <2>1. FreeConsumer.at # "run"
    BY DEF FreeConsumer
  <2>2. consumer'[c] = FreeConsumer /\ \A d \in Consumers \ {c} : consumer'[d] = consumer[d]
    BY <1>2 DEF BudgetRows, BudgetTypes
  <2>3. /\ HandsOn(consumer', job', g) \subseteq HandsOn(consumer, job, g) \cup {c}
        /\ HandsFor(consumer', job', g, u) \subseteq HandsFor(consumer, job, g, u) \cup {c}
    BY <2>2, HandsBut
  <2>4. c \notin HandsOn(consumer', job', g) /\ c \notin HandsFor(consumer', job', g, u)
    BY <2>1, <2>2 DEF HandsOn, HandsFor
  <2> QED
    BY <2>3, <2>4
<1>6. (c \in H <=> job[j].ref = g) /\ (c \in HF <=> job[j].ref = g /\ job[j].user = u)
  BY <1>2 DEF HandsOn, HandsFor
<1>7. /\ IsFiniteSet(H) /\ Cardinality(H) \in Nat /\ Cardinality(K) \in Nat
      /\ IsFiniteSet(HF) /\ Cardinality(HF) \in Nat /\ Cardinality(KF) \in Nat
  BY HandsAre
<1>8. /\ GroupUse(usage, g, s) \in Nat /\ UserUse(usage, g, u, s) \in Nat
      /\ peak[g][p]["group_total"] \in Nat \cup {Unlimited} /\ peak[g][p]["per_user"] \in Nat \cup {Unlimited}
      /\ failures \in Nat
  BY OverNumbers
<1>9. /\ Over(GroupUse(usage, g, s), Cardinality(H), peak[g][p]["group_total"], failures)
      /\ Over(UserUse(usage, g, u, s), Cardinality(HF), peak[g][p]["per_user"], failures)
  BY DEF BudgetOver, OverOf
<1> HIDE DEF r, s, H, K, HF, KF
<1>10. /\ Cardinality(K) <= Cardinality(H) /\ (c \in H => Cardinality(K) + 1 <= Cardinality(H))
       /\ Cardinality(KF) <= Cardinality(HF) /\ (c \in HF => Cardinality(KF) + 1 <= Cardinality(HF))
  BY <1>5, <1>7, OneLess
<1>11. Over(GroupUse(usage', g, s), Cardinality(K), peak[g][p]["group_total"], failures)
  <2>1. CASE job[j].ref = g
    <3>1. c \in H /\ GroupUse(usage', g, s) = GroupUse(usage, g, s) + n
      BY <1>4, <1>6, <2>1
    <3> QED
      BY <1>7, <1>8, <1>9, <1>10, <3>1, OverReports
  <2>2. CASE job[j].ref # g
    <3>1. GroupUse(usage', g, s) = GroupUse(usage, g, s)
      BY <1>4, <2>2
    <3> QED
      BY <1>7, <1>8, <1>9, <1>10, <3>1, OverLess
  <2> QED
    BY <2>1, <2>2
<1>12. Over(UserUse(usage', g, u, s), Cardinality(KF), peak[g][p]["per_user"], failures)
  <2>1. CASE job[j].ref = g /\ job[j].user = u
    <3>1. c \in HF /\ UserUse(usage', g, u, s) = UserUse(usage, g, u, s) + n
      BY <1>4, <1>6, <2>1
    <3> QED
      BY <1>7, <1>8, <1>9, <1>10, <3>1, OverReports
  <2>2. CASE ~(job[j].ref = g /\ job[j].user = u)
    <3>1. UserUse(usage', g, u, s) = UserUse(usage, g, u, s)
      BY <1>4, <2>2
    <3> QED
      BY <1>7, <1>8, <1>9, <1>10, <3>1, OverLess
  <2> QED
    BY <2>1, <2>2
<1> QED
  BY <1>2, <1>11, <1>12 DEF OverOf, K, KF, s

-----------------------------------------------------------------------------
(* Refusals: the groups a job has passed by are used up.                   *)

RefusedBy(gr, us, day, u, g) ==
  /\ gr[g] \in Limits
  /\ \/ gr[g].group_total # 0 /\ GroupUse(us, g, StartOf(day, gr[g].period)) >= gr[g].group_total
     \/ gr[g].per_user # 0 /\ UserUse(us, g, u, StartOf(day, gr[g].period)) >= gr[g].per_user

\* What a job that is choosing has found; limits or days that changed excuse it.
Asked(k, gr, us, day) ==
  (~k.changed /\ k.at \in {"choose", "used", "tooMany"}) =>
    /\ \A i \in candidatesOf(k.user, k.service) :
         (k.at = "tooMany" \/ i < k.k) => RefusedBy(gr, us, day, k.user, PaidServices[k.service][i])
    /\ k.at = "used" => k.limits = gr[PaidServices[k.service][k.k]]

BudgetAsked == \A j \in Jobs : Asked(job[j], group, usage, today)

LEMMA RefusedGoesOn ==
  ASSUME NEW us \in [UsageRows -> Nat], NEW vs \in [UsageRows -> Nat], \A r \in UsageRows : us[r] <= vs[r],
         NEW gr, NEW day \in Days, NEW u \in Payers, NEW g \in Groups, RefusedBy(gr, us, day, u, g)
  PROVE  RefusedBy(gr, vs, day, u, g)
<1> DEFINE s == StartOf(day, gr[g].period)
<1>1. gr[g] \in Limits
  BY DEF RefusedBy
<1>2. gr[g].period \in Periods /\ gr[g].group_total \in Nat /\ gr[g].per_user \in Nat
  BY <1>1 DEF Limits, Periods
<1>3. s \in Nat /\ s <= s
  <2>1. day <= day
    BY DEF Days
  <2>2. s \in Nat
    BY <1>2, <2>1, PeriodsStart
  <2> HIDE DEF s
  <2> QED
    BY <2>2
<1>4. /\ GroupUse(us, g, s) \in Nat /\ UserUse(us, g, u, s) \in Nat
      /\ GroupUse(us, g, s) <= GroupUse(vs, g, s) /\ UserUse(us, g, u, s) <= UserUse(vs, g, u, s)
  <2> HIDE DEF s
  <2> QED
    BY <1>3, UseGrows
<1>5. GroupUse(vs, g, s) \in Nat /\ UserUse(vs, g, u, s) \in Nat
  <2>1. \A r \in UsageRows : vs[r] <= vs[r]
    OBVIOUS
  <2> HIDE DEF s
  <2> QED
    BY <1>3, <2>1, UseGrows
<1>6. \/ gr[g].group_total # 0 /\ GroupUse(us, g, s) >= gr[g].group_total
      \/ gr[g].per_user # 0 /\ UserUse(us, g, u, s) >= gr[g].per_user
  BY DEF RefusedBy
<1>7. \/ gr[g].group_total # 0 /\ GroupUse(vs, g, s) >= gr[g].group_total
      \/ gr[g].per_user # 0 /\ UserUse(vs, g, u, s) >= gr[g].per_user
  <2> HIDE DEF s
  <2> QED
    BY <1>2, <1>4, <1>5, <1>6
<1> QED
  BY <1>1, <1>7 DEF RefusedBy

\* Reports only make groups more used up.
LEMMA AskedGoesOn ==
  ASSUME BudgetRows, BudgetRows', BudgetAsked, group' = group, today' = today,
         \A r \in UsageRows : usage[r] <= usage'[r], NEW j \in Jobs,
         job'[j] = job[j] \/ job'[j].at \in Chosen
  PROVE  Asked(job'[j], group', usage', today')
<1>1. CASE job'[j].at \in Chosen
  BY <1>1 DEF Asked, Chosen
<1>2. CASE job'[j] = job[j]
  <2> DEFINE k == job[j]
  <2> SUFFICES ASSUME ~k.changed /\ k.at \in {"choose", "used", "tooMany"}
      PROVE  /\ \A i \in candidatesOf(k.user, k.service) :
                  (k.at = "tooMany" \/ i < k.k) => RefusedBy(group, usage', today, k.user, PaidServices[k.service][i])
             /\ k.at = "used" => k.limits = group[PaidServices[k.service][k.k]]
    BY <1>2 DEF Asked
  <2>1. /\ \A i \in candidatesOf(k.user, k.service) :
             (k.at = "tooMany" \/ i < k.k) => RefusedBy(group, usage, today, k.user, PaidServices[k.service][i])
        /\ k.at = "used" => k.limits = group[PaidServices[k.service][k.k]]
    BY DEF BudgetAsked, Asked
  <2>2. k.user \in Payers /\ k.service \in Services
    BY DEF BudgetRows, JobFits
  <2>3. \A i \in candidatesOf(k.user, k.service) : PaidServices[k.service][i] \in Groups
    BY <2>2, CandidatesAre
  <2>4. usage \in [UsageRows -> Nat] /\ usage' \in [UsageRows -> Nat] /\ today \in Days
    BY DEF BudgetRows, BudgetTypes
  <2> HIDE DEF k
  <2>5. ASSUME NEW i \in candidatesOf(k.user, k.service),
               RefusedBy(group, usage, today, k.user, PaidServices[k.service][i])
        PROVE  RefusedBy(group, usage', today, k.user, PaidServices[k.service][i])
    BY <2>2, <2>3, <2>4, <2>5, RefusedGoesOn
  <2> QED
    BY <2>1, <2>5
<1> QED
  BY <1>1, <1>2

\* A step that moves one job, and what that job then has found.
LEMMA AskedByOne ==
  ASSUME BudgetRows, BudgetRows', BudgetAsked, UNCHANGED <<group, usage, today>>,
         NEW j \in Jobs, NEW k, job' = [job EXCEPT ![j] = k],
         k.at \in Chosen \/ Asked(k, group, usage, today)
  PROVE  BudgetAsked'
<1> SUFFICES ASSUME NEW i \in Jobs PROVE Asked(job'[i], group', usage', today')
  BY DEF BudgetAsked
<1>1. job'[i] = IF i = j THEN k ELSE job[i]
  BY DEF BudgetRows, BudgetTypes
<1>2. CASE i = j /\ k.at \notin Chosen
  BY <1>1, <1>2
<1>3. CASE i # j \/ k.at \in Chosen
  <2>1. \A r \in UsageRows : usage[r] <= usage'[r]
    BY DEF BudgetRows, BudgetTypes
  <2>2. job'[i] = job[i] \/ job'[i].at \in Chosen
    BY <1>1, <1>3
  <2> QED
    BY <2>1, <2>2, AskedGoesOn
<1> QED
  BY <1>2, <1>3

LEMMA ChooseAsks ==
  ASSUME BudgetRows, BudgetRows', BudgetAsked, NEW j \in Jobs, NEW u \in Payers, NEW s \in Services, choose(j, u, s)
  PROVE  BudgetAsked'
<1> DEFINE mine == candidatesOf(u, s)
           to == IF PaidServices[s] = <<>> THEN "queued" ELSE IF mine = {} THEN "forbidden" ELSE "choose"
           k == [job[j] EXCEPT !.user = u, !.service = s, !.at = to, !.k = IF mine = {} THEN 0 ELSE Min(mine)]
<1>1. job' = [job EXCEPT ![j] = k] /\ UNCHANGED <<group, usage, today>>
  BY DEF choose
<1>2. job[j] \in PaidJob
  BY DEF BudgetRows, BudgetTypes
<1>3. mine \subseteq Nat /\ (mine # {} => Min(mine) \in mine /\ \A i \in mine : Min(mine) <= i)
  BY LeastIs, CandidatesAre
<1>4. to \in {"queued", "forbidden", "choose"} /\ (to = "choose" => mine # {})
  OBVIOUS
<1> HIDE DEF to
<1>5. k.at = to /\ k.user = u /\ k.service = s /\ (mine # {} => k.k = Min(mine))
  BY <1>2 DEF PaidJob
<1> HIDE DEF k
<1>6. Asked(k, group, usage, today)
  <2> SUFFICES ASSUME to = "choose", NEW i \in mine, i < k.k PROVE FALSE
    BY <1>4, <1>5 DEF Asked
  <2>1. i \in Nat /\ k.k \in Nat /\ k.k <= i
    BY <1>3, <1>4, <1>5
  <2> QED
    BY <2>1
<1> QED
  BY <1>1, <1>6, AskedByOne

LEMMA ChooseGroupAsks ==
  ASSUME BudgetRows, BudgetRows', BudgetAsked, NEW j \in Jobs, chooseGroup(j)
  PROVE  BudgetAsked'
<1> DEFINE g == Candidate(j)
           free == group[g] \in {NoRow, NoLimits}
           k == [job[j] EXCEPT !.limits = group[g], !.at = IF free THEN "queued" ELSE "used",
                               !.ref = IF free THEN g ELSE job[j].ref]
<1>1. job' = [job EXCEPT ![j] = k] /\ job[j].at = "choose" /\ UNCHANGED <<group, usage, today>>
  BY DEF chooseGroup
<1>2. job[j] \in PaidJob /\ Asked(job[j], group, usage, today)
  BY DEF BudgetRows, BudgetTypes, BudgetAsked
<1>3. /\ k.at = IF free THEN "queued" ELSE "used"
      /\ k.limits = group[g] /\ k.user = job[j].user /\ k.service = job[j].service /\ k.k = job[j].k
      /\ k.changed = job[j].changed
  BY <1>2 DEF PaidJob
<1>4. g = PaidServices[job[j].service][job[j].k]
  BY DEF Candidate
<1> HIDE DEF k, free, g
<1>5. k.at \in Chosen \/ Asked(k, group, usage, today)
  <2>1. CASE free
    BY <1>3, <2>1 DEF Chosen
  <2>2. CASE ~free
    BY <1>1, <1>2, <1>3, <1>4, <2>2 DEF Asked
  <2> QED
    BY <2>1, <2>2
<1> QED
  BY <1>1, <1>5, AskedByOne

LEMMA ChooseUsedAsks ==
  ASSUME BudgetRows, BudgetRows', BudgetAsked, NEW j \in Jobs, chooseUsed(j)
  PROVE  BudgetAsked'
<1> DEFINE l == job[j].limits
           u == job[j].user
           g == Candidate(j)
           use == used(g, u, l.period)
           x == exhaustedReason(l, use)
           k == [job[j] EXCEPT !.at = "queued", !.ref = g]
<1>1. /\ job[j].at = "used" /\ job' = IF x THEN NextCandidate(j) ELSE [job EXCEPT ![j] = k]
      /\ UNCHANGED <<group, usage, today>>
  BY DEF chooseUsed
<1>2. job[j] \in PaidJob /\ Asked(job[j], group, usage, today) /\ JobFits(job[j])
  BY DEF BudgetRows, BudgetTypes, BudgetAsked
<1>3. CASE ~x
  <2>1. job' = [job EXCEPT ![j] = k]
    BY <1>1, <1>3
  <2>2. k.at \in Chosen
    BY <1>2 DEF PaidJob, Chosen
  <2> HIDE DEF k
  <2> QED
    BY <1>1, <2>1, <2>2, AskedByOne
<1>4. CASE x
  <2>1. PICK m \in PaidJob :
           /\ job' = [job EXCEPT ![j] = m] /\ JobFits(m) /\ m.at \in {"choose", "tooMany"}
           /\ m.user = job[j].user /\ m.service = job[j].service /\ m.changed = job[j].changed
           /\ m.k \in Nat
           /\ \A i \in candidates(j) : (m.at = "tooMany" \/ i < m.k) => i <= job[j].k
    BY <1>1, <1>4, NextIs
  <2>2. ASSUME ~job[j].changed, NEW i \in candidates(j), i <= job[j].k
        PROVE  RefusedBy(group, usage, today, u, PaidServices[job[j].service][i])
    <3>1. /\ \A n \in candidates(j) : n < job[j].k =>
                 RefusedBy(group, usage, today, u, PaidServices[job[j].service][n])
          /\ l = group[g]
      BY <1>1, <1>2, <2>2 DEF Asked, candidates, Candidate
    <3>2. i \in Nat /\ job[j].k \in Nat
      BY <1>1, <1>2, CandidatesAre DEF JobFits, candidates
    <3>3. CASE i < job[j].k
      BY <3>1, <3>3
    <3>4. CASE i = job[j].k
      <4>1. g = PaidServices[job[j].service][i]
        BY <3>4 DEF Candidate
      <4>2. l \in Limits /\ l.period = group[g].period
        BY <1>1, <1>2, <3>1 DEF JobFits
      <4>3. \/ l.group_total # 0 /\ use.group >= l.group_total
            \/ l.per_user # 0 /\ use.user >= l.per_user
        <5> HIDE DEF l, use
        <5> QED
          BY <1>4 DEF exhaustedReason
      <4>4. /\ use.group = GroupUse(usage, g, StartOf(today, l.period))
            /\ use.user = UserUse(usage, g, u, StartOf(today, l.period))
        BY UsedIs
      <4> HIDE DEF l, use, g, u
      <4> QED
        BY <3>1, <4>1, <4>2, <4>3, <4>4 DEF RefusedBy
    <3> QED
      BY <2>2, <3>2, <3>3, <3>4
  <2>3. Asked(m, group, usage, today)
    <3>1. candidates(j) = candidatesOf(m.user, m.service)
      BY <2>1 DEF candidates
    <3> HIDE DEF l, use, g, x, k
    <3> QED
      BY <2>1, <2>2, <3>1 DEF Asked
  <2> QED
    BY <1>1, <2>1, <2>3, AskedByOne
<1> QED
  BY <1>3, <1>4

\* Consumers, and leases, take jobs that were chosen.
LEMMA OthersAsk ==
  ASSUME BudgetRows, BudgetRows', BudgetAsked, Stays(job, job'), UNCHANGED <<group, today>>,
         \A r \in UsageRows : usage[r] <= usage'[r],
         \A i \in Jobs : job'[i] = job[i] \/ job[i].at \in Chosen
  PROVE  BudgetAsked'
<1> SUFFICES ASSUME NEW i \in Jobs PROVE Asked(job'[i], group', usage', today')
  BY DEF BudgetAsked
<1>1. job'[i] = job[i] \/ job'[i].at \in Chosen
  BY DEF Stays
<1> QED
  BY <1>1, AskedGoesOn

LEMMA ChangedAsks == ASSUME BudgetRows, job' = Changed PROVE BudgetAsked'
<1> SUFFICES ASSUME NEW i \in Jobs PROVE Asked(job'[i], group', usage', today')
  BY DEF BudgetAsked
<1>1. job'[i].changed \/ job'[i].at = "new"
  BY ChangedIs
<1> QED
  BY <1>1 DEF Asked

-----------------------------------------------------------------------------
(* The invariant.                                                          *)

BudgetInv == BudgetRows /\ BudgetOver /\ BudgetAsked

LEMMA BudgetBegins == BudgetInit => BudgetInv
<1> SUFFICES ASSUME BudgetInit PROVE BudgetInv
  OBVIOUS
<1>1. BudgetRows
  BY RowsInit
<1>2. BudgetAsked
  BY DEF BudgetInit, FreshJob, BudgetAsked, Asked
<1>3. BudgetOver
  <2> SUFFICES ASSUME NEW g \in Groups, NEW u \in Payers, NEW p \in Periods PROVE OverOf(g, u, p)
    BY DEF BudgetOver
  <2> DEFINE s == StartOf(today, p)
  <2>1. usage \in [UsageRows -> Nat] /\ failures \in Nat
    BY <1>1 DEF BudgetRows, BudgetTypes
  <2>2. \A r \in UsageRows : usage[r] = 0
    BY DEF BudgetInit, UsageRows
  <2>3. GroupUse(usage, g, s) = 0 /\ UserUse(usage, g, u, s) = 0
    <3> DEFINE G == GroupRows(g, s)
               U == UserRows(g, u, s)
    <3>1. G \in SUBSET UsageRows /\ IsFiniteSet(G) /\ U \in SUBSET UsageRows /\ IsFiniteSet(U)
      BY RowsAreFinite
    <3> HIDE DEF G, U
    <3>2. (\A r \in G : usage[r] = 0) /\ (\A r \in U : usage[r] = 0)
      BY <2>2, <3>1
    <3>3. SumOf(usage, G) = 0 /\ SumOf(usage, U) = 0
      BY <2>1, <3>1, <3>2, SumZero
    <3> QED
      BY <3>3 DEF GroupUse, UserUse, G, U
  <2>4. peak[g][p]["group_total"] = 1 /\ peak[g][p]["per_user"] = 1
    BY DEF BudgetInit, Periods
  <2>5. /\ Cardinality(HandsOn(consumer, job, g)) \in Nat
        /\ Cardinality(HandsOn(consumer, job, g)) <= Cardinality(Consumers)
        /\ Cardinality(HandsFor(consumer, job, g, u)) \in Nat
        /\ Cardinality(HandsFor(consumer, job, g, u)) <= Cardinality(Consumers)
    BY HandsAre
  <2>6. /\ Over(0, Cardinality(HandsOn(consumer, job, g)), 1, failures)
        /\ Over(0, Cardinality(HandsFor(consumer, job, g, u)), 1, failures)
    BY <2>1, <2>5, OverChecked
  <2> QED
    BY <2>3, <2>4, <2>6 DEF OverOf, s
<1> QED
  BY <1>1, <1>2, <1>3 DEF BudgetInv

LEMMA UsageStands ==
  ASSUME BudgetRows, usage' = usage
  PROVE  \A r \in UsageRows : usage[r] <= usage'[r]
BY DEF BudgetRows, BudgetTypes

LEMMA SameDay == ASSUME BudgetRows, today' = today PROVE today <= today'
BY DEF BudgetRows, BudgetTypes, Days

LEMMA JobsAct ==
  ASSUME BudgetInv, NEW j \in Jobs,
         (\E u \in Payers, s \in Services : choose(j, u, s)) \/ chooseGroup(j) \/ chooseUsed(j) \/ LeaseLapses(j)
  PROVE  BudgetInv'
<1>1. BudgetRows /\ BudgetOver /\ BudgetAsked
  BY DEF BudgetInv
<1>2. BudgetRows' /\ Stays(job, job')
  BY <1>1, ChooseMoves, ChooseGroupMoves, ChooseUsedMoves, LapseMoves
<1>3. UNCHANGED <<group, usage, today, consumer, peak, failures>>
  BY DEF choose, chooseGroup, chooseUsed, LeaseLapses
<1>4. BudgetOver'
  BY <1>1, <1>2, <1>3, SameDay, OverByJobs
<1>5. BudgetAsked'
  <2>1. CASE \E u \in Payers, s \in Services : choose(j, u, s)
    BY <1>1, <1>2, <2>1, ChooseAsks
  <2>2. CASE chooseGroup(j)
    BY <1>1, <1>2, <2>2, ChooseGroupAsks
  <2>3. CASE chooseUsed(j)
    BY <1>1, <1>2, <2>3, ChooseUsedAsks
  <2>4. CASE LeaseLapses(j)
    <3>1. \A i \in Jobs : job'[i] = job[i] \/ job[i].at \in Chosen
      BY <1>1, <2>4 DEF LeaseLapses, Chosen, BudgetRows, BudgetTypes
    <3> QED
      BY <1>1, <1>2, <1>3, <3>1, UsageStands, OthersAsk
  <2> QED
    BY <2>1, <2>2, <2>3, <2>4
<1> QED
  BY <1>2, <1>4, <1>5 DEF BudgetInv

LEMMA ConsumersAct ==
  ASSUME BudgetInv, NEW c \in Consumers,
         (\E j \in Jobs : claim(c, j)) \/ checkGroup(c) \/ checkUsed(c) \/ checkFails(c) \/ handleMetadata(c)
  PROVE  BudgetInv'
<1>1. BudgetRows /\ BudgetOver /\ BudgetAsked
  BY DEF BudgetInv
<1>2. BudgetRows' /\ Stays(job, job')
  BY <1>1, ClaimMoves, CheckMoves, CheckUsedMoves, CheckFailsMoves, ReportMoves
<1>3. BudgetOver'
  BY <1>1, <1>2, ClaimOver, CheckOver, CheckUsedOver, CheckFailsOver, ReportOver
<1>4. UNCHANGED <<group, today>>
  BY DEF claim, checkGroup, checkUsed, checkFails, handleMetadata
<1>5. \A r \in UsageRows : usage[r] <= usage'[r]
  <2>1. CASE handleMetadata(c)
    <3> DEFINE j == consumer[c].job
               r == <<job[j].ref, job[j].user, today>>
    <3>1. PICK n \in Reports : /\ r \in UsageRows /\ n \in Nat
                               /\ usage'[r] = usage[r] + n /\ \A x \in UsageRows \ {r} : usage'[x] = usage[x]
      BY <1>1, <2>1, ReportAdds
    <3>2. usage \in [UsageRows -> Nat]
      BY <1>1 DEF BudgetRows, BudgetTypes
    <3> HIDE DEF r
    <3> QED
      BY <3>1, <3>2
  <2>2. CASE ~handleMetadata(c)
    <3>1. usage' = usage
      BY <2>2 DEF claim, checkGroup, checkUsed, checkFails
    <3> QED
      BY <1>1, <3>1, UsageStands
  <2> QED
    BY <2>1, <2>2
<1>6. \A i \in Jobs : job'[i] = job[i] \/ job[i].at \in Chosen
  <2>1. job \in [Jobs -> PaidJob]
    BY <1>1 DEF BudgetRows, BudgetTypes
  <2>2. CASE \E j \in Jobs : claim(c, j)
    BY <2>1, <2>2 DEF claim, Chosen
  <2>3. CASE checkGroup(c) \/ checkFails(c)
    BY <2>3 DEF checkGroup, checkFails
  <2>4. CASE checkUsed(c) \/ handleMetadata(c)
    <3>1. consumer[c].at # "idle" /\ ConsumerFits(consumer[c], job, peak)
      BY <1>1, <2>4 DEF checkUsed, handleMetadata, BudgetRows
    <3>2. job[consumer[c].job].at \in Chosen
      BY <3>1 DEF ConsumerFits
    <3>3. \/ job' = job
          \/ \E k : job' = [job EXCEPT ![consumer[c].job] = k]
      BY <2>4 DEF checkUsed, handleMetadata
    <3> QED
      BY <2>1, <3>2, <3>3
  <2> QED
    BY <2>2, <2>3, <2>4
<1>7. BudgetAsked'
  BY <1>1, <1>2, <1>4, <1>5, <1>6, OthersAsk
<1> QED
  BY <1>2, <1>3, <1>7 DEF BudgetInv

LEMMA LimitsAct ==
  ASSUME BudgetInv,
         (\E g \in Groups : (\E raw \in RawLimits : create(g, raw) \/ update(g, raw)) \/ remove(g)) \/ NewDay
  PROVE  BudgetInv'
<1>1. BudgetRows /\ BudgetOver
  BY DEF BudgetInv
<1>2. BudgetRows' /\ job' = Changed /\ UNCHANGED <<usage, consumer, peak, failures>>
  <2>1. CASE NewDay
    BY <1>1, <2>1, DayMoves DEF NewDay
  <2>2. CASE ~NewDay
    BY <1>1, <2>2, GroupMoves
  <2> QED
    BY <2>1, <2>2
<1>3. today <= today'
  <2>1. CASE NewDay
    BY <1>1, <2>1, DayMoves
  <2>2. CASE ~NewDay
    BY <1>1, <2>2, GroupMoves, SameDay
  <2> QED
    BY <2>1, <2>2
<1>4. Stays(job, job')
  BY <1>1, <1>2, ChangedIs
<1>5. BudgetOver'
  BY <1>1, <1>2, <1>3, <1>4, OverByJobs
<1>6. BudgetAsked'
  BY <1>1, <1>2, ChangedAsks
<1> QED
  BY <1>2, <1>5, <1>6 DEF BudgetInv

LEMMA BudgetGoesOn == BudgetInv /\ [BudgetNext]_budgetVars => BudgetInv'
<1> SUFFICES ASSUME BudgetInv, [BudgetNext]_budgetVars PROVE BudgetInv'
  OBVIOUS
<1>1. CASE BudgetNext
  <2>1. CASE \E j \in Jobs : (\E u \in Payers, s \in Services : choose(j, u, s))
                            \/ chooseGroup(j) \/ chooseUsed(j) \/ LeaseLapses(j)
    BY <2>1, JobsAct
  <2>2. CASE \E c \in Consumers : (\E j \in Jobs : claim(c, j))
                            \/ checkGroup(c) \/ checkUsed(c) \/ checkFails(c) \/ handleMetadata(c)
    BY <2>2, ConsumersAct
  <2>3. CASE (\E g \in Groups : (\E raw \in RawLimits : create(g, raw) \/ update(g, raw)) \/ remove(g)) \/ NewDay
    BY <2>3, LimitsAct
  <2> QED
    BY <1>1, <2>1, <2>2, <2>3 DEF BudgetNext
<1>2. CASE UNCHANGED budgetVars
  <2>1. BudgetRows /\ BudgetOver /\ BudgetAsked /\ UNCHANGED budgetVars
    BY <1>2 DEF BudgetInv
  <2>2. BudgetRows'
    BY <2>1 DEF budgetVars, BudgetRows, BudgetTypes, JobFits, ConsumerFits
  <2>3. BudgetAsked'
    BY <2>1 DEF budgetVars, BudgetAsked
  <2>4. Stays(job, job')
    BY <2>1, JobsSame DEF budgetVars
  <2>5. BudgetOver'
    BY <2>1, <2>2, <2>4, SameDay, OverByJobs DEF budgetVars
  <2> QED
    BY <2>2, <2>3, <2>5 DEF BudgetInv
<1> QED
  BY <1>1, <1>2

LEMMA BudgetSays == BudgetInv => BudgetIsKept
<1> SUFFICES ASSUME BudgetInv PROVE BudgetIsKept
  OBVIOUS
<1>0. BudgetRows /\ BudgetOver /\ BudgetAsked
  BY DEF BudgetInv
<1>1. OverrunIsBounded
  <2> SUFFICES ASSUME NEW g \in Groups, NEW u \in Payers, NEW p \in Periods
      PROVE  LET over == (Cardinality(Consumers) + failures) * Max(Reports) IN
             /\ Within(used(g, u, p).group, peak[g][p].group_total, over)
             /\ Within(used(g, u, p).user, peak[g][p].per_user, over)
    BY DEF OverrunIsBounded, Periods
  <2>1. OverOf(g, u, p)
    BY <1>0 DEF BudgetOver
  <2>2. /\ GroupUse(usage, g, StartOf(today, p)) \in Nat /\ UserUse(usage, g, u, StartOf(today, p)) \in Nat
        /\ peak[g][p]["group_total"] \in Nat \cup {Unlimited} /\ peak[g][p]["per_user"] \in Nat \cup {Unlimited}
        /\ failures \in Nat
    BY <1>0, OverNumbers
  <2>3. Cardinality(Consumers) \in Nat /\ Max(Reports) \in Nat
        /\ Cardinality(HandsOn(consumer, job, g)) \in Nat /\ Cardinality(HandsFor(consumer, job, g, u)) \in Nat
    BY HandsAre, MostIs
  <2>4. ASSUME NEW x \in Nat, NEW h \in Nat, NEW l \in Nat \cup {Unlimited}, Over(x, h, l, failures)
        PROVE  Within(x, l, (Cardinality(Consumers) + failures) * Max(Reports))
    <3> DEFINE M == Max(Reports)
               R == (Cardinality(Consumers) + failures) * M
    <3>1. R \in Nat /\ h * M \in Nat
      BY <2>2, <2>3
    <3>2. l # Unlimited => x + h * M < l + R
      BY <2>4 DEF Over
    <3> HIDE DEF M, R
    <3>3. l # Unlimited => x < l + R
      BY <3>1, <3>2
    <3> QED
      BY <3>3 DEF Within, M, R
  <2>5. /\ Within(GroupUse(usage, g, StartOf(today, p)), peak[g][p]["group_total"],
                  (Cardinality(Consumers) + failures) * Max(Reports))
        /\ Within(UserUse(usage, g, u, StartOf(today, p)), peak[g][p]["per_user"],
                  (Cardinality(Consumers) + failures) * Max(Reports))
    BY <2>1, <2>2, <2>3, <2>4 DEF OverOf
  <2>6. /\ used(g, u, p).group = GroupUse(usage, g, StartOf(today, p))
        /\ used(g, u, p).user = UserUse(usage, g, u, StartOf(today, p))
    BY UsedIs
  <2> QED
    BY <2>5, <2>6
<1>2. RefusedOnlyWhenUsedUp
  <2> SUFFICES ASSUME NEW j \in Jobs, job[j].at = "tooMany", ~job[j].changed, NEW k \in candidates(j),
                      NEW g, g = PaidServices[job[j].service][k]
      PROVE  /\ group[g] \notin {NoRow, NoLimits}
             /\ exhaustedReason(group[g], used(g, job[j].user, group[g].period))
    BY DEF RefusedOnlyWhenUsedUp
  <2>1. RefusedBy(group, usage, today, job[j].user, g)
    BY <1>0 DEF BudgetAsked, Asked, candidates
  <2>2. group[g] \notin {NoRow, NoLimits}
    BY <2>1, BudgetConstants DEF RefusedBy
  <2> DEFINE use == used(g, job[j].user, group[g].period)
  <2>3. /\ use.group = GroupUse(usage, g, StartOf(today, group[g].period))
        /\ use.user = UserUse(usage, g, job[j].user, StartOf(today, group[g].period))
    BY UsedIs
  <2> HIDE DEF use
  <2>4. exhaustedReason(group[g], use)
    BY <2>1, <2>2, <2>3 DEF RefusedBy, exhaustedReason
  <2> QED
    BY <2>2, <2>4 DEF use
<1> QED
  BY <1>1, <1>2 DEF BudgetIsKept

\* However slow consumers are, however often checks fail and limits change, a
\* group and a user overrun their limits by no more than was in hand, and a job
\* is refused only when each of its groups is used up (token-budget.ts).
THEOREM BudgetsHold == BudgetSpec => []BudgetIsKept
<1>1. BudgetSpec => []BudgetInv
  BY BudgetBegins, BudgetGoesOn, PTL DEF BudgetSpec
<1> QED
  BY <1>1, BudgetSays, PTL

-----------------------------------------------------------------------------
(* What is offered (Matching).                                             *)

\* The types and extensions of a set are those of its files.
LEMMA SetOfFiles ==
  ASSUME NEW n
  PROVE  /\ \A f \in n.files : Extensions(Single(f)) = {f.extension} /\ NodeTypes(Single(f)) = {f.type}
         /\ \A X : X \cap Extensions(n) # {} <=> \E f \in n.files : X \cap Extensions(Single(f)) # {}
         /\ \A X : X \cap NodeTypes(n) # {} <=> \E f \in n.files : X \cap NodeTypes(Single(f)) # {}
BY DEF Extensions, NodeTypes, Single

\* A task fits a set exactly when it fits one of its files.
LEMMA SetFitsByAFile ==
  ASSUME NEW s, NEW t, NEW n
  PROVE  Fits(s, t, n) <=> \E f \in n.files : Fits(s, t, Single(f))
<1>1. \A f \in n.files : Extensions(Single(f)) = {f.extension} /\ NodeTypes(Single(f)) = {f.type}
  BY SetOfFiles
<1>2. \A X : X \cap Extensions(n) # {} <=> \E f \in n.files : X \cap Extensions(Single(f)) # {}
  BY SetOfFiles
<1>3. \A X : X \cap NodeTypes(n) # {} <=> \E f \in n.files : X \cap NodeTypes(Single(f)) # {}
  BY SetOfFiles
<1>. DEFINE Fit(m) == Supports(s, t, m)
<1>. SUFFICES Fit(n) <=> \E f \in n.files : Fit(Single(f))
  BY DEF Fits
<1>4. CASE t.types # {}
  <2>1. \A m : Fit(m) <=> t.types \cap NodeTypes(m) # {}
    BY <1>4 DEF Supports
  <2>. HIDE DEF Fit
  <2>. QED  BY <1>3, <2>1
<1>5. CASE t.types = {} /\ t.formats # {}
  <2>1. \A m : Fit(m) <=> t.formats \cap Extensions(m) # {}
    BY <1>5 DEF Supports
  <2>. HIDE DEF Fit
  <2>. QED  BY <1>2, <2>1
<1>6. CASE t.types = {} /\ t.formats = {} /\ s.types # {}
  <2>1. \A m : Fit(m) <=> s.types \cap NodeTypes(m) # {}
    BY <1>6 DEF Supports
  <2>. HIDE DEF Fit
  <2>. QED  BY <1>3, <2>1
<1>7. CASE t.types = {} /\ t.formats = {} /\ s.types = {}
  <2>1. \A m : Fit(m) <=> s.formats \cap Extensions(m) # {}
    BY <1>7 DEF Supports
  <2>. HIDE DEF Fit
  <2>. QED  BY <1>2, <2>1
<1>. QED  BY <1>4, <1>5, <1>6, <1>7

\* Whoever offers a file something has no reason to offer its sets nothing.
LEMMA OfferedAtAll ==
  ASSUME NEW s, NEW n, n.processable = TRUE, NEW groups, NEW filter
  PROVE  /\ servicesForNode(s, n, groups, filter) \subseteq pickTasks(s, n, groups, filter)
         /\ (servicesForNode(s, n, groups, filter) # {} => ~(s.category = "system" \/ ~s.live))
         /\ ((~(s.category = "system" \/ ~s.live) /\ ~(n.set /\ s.setDisabled)) =>
               servicesForNode(s, n, groups, filter) = pickTasks(s, n, groups, filter))
<1>1. CASE s.category = "system" \/ ~s.live
  BY <1>1 DEF servicesForNode
<1>2. CASE ~(s.category = "system" \/ ~s.live) /\ n.set /\ s.setDisabled
  BY <1>2 DEF servicesForNode
<1>3. CASE ~(s.category = "system" \/ ~s.live) /\ ~(n.set /\ s.setDisabled)
  BY <1>3 DEF servicesForNode
<1>. QED  BY <1>1, <1>2, <1>3

\* A set hides no task of its files.
LEMMA FilesAreOffered ==
  ASSUME NEW o \in Offerers, NEW n \in Nodes, n.set, NEW groups, NEW filter, NEW f \in n.files,
         ~Descriptor[o].setDisabled,
         NEW t \in servicesForNode(Descriptor[o], Single(f), groups, filter), Alike(Descriptor[o], f, t)
  PROVE  t \in servicesForNode(Descriptor[o], n, groups, filter)
<1>. DEFINE s == Descriptor[o]
            one == Single(f)
<1>0. n.set = TRUE /\ n.processable = TRUE
  BY DEF Nodes
<1>1. one.set = FALSE /\ one.processable = TRUE /\ one.files = {f}
  BY DEF Single
<1>2. t \in pickTasks(s, one, groups, filter) /\ ~(s.category = "system" \/ ~s.live)
  <2>. HIDE DEF s, one
  <2>. t \in servicesForNode(s, one, groups, filter)
    BY DEF s, one
  <2>. QED  BY <1>1, OfferedAtAll
<1>3. servicesForNode(s, n, groups, filter) = pickTasks(s, n, groups, filter)
  <2>. HIDE DEF s, one
  <2>1. ~s.setDisabled
    BY DEF s
  <2>. QED  BY <1>0, <1>2, <2>1, OfferedAtAll
<1>4. pickModels(one, s) \subseteq pickModels(n, s)
  <2>1. Extensions(one) \subseteq Extensions(n)
    BY <1>1 DEF Extensions
  <2>. QED  BY <1>0, <1>1, <2>1 DEF pickModels
<1>5. ForGroups(s.groups, groups) /\ (s.external => pickModels(n, s) # {})
  BY <1>2, <1>4 DEF pickTasks
<1>6. ASSUME t \in fixedTasks(s, one, groups, filter)
      PROVE  t \in fixedTasks(s, n, groups, filter)
  <2>1. t \in DOMAIN s.tasks /\ ForGroups(s.tasks[t].groups, groups) /\ filterTask(filter, s.tasks[t])
        /\ Fits(s, s.tasks[t], one)
    BY <1>6 DEF fixedTasks
  <2>2. ~s.tasks[t].setDisabled
    BY <2>1 DEF Alike
  <2>3. Fits(s, s.tasks[t], n)
    BY <2>1, SetFitsByAFile
  <2>. QED  BY <1>0, <2>1, <2>2, <2>3 DEF fixedTasks
<1>7. ASSUME t \in promptsToTasks(one, filter)
      PROVE  t \in promptsToTasks(n, filter)
  <2>1. t \in PromptTypes /\ filter = "" /\ t = f.type
    <3>1. NodeTypes(one) = {f.type}
      BY <1>1 DEF NodeTypes
    <3>. QED  BY <1>1, <1>7, <3>1 DEF promptsToTasks
  <2>2. t \notin DOMAIN s.tasks
    BY <2>1, MatchingConstants
  <2>3. t \in {"text", "image"} /\ f.extension \in PromptExtensions(t)
    BY <2>1, <2>2 DEF Alike
  <2>4. f.extension \in Extensions(n)
    BY DEF Extensions
  <2>5. Extensions(n) \cap PromptExtensions(t) # {}
    BY <2>3, <2>4
  <2>6. n.set /\ t \in PromptTypes /\ filter = "" /\ t \in {"text", "image"}
    BY <2>1, <2>3
  <2>. QED  BY <2>5, <2>6, Zenon DEF promptsToTasks
<1>8. t \in fixedTasks(s, one, groups, filter) \/ (s.external /\ t \in promptsToTasks(one, filter))
  BY <1>2 DEF pickTasks
<1>. QED  BY <1>3, <1>5, <1>6, <1>7, <1>8 DEF pickTasks

\* What a set is offered by a service with tasks of its own, one of its files is.
LEMMA SetsGetTheirFiles ==
  ASSUME NEW o \in Offerers, NEW n \in Nodes, n.set, NEW groups, NEW filter,
         ~Descriptor[o].external,
         NEW t \in servicesForNode(Descriptor[o], n, groups, filter),
         ~ForSet(Descriptor[o], Descriptor[o].tasks[t])
  PROVE  \E f \in n.files : t \in servicesForNode(Descriptor[o], Single(f), groups, filter)
<1>. DEFINE s == Descriptor[o]
<1>1. n.set = TRUE /\ n.processable = TRUE
  BY DEF Nodes
<1>2. t \in pickTasks(s, n, groups, filter) /\ ~(s.category = "system" \/ ~s.live)
  <2>. HIDE DEF s
  <2>. t \in servicesForNode(s, n, groups, filter)
    BY DEF s
  <2>. QED  BY <1>1, OfferedAtAll
<1>3. ForGroups(s.groups, groups) /\ t \in fixedTasks(s, n, groups, filter)
  BY <1>2 DEF pickTasks
<1>4. t \in DOMAIN s.tasks /\ ForGroups(s.tasks[t].groups, groups) /\ filterTask(filter, s.tasks[t])
      /\ Fits(s, s.tasks[t], n)
  BY <1>3 DEF fixedTasks
<1>5. PICK f \in n.files : Fits(s, s.tasks[t], Single(f))
  BY <1>4, SetFitsByAFile
<1>6. Single(f).set = FALSE /\ Single(f).processable = TRUE
  BY DEF Single
<1>7. t \in fixedTasks(s, Single(f), groups, filter)
  BY <1>4, <1>5, <1>6 DEF fixedTasks
<1>8. t \in pickTasks(s, Single(f), groups, filter)
  BY <1>3, <1>7 DEF pickTasks
<1>9. servicesForNode(s, Single(f), groups, filter) = pickTasks(s, Single(f), groups, filter)
  <2>. HIDE DEF s
  <2>. QED  BY <1>2, <1>6, OfferedAtAll
<1>. QED  BY <1>8, <1>9

\* What was offered last is what the node and its asker are to be offered.
OffersInv == /\ node.set => node \in Nodes
             /\ offered = Offers(node, asker)

LEMMA OffersAreRight ==
  ASSUME OffersInv
  PROVE  SetOffersWhatItsFilesGet
<1>. SUFFICES ASSUME node.set, NEW o \in Offerers
              PROVE  LET s == Descriptor[o]
                         ofFile(f) == servicesForNode(s, Single(f), asker.groups, asker.filter) IN
                     /\ s.setDisabled \/ \A f \in node.files : {t \in ofFile(f) : Alike(s, f, t)} \subseteq offered[o]
                     /\ s.external \/ \A t \in offered[o] :
                          ForSet(s, s.tasks[t]) \/ \E f \in node.files : t \in ofFile(f)
  BY DEF SetOffersWhatItsFilesGet
<1>1. node \in Nodes /\ offered[o] = servicesForNode(Descriptor[o], node, asker.groups, asker.filter)
  BY DEF OffersInv, Offers
<1>2. ASSUME ~Descriptor[o].setDisabled, NEW f \in node.files,
             NEW t \in servicesForNode(Descriptor[o], Single(f), asker.groups, asker.filter),
             Alike(Descriptor[o], f, t)
      PROVE  t \in offered[o]
  <2>. PICK groups, filter : groups = asker.groups /\ filter = asker.filter
    OBVIOUS
  <2>1. t \in servicesForNode(Descriptor[o], Single(f), groups, filter)
    OBVIOUS
  <2>2. t \in servicesForNode(Descriptor[o], node, groups, filter)
    BY <1>1, <1>2, <2>1, FilesAreOffered
  <2>. QED  BY <1>1, <2>2
<1>3. ASSUME ~Descriptor[o].external, NEW t \in offered[o], ~ForSet(Descriptor[o], Descriptor[o].tasks[t])
      PROVE  \E f \in node.files : t \in servicesForNode(Descriptor[o], Single(f), asker.groups, asker.filter)
  BY <1>1, <1>3, SetsGetTheirFiles
<1>. QED  BY <1>2, <1>3

\* SetOffersWhatItsFilesGet holds for any services, tasks, prompts, files and
\* groups: a set does not hide a task its files are offered, and is offered no
\* task that takes none of them (matching.ts:27-111).
THEOREM SetsHideNoTask == MatchingSpec => []SetOffersWhatItsFilesGet
<1>1. MatchingInit => OffersInv
  <2>. SUFFICES ASSUME MatchingInit
                PROVE  OffersInv
    OBVIOUS
  <2>1. node = [set |-> FALSE, files |-> {}, processable |-> TRUE] /\ offered = Offers(node, asker)
    BY DEF MatchingInit
  <2>2. ~node.set
    BY <2>1
  <2>. QED  BY <2>1, <2>2 DEF OffersInv
<1>2. OffersInv /\ [MatchingNext]_matchingVars => OffersInv'
  <2>. SUFFICES ASSUME OffersInv, [MatchingNext]_matchingVars
                PROVE  OffersInv'
    OBVIOUS
  <2>1. CASE AskServices
    BY <2>1 DEF AskServices, OffersInv, Offers
  <2>2. CASE UNCHANGED matchingVars
    BY <2>2 DEF matchingVars, OffersInv, Offers
  <2>. QED  BY <2>1, <2>2 DEF MatchingNext
<1>3. OffersInv => SetOffersWhatItsFilesGet
  BY OffersAreRight
<1>. QED  BY <1>1, <1>2, <1>3, PTL DEF MatchingSpec
=============================================================================
