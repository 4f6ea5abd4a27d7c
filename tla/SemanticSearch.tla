--------------------------- MODULE SemanticSearch ---------------------------
(***************************************************************************)
(* Searches over vector and similarity indexes.  A search is an entry in   *)
(* memory and a job of the service that built the index; the answer comes  *)
(* with /done, is checked hit by hit, and may come twice or after an       *)
(* error, for a job has two attempts and its lease may lapse.              *)
(***************************************************************************)
EXTENDS Naturals

CONSTANTS
  Users, SearchDocs, DocOwner,     \* DocOwner[d] owns the file d
  IndexFiles, IndexOwner,          \* the vector indexes
  BuiltBy, DefaultService,         \* BuiltBy[i]: the service of its process or NoService
  SearchServices, NoService,
  SearchIds, Answers,   \* ids of searches; the handlers of answers under way
  NoSearch,
  MaxIndexWrites        \* bound: how often an index file is written again

ASSUME SearchConstants ==
  /\ DocOwner \in [SearchDocs -> Users] /\ IndexOwner \in [IndexFiles -> Users]
  /\ BuiltBy \in [IndexFiles -> SearchServices \cup {NoService}]
  /\ NoService \notin SearchServices /\ DefaultService \in SearchServices
  /\ NoSearch \notin SearchIds /\ MaxIndexWrites \in Nat

VARIABLES
  pending,    \* function from search ids to [user, index, status, hits, old]
  searchJob,  \* function from search ids to the attempts their job has left
  answer,     \* per handler of /done: the search, the docs left, the hits so far
  docs,       \* the files that are not deleted
  active,     \* the services with a live consumer
  indexFile,  \* per index file: its content, named by the time it was written
  headers,    \* the cache of index headers: [mtime, info] or nothing (0, 0)
  listing     \* the index list: the index and what is read of it so far

searchVars == <<pending, searchJob, answer, docs, active, indexFile, headers, listing>>

NoAnswer == [id |-> NoSearch, todo |-> {}, hits |-> {}]
NoListing == [index |-> NoSearch, mtime |-> 0, info |-> 0]

SearchInit ==
  /\ pending = <<>>
  /\ searchJob = <<>>
  /\ answer = [a \in Answers |-> NoAnswer]
  /\ docs = SearchDocs
  /\ active = SearchServices
  /\ indexFile = [i \in IndexFiles |-> 1]
  /\ headers = [i \in IndexFiles |-> [mtime |-> 0, info |-> 0]]
  /\ listing = NoListing

Searches == DOMAIN pending

\* The service that built an index searches it.
serviceOf(i) == IF BuiltBy[i] # NoService THEN BuiltBy[i] ELSE DefaultService

hasConsumer(s) == s \in active

\* prune: what is older than KEEP_MS is forgotten, but only when a search starts.
prune == {s \in Searches : ~pending[s].old}

-----------------------------------------------------------------------------
startSearch(u, i, s) ==
  /\ IndexOwner[i] = u /\ hasConsumer(serviceOf(i))
  /\ s \notin DOMAIN searchJob
  /\ pending' = [t \in prune \cup {s} |->
       IF t = s THEN [user |-> u, index |-> i, status |-> "queued", hits |-> {}, old |-> FALSE]
       ELSE pending[t]]
  /\ searchJob' = [t \in DOMAIN searchJob \cup {s} |-> IF t = s THEN 2 ELSE searchJob[t]]
  /\ UNCHANGED <<answer, docs, active, indexFile, headers, listing>>

getSearch(s, u) == IF s \in Searches /\ pending[s].user = u
                   THEN <<pending[s].status, pending[s].hits>> ELSE <<>>

KeepMsPassed(s) ==
  /\ s \in Searches /\ pending' = [pending EXCEPT ![s].old = TRUE]
  /\ UNCHANGED <<searchJob, answer, docs, active, indexFile, headers, listing>>

-----------------------------------------------------------------------------
(* The consumer: each attempt ends with an answer, or is lost and the job  *)
(* goes to the next attempt, or fails; the answer may name any files.      *)

HasAttempt(s) == s \in DOMAIN searchJob /\ searchJob[s] > 0
Attempt(s, left) == searchJob' = [searchJob EXCEPT ![s] = left]

\* /done: only a search that is queued takes the answer.
deliver(a, s, found) ==
  /\ answer[a] = NoAnswer /\ HasAttempt(s)
  /\ \E again \in BOOLEAN : Attempt(s, IF again THEN searchJob[s] - 1 ELSE 0)
  /\ answer' = IF s \in Searches /\ pending[s].status = "queued"
               THEN [answer EXCEPT ![a] = [id |-> s, todo |-> found, hits |-> {}]]
               ELSE answer
  /\ UNCHANGED <<pending, docs, active, indexFile, headers, listing>>

AskerOwns(s, d) == d \in docs /\ DocOwner[d] = pending[s].user

\* findOwned of the next hit is awaited.  The entry of the search is held by
\* the handler, also when it is pruned meanwhile: then nobody sees the rest.
deliverHit(a) ==
  /\ answer[a].id # NoSearch
  /\ \E d \in answer[a].todo :
       LET s == answer[a].id
           hit == IF s \in Searches /\ AskerOwns(s, d) THEN {d} ELSE {} IN
       answer' = [answer EXCEPT ![a] = [id |-> s, todo |-> @.todo \ {d}, hits |-> @.hits \cup hit]]
  /\ UNCHANGED <<pending, searchJob, docs, active, indexFile, headers, listing>>

\* The status is not looked at again.
deliverEnd(a) ==
  /\ answer[a].id # NoSearch /\ answer[a].todo = {}
  /\ pending' = IF answer[a].id \in Searches
                THEN [pending EXCEPT ![answer[a].id] =
                        [@ EXCEPT !.status = "done", !.hits = answer[a].hits]]
                ELSE pending
  /\ answer' = [answer EXCEPT ![a] = NoAnswer]
  /\ UNCHANGED <<searchJob, docs, active, indexFile, headers, listing>>

\* Mutant: an error is not noted.
FailNone(s) == pending

\* /error, after the last attempt.
FailQueued(s) ==
  IF s \in Searches /\ pending[s].status = "queued"
  THEN [pending EXCEPT ![s].status = "failed"] ELSE pending

fail(s) ==
  /\ HasAttempt(s) /\ searchJob[s] = 1
  /\ Attempt(s, 0) /\ pending' = FailQueued(s)
  /\ UNCHANGED <<answer, docs, active, indexFile, headers, listing>>

attemptLost(s) ==
  /\ HasAttempt(s) /\ searchJob[s] = 2
  /\ Attempt(s, 1)
  /\ UNCHANGED <<pending, answer, docs, active, indexFile, headers, listing>>

-----------------------------------------------------------------------------
(* The list of indexes reads the header of each index file.                *)

RebuildIndex(i) ==
  /\ indexFile[i] <= MaxIndexWrites
  /\ indexFile' = [indexFile EXCEPT ![i] = @ + 1]
  /\ UNCHANGED <<pending, searchJob, answer, docs, active, headers, listing>>

\* stat; the cached header is used when the time is the same, ...
indexStat(i) ==
  /\ listing = NoListing /\ headers[i].mtime # indexFile[i]
  /\ listing' = [NoListing EXCEPT !.index = i, !.mtime = indexFile[i]]
  /\ UNCHANGED <<pending, searchJob, answer, docs, active, indexFile, headers>>

\* ... or else the file is read, and may be a newer one by now, ...
indexRead ==
  /\ listing.index \in IndexFiles /\ listing.info = 0
  /\ listing' = [listing EXCEPT !.info = indexFile[listing.index]]
  /\ UNCHANGED <<pending, searchJob, answer, docs, active, indexFile, headers>>

\* ... and kept.
CacheTime == listing.mtime

indexMeta ==
  /\ listing.index \in IndexFiles /\ listing.info # 0
  /\ headers' = [headers EXCEPT ![listing.index] = [mtime |-> CacheTime, info |-> listing.info]]
  /\ listing' = NoListing
  /\ UNCHANGED <<pending, searchJob, answer, docs, active, indexFile>>

-----------------------------------------------------------------------------
DeleteDoc(d) ==
  /\ d \in docs /\ docs' = docs \ {d}
  /\ UNCHANGED <<pending, searchJob, answer, active, indexFile, headers, listing>>

ConsumerStops(s) ==
  /\ s \in active /\ active' = active \ {s}
  /\ UNCHANGED <<pending, searchJob, answer, docs, indexFile, headers, listing>>

\* Everything in memory is lost; the job is not.
RestartSearch ==
  /\ Searches # {} \/ \E i \in IndexFiles : headers[i].mtime # 0
  /\ pending' = <<>> /\ answer' = [a \in Answers |-> NoAnswer]
  /\ headers' = [i \in IndexFiles |-> [mtime |-> 0, info |-> 0]] /\ listing' = NoListing
  /\ UNCHANGED <<searchJob, docs, active, indexFile>>

SearchSteps ==
  \/ \E u \in Users, i \in IndexFiles, s \in SearchIds : startSearch(u, i, s)
  \/ \E s \in SearchIds : KeepMsPassed(s) \/ fail(s) \/ attemptLost(s)
  \/ \E a \in Answers, s \in SearchIds, found \in SUBSET SearchDocs : deliver(a, s, found)
  \/ \E a \in Answers : deliverHit(a) \/ deliverEnd(a)
  \/ \E d \in SearchDocs : DeleteDoc(d)
  \/ \E s \in SearchServices : ConsumerStops(s)
  \/ RestartSearch

HeaderSteps ==
  \/ \E i \in IndexFiles : RebuildIndex(i) \/ indexStat(i)
  \/ indexRead \/ indexMeta \/ RestartSearch

SearchNext == SearchSteps \/ HeaderSteps

SearchSpec == SearchInit /\ [][SearchNext]_searchVars

-----------------------------------------------------------------------------
(* Properties.                                                             *)

\* Whatever files an index and its service name, a user sees as hits only
\* files of her own, also of an answer that came twice (semantic.ts:5-8, 280).
HitsAreTheAskers ==
  \A s \in Searches, u \in Users :
    getSearch(s, u) # <<>> => \A d \in getSearch(s, u)[2] : DocOwner[d] = u

\* A search does not stay queued when the attempts of its job are over and no
\* answer is being taken in: the page that polls it gets an end.
NoSearchHangs ==
  \A s \in Searches :
    (pending[s].status = "queued" /\ ~HasAttempt(s)) => \E a \in Answers : answer[a].id = s

\* The cached header of an index is never an older one under the time of the
\* file as it is now: a list shows a rebuilt index as it is (semantic.ts:103-117).
HeadersAreFresh ==
  \A i \in IndexFiles : headers[i].mtime = indexFile[i] => headers[i].info = indexFile[i]

\* A search ends, shows its asker what is theirs, and the lists show the indexes
\* as they are.
SearchesAreAnswered == HitsAreTheAskers /\ NoSearchHangs /\ HeadersAreFresh
=============================================================================
