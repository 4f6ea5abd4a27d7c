----------------------------- MODULE MCServices -----------------------------
(***************************************************************************)
(* TLC instances of what lies around the services: the registry, what they *)
(* are offered for, the tokens they may use, runs on one file or a set,    *)
(* the searches, the regions, and the client of the database.  They share  *)
(* nothing that changes, so each behaviour is about one of them.           *)
(***************************************************************************)
EXTENDS Matching, TokenBudget, ServiceRegistry, SemanticSearch, DatabaseClient, SingleRuns, Rois, TLC

VARIABLE part

\* Matching: two texts and an image; a service with tasks for texts, formats
\* and sets, a model service, the splitter, one of the system.
MCFile(t, e) == [type |-> t, extension |-> e]
MCNodeFiles == {MCFile("text", "txt"), MCFile("text", "md"), MCFile("image", "jpg"), MCFile("pdf", "pdf")}
MCTask(types, formats, b) ==
  [behaviour |-> b, groups |-> {}, setDisabled |-> FALSE, setOnly |-> FALSE,
   types |-> types, formats |-> formats, filter |-> ""]
MCOffer(id, tasks) ==
  [id |-> id, category |-> "ml", behaviour |-> "", live |-> TRUE, external |-> FALSE, setDisabled |-> FALSE,
   groups |-> {}, types |-> {"image"}, formats |-> {}, models |-> {}, tasks |-> tasks]
MCTasks ==
  "ocr" :> MCTask({}, {}, "one-to-one") @@ "both" :> MCTask({"text", "image"}, {}, "one-to-many")
    @@ "format" :> MCTask({}, {"txt", "jpg"}, "") @@ "merge" :> MCTask({"image"}, {}, "many-to-one")
    @@ "set" :> [MCTask({"text"}, {}, "one-to-one") EXCEPT !.setOnly = TRUE]
    @@ "file" :> [MCTask({"text"}, {}, "one-to-one") EXCEPT !.setDisabled = TRUE, !.filter = "rois"]
    @@ "group" :> [MCTask({"text"}, {}, "one-to-one") EXCEPT !.groups = {"g1"}]
MCDescriptors ==
  "ocr" :> MCOffer("ocr", MCTasks)
    @@ "llm" :> [MCOffer("llm", "autotag" :> MCTask({"text"}, {}, "one-to-one")) EXCEPT
                   !.external = TRUE, !.groups = {"g1", "g2"},
                   !.models = {[formats |-> {"txt"}, types |-> {"text"}], [formats |-> {"jpg"}, types |-> {"image"}]}]
    @@ "splitter" :> [MCOffer("splitter", "split" :> MCTask({"pdf"}, {}, "one-to-many")) EXCEPT !.setDisabled = TRUE]
    @@ "solr" :> [MCOffer("solr", "index" :> MCTask({"text"}, {}, "many-to-one")) EXCEPT !.category = "system"]

\* Tokens: one group with a monthly limit to begin with, one not there yet.
MCMemberOf == [u \in Payers |-> Groups]
MCPaidServices == "llm" :> <<"g1", "g2">> @@ "free" :> <<>>
MCRawLimits == {[period |-> "", group_total |-> 1, per_user |-> 0], [period |-> "day", group_total |-> 0, per_user |-> 1]}
MCFirstLimits == [g \in Groups |-> IF g = "g1" THEN [period |-> "month", group_total |-> 1, per_user |-> 0] ELSE NoRow]

\* The registry: an installation with a Nomad spec, a consumer's own words.
MCDescriptorsSent == {[kind |-> "nomad", hcl |-> TRUE, url |-> FALSE], [kind |-> "none", hcl |-> FALSE, url |-> TRUE]}

\* Searches: a file of the asker and one of somebody else.
MCDocOwner == [d \in SearchDocs |-> IF d = "d1" THEN "u1" ELSE "u2"]
MCIndexOwner == [i \in IndexFiles |-> "u1"]
MCBuiltBy == [i \in IndexFiles |-> NoService]

\* The database: a gap, a repeat and what is no RID among those asked for.
MCRidLists == {<<"r1", "r2", "r1", "x", "r3">>, <<"r3">>}

\* Single runs: params of the descriptor, a set of outputs, the search index, a
\* prompt, and a task nobody has.
MCRun(known, b) ==
  [known |-> known, external |-> FALSE, behaviour |-> b, search |-> FALSE, alwaysBatch |-> FALSE,
   outputFile |-> FALSE, system |-> 0]
MCRunTasks ==
  "params" :> [MCRun(TRUE, "") EXCEPT !.system = 3, !.outputFile = TRUE]
    @@ "many" :> [MCRun(TRUE, "one-to-many") EXCEPT !.alwaysBatch = TRUE]
    @@ "index" :> [MCRun(TRUE, "many-to-one") EXCEPT !.search = TRUE]
    @@ "prompt" :> [MCRun(FALSE, "") EXCEPT !.external = TRUE]
    @@ "wrong" :> MCRun(FALSE, "")

Symmetry == Permutations(Jobs) \cup Permutations(Consumers)

otherVars == <<matchingVars, budgetVars, registryVars, searchVars>>
moreVars == <<clientVars, runVars, roiVars>>

\* One request of any kind; two of one task, whose params they share.
OneRequest == RequestSteps("q1") \/ RegisterSteps
Sharing ==
  \/ \E q \in Requests : (\E asked \in AskedMax : begin(q, "file", "params", asked)) \/ Proceeds(q)
  \/ registerAnew("params")

\* Two changes of the regions, or reads, and a read.
Reading == call'["o3"].op \in {"none", "read"}

Init ==
  /\ MatchingInit /\ BudgetInit /\ RegistryInit /\ SearchInit /\ ClientInit /\ RunsInit /\ RoisInit
  /\ part \in {"matching", "budget", "registry", "searches", "headers",
               "statements", "reads", "run", "sharing", "regions"}

Next ==
  /\ UNCHANGED part
  /\ \/ /\ UNCHANGED moreVars
        /\ \/ part = "matching" /\ MatchingNext /\ UNCHANGED <<budgetVars, registryVars, searchVars>>
           \/ part = "budget" /\ BudgetNext /\ UNCHANGED <<matchingVars, registryVars, searchVars>>
           \/ part = "registry" /\ RegistryNext /\ UNCHANGED <<matchingVars, budgetVars, searchVars>>
           \/ part = "searches" /\ SearchSteps /\ UNCHANGED <<matchingVars, budgetVars, registryVars>>
           \/ part = "headers" /\ HeaderSteps /\ UNCHANGED <<matchingVars, budgetVars, registryVars>>
     \/ /\ UNCHANGED otherVars
        /\ \/ part = "statements" /\ StatementSteps /\ UNCHANGED <<runVars, roiVars>>
           \/ part = "reads" /\ ReadSteps /\ UNCHANGED <<runVars, roiVars>>
           \/ part = "run" /\ OneRequest /\ UNCHANGED <<clientVars, roiVars>>
           \/ part = "sharing" /\ Sharing /\ UNCHANGED <<clientVars, roiVars>>
           \/ part = "regions" /\ RoisNext /\ Reading /\ UNCHANGED <<clientVars, runVars>>

ServicesSpec == Init /\ [][Next]_<<part, otherVars, moreVars>>
=============================================================================
