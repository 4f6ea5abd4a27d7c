----------------------------- MODULE MCJobQueue -----------------------------
(***************************************************************************)
(* TLC instances of JobQueue: model values for adapters, process nodes and *)
(* topics, which the queue only compares, and the kinds of jobs the        *)
(* services publish.                                                       *)
(***************************************************************************)
EXTENDS JobQueue, TLC

CONSTANTS
  single,   \* the Process of single jobs
  set       \* a SetProcess

\* A file of a batch, the thumbnail of one of its outputs, and a single job.
BatchFile == [kind |-> "batch", process |-> set, setProcess |-> set]
Thumbnail == [kind |-> "plain", process |-> set, setProcess |-> set]
Single    == [kind |-> "plain", process |-> single, setProcess |-> NoRid]

\* A job without a process node: tag synchronisation, semantic search.
Bare      == [kind |-> "batch", process |-> NoRid, setProcess |-> NoRid]

AllShapes   == {BatchFile, Thumbnail, Single, Bare}
BatchShapes == {BatchFile}

\* Nothing orders the adapters.
Symmetry == Permutations(Adapters)

=============================================================================
