------------------------ MODULE MCBackgroundDeletes ------------------------
(***************************************************************************)
(* TLC instance of BackgroundDeletes: a desk with an uploaded set of one   *)
(* file, a batch over the set, its output set and the output of the file.  *)
(* The edges are those nodes.ts creates for them.                          *)
(***************************************************************************)
EXTENDS BackgroundDeletes, TLC

CONSTANTS desk, set, file, process, outputSet, output

Desktop == {desk, set, file, process, outputSet, output}

Lineage ==
  { [output |-> outputSet, source |-> set,  process |-> process],
    [output |-> output,    source |-> file, process |-> process] }

OnDesk == {set, file, process}

Membership == [v \in Desktop |-> CASE v = file   -> set
                                   [] v = output -> outputSet
                                   [] OTHER      -> NoVertex]

Unset == [v \in Desktop |-> NoVertex]

=============================================================================
