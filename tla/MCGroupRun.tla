---------------------------- MODULE MCGroupRun ----------------------------
(* TLC instance of GroupRun: one set with two PDFs and a page of each.     *)
EXTENDS GroupRun

MCRunDesks ==
  {[files |-> FileIds, type |-> [f \in FileIds |-> IF f \in {1, 3} THEN "pdf" ELSE "image"],
    page |-> [f \in FileIds |-> 0],
    parent |-> [f \in FileIds |-> IF f \in {2, 4} THEN f - 1 ELSE NoFile],
    wish |-> "default", search |-> FALSE]}
=============================================================================
