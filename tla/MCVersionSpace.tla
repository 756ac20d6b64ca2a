--------------------------- MODULE MCVersionSpace ---------------------------
(***************************************************************************)
(* Small instances of VersionSpace: a program that is shorter than the     *)
(* others, and ids in an order that follows neither size nor ontology.     *)
(***************************************************************************)
EXTENDS VersionSpace

CONSTANTS p1, p2, p3, o1, o2

MCSize == [p \in Program |-> IF p = p1 THEN 1 ELSE 2]
MCRank == [h \in Hypothesis |->
             (IF h[1] = p1 THEN 2 ELSE IF h[1] = p2 THEN 1 ELSE 0)
             + (IF h[2] = o1 THEN 3 ELSE 0)]
=============================================================================
