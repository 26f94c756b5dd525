--------------------------- MODULE MCDeclarations ---------------------------
(* Instances of Declarations for TLC.                                      *)
EXTENDS Declarations, TLC

CONSTANTS e1, e2, s1, l1, r1, r2, i1

MCListed == {e1} \X Suppliers
MCAllTies == Experts \X Suppliers
MCAll == Lots \X Experts
MCColleagues == {<<e2, e1>>}

Symmetry == Permutations(Requests)
=============================================================================
