----------------------------- MODULE MCLotSetup -----------------------------
(* Instances of LotSetup for TLC: lists of one dimension and of two, with  *)
(* criteria or without, and one whose weights do not add up; numbers of    *)
(* the selection that differ in one of them, and some that ask for fewer   *)
(* experts than a dimension needs; a senior expert and a junior one.       *)
EXTENDS LotSetup

CONSTANTS r1, r2, l1, l2, e1, e2, t1

MCDimension(weight, detailed) == [weight |-> weight, detailed |-> detailed]
MCLists == {<<MCDimension(1000, TRUE)>>,
            <<MCDimension(400, FALSE), MCDimension(600, TRUE)>>,
            <<MCDimension(500, TRUE), MCDimension(400, TRUE)>>}
MCProfile(count, min, spec, exp) ==
    [count |-> count, min |-> min, spec |-> spec, exp |-> exp, qual |-> 200, region |-> 100]
MCProfiles == {MCProfile(2, 1, 400, 300), MCProfile(1, 1, 400, 300), MCProfile(2, 2, 400, 300),
               MCProfile(1, 2, 400, 300)}
MCSkill == [e \in Experts |-> Tags]
MCExperience == [e \in Experts |-> IF e = e1 THEN 40 ELSE 3]
MCQuality == [e \in Experts |-> 7]

Symmetry == Permutations(Requests)
=============================================================================
