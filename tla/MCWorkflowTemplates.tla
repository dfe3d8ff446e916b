------------------------ MODULE MCWorkflowTemplates ------------------------
(***************************************************************************)
(* Instances of WorkflowTemplates for TLC: one template, which may come    *)
(* with no version, with one or with two.                                  *)
(***************************************************************************)
EXTENDS WorkflowTemplates, TLC

MCHistories == {{}, {1}, {1, 2}}
Symmetry    == Permutations(Requests)
=============================================================================
