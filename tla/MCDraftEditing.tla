---------------------------- MODULE MCDraftEditing ----------------------------
(* Instances of DraftEditing for TLC: two articles of one box each. *)
EXTENDS DraftEditing
=============================================================================
