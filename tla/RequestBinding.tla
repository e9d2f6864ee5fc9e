---------------------------- MODULE RequestBinding ----------------------------
(***************************************************************************)
(* Mcontext with FormMapping as its mapping of values: what a service      *)
(* method finds in the target of a binding.  A configuration gives the     *)
(* operators MapFormByTag, MappingByPtr and Valid of FormMapping to        *)
(* Mcontext's constants.                                                   *)
(***************************************************************************)
EXTENDS Mcontext, FormMapping

\* What a binding that maps values left in its target, field by field, is what
\* the request gives for it, with an error exactly if some value does not fit or
\* a required one is missing (form_mapping.go, multipart_form_mapping.go).
BoundAsGiven ==
  (last.call = "bind" /\ last.out.mapped # <<>> /\ rq.target.kind # "map") =>
    LET m == last.out.mapped[1]
    IN Agrees(rq.target, SourceOf(last.read, last.kind), m.val, m.err)
=============================================================================
