-------------------------- MODULE MCTemplateUpdate --------------------------
(***************************************************************************)
(* TemplateUpdate for TLC.  The configurations give Regions, Edits and the *)
(* file sets small sets of model values.                                   *)
(***************************************************************************)
EXTENDS TemplateUpdate

\* Projects scaffolded by this version of the CLI, baseline ref included.
ScaffoldedSpec == (Init /\ baseline # Absent) /\ [][Next]_vars

=============================================================================
