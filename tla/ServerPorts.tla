---------------------------- MODULE ServerPorts ----------------------------
(***************************************************************************)
(* The service configuration of the other server stacks: Go with GORM, ent *)
(* and sqlc, Rust and FastAPI.  As in the Node ports an operation is the   *)
(* sequence of steps between its awaits; ServiceConfigCache defines them.  *)
(***************************************************************************)

(* go: serviceconfig.go on GORM *)
GoGet == <<"cached", "readRow", "fill">>
GoSet == <<"findRow", "saveFound", "invalidate">>
GoDelete == <<"deleteRow", "invalidate">>
GoInvalidate == <<"invalidate">>

(* ent *)
EntGet == <<"cached", "readRow", "fill">>
EntSet == <<"upsert", "invalidate">>
EntDelete == <<"deleteRow", "invalidate">>
EntInvalidate == <<"invalidate">>

(* sqlc *)
SqlcGet == <<"cached", "readRow", "fill">>
SqlcSet == <<"upsert", "invalidate">>
SqlcDelete == <<"deleteRow", "invalidate">>
SqlcInvalidate == <<"invalidate">>

(* rust: serviceconfig.rs *)
RustGet == <<"cached", "readRow", "fill">>
RustSet == <<"upsert", "invalidate">>
RustDelete == <<"deleteRow", "invalidate">>
RustInvalidate == <<"invalidate">>

(* fastapi: ServiceConfigRepository *)
FastapiGet == <<"cached", "readRow", "fill">>
FastapiSet == <<"findRow", "saveFound", "invalidate">>
FastapiInvalidate == <<"invalidate">>

ServerBehaviour ==
  [Go |-> [config |-> [get |-> GoGet, set |-> GoSet, delete |-> GoDelete,
                       invalidate |-> GoInvalidate]],
   Ent |-> [config |-> [get |-> EntGet, set |-> EntSet, delete |-> EntDelete,
                        invalidate |-> EntInvalidate]],
   Sqlc |-> [config |-> [get |-> SqlcGet, set |-> SqlcSet, delete |-> SqlcDelete,
                         invalidate |-> SqlcInvalidate]],
   Rust |-> [config |-> [get |-> RustGet, set |-> RustSet, delete |-> RustDelete,
                         invalidate |-> RustInvalidate]],
   Fastapi |-> [config |-> [get |-> FastapiGet, set |-> FastapiSet,
                            invalidate |-> FastapiInvalidate]]]

=============================================================================
