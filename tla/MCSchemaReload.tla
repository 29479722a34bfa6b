--------------------------- MODULE MCSchemaReload --------------------------
(* Small instances of SchemaReload for TLC. *)
EXTENDS SchemaReload, TLC

CONSTANT w1
=============================================================================
