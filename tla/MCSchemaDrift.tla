----------------------------- MODULE MCSchemaDrift -----------------------------
(***************************************************************************)
(* Small instances of SchemaDrift for TLC.                                 *)
(***************************************************************************)
EXTENDS SchemaDrift

CONSTANTS a, b, c

\* A table with key a and one more column; c may be added, b or c made the key.
TwoColumns == [cols |-> {a, b}, pk |-> {a}]
SingleKeys == {{a}, {b}}
===============================================================================
