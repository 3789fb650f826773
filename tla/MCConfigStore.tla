---------------------------- MODULE MCConfigStore ----------------------------
(* Instance of ConfigStore for TLC: two tables, one of two chunks.         *)
EXTENDS ConfigStore

CONSTANTS adr, app

Sizes == [t \in Tables |-> IF t = app THEN 2 ELSE 1]
SectionIds == [t \in Tables |-> IF t = app THEN 11 ELSE 8]
=============================================================================
