------------------------------- MODULE Mirror -------------------------------
(***************************************************************************)
(* The map the key-value store keeps in RAM (zweidraehte-nv, mirror.rs)    *)
(* and the two operations that change it.  A key stands for a              *)
(* (namespace, key) pair and a value for the octets stored under it; the   *)
(* mirror keeps no positional invariant, so a function models it.          *)
(***************************************************************************)
EXTENDS FiniteSets, Naturals

CONSTANTS Keys,      \* the (namespace, key) pairs the views use
          Vals,      \* values a put may store
          Entries,   \* live pairs the mirror holds at most (ENTRIES)
          Absent     \* what get returns for a key that is not in the map

ASSUME EntriesAssumption == Entries \in Nat \ {0}

ASSUME ValsAssumption == Absent \notin Vals

Maps == [Keys -> Vals \cup {Absent}]
EmptyMap == [k \in Keys |-> Absent]

\* The operations of KeyValueStore that change the map.
Puts == [kind: {"put"}, key: Keys, val: Vals]
Removes == [kind: {"remove"}, key: Keys]
Ops == Puts \cup Removes
NoOp == [kind |-> "none"]

\* Mirror::contains.
Contains(m, k) == m[k] # Absent

\* The keys Mirror::iter visits.
LiveKeys(m) == {k \in Keys : Contains(m, k)}

\* Mirror::can_upsert.
CanUpsert(m, k) == Contains(m, k) \/ Cardinality(LiveKeys(m)) < Entries

\* A remove that finds nothing to remove.
RemovesAbsent(m, o) == o \in Removes /\ ~Contains(m, o.key)

\* Mirror::upsert and Mirror::remove.
Apply(m, o) ==
    CASE o.kind = "put"    -> [m EXCEPT ![o.key] = o.val]
      [] o.kind = "remove" -> [m EXCEPT ![o.key] = Absent]
      [] OTHER             -> m
=============================================================================
