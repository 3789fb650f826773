----------------------------- MODULE DurableMap -----------------------------
(***************************************************************************)
(* What a KeyValueStore promises its views (zweidraehte-nv, kv.rs): a      *)
(* durable map with one operation at a time.  An operation that returned   *)
(* Ok survives every later power cut.  One that returned Err, or that a    *)
(* power cut interrupted, is never half applied: it took effect or it did  *)
(* not.  An operation that returned Err is invisible to get until a power  *)
(* cut, may surface after it, and can no longer surface once a later       *)
(* operation has returned Ok, unless that one was a remove of a key the    *)
(* map does not hold: it leaves the medium alone, so it settles nothing,   *)
(* not even a failed put of its own key.                                   *)
(***************************************************************************)
EXTENDS Mirror

VARIABLES value,     \* the map a get sees, or would see after a boot
          inflight,  \* the operation under way, or NoOp
          maybe,     \* the failed operation that may still surface, or NoOp
          up         \* the device is powered

absVars == <<value, inflight, maybe, up>>

-----------------------------------------------------------------------------

AbsInit ==
    /\ value = EmptyMap
    /\ inflight = NoOp
    /\ maybe = NoOp
    /\ up = FALSE

\* A caller starts an operation.
AbsBegin ==
    /\ up /\ inflight = NoOp
    /\ inflight' \in Ops
    /\ UNCHANGED <<up, maybe, value>>

\* The operation returns Ok.
AbsSucceed ==
    /\ up /\ inflight # NoOp
    /\ UNCHANGED up
    /\ inflight' = NoOp
    /\ maybe' = IF RemovesAbsent(value, inflight) THEN maybe ELSE NoOp
    /\ value' = Apply(value, inflight)

\* The operation returns Err.
AbsFail ==
    /\ up /\ inflight # NoOp
    /\ UNCHANGED <<up, value>>
    /\ inflight' = NoOp
    /\ maybe' \in {maybe, inflight}

\* Power is cut.
AbsCrash ==
    /\ up /\ ~up'
    /\ inflight' = NoOp
    /\ maybe' = NoOp
    /\ value' \in {value, Apply(value, inflight), Apply(value, maybe)}

\* The device boots: what it then reads is what the power cut left.
AbsReboot ==
    /\ ~up /\ up'
    /\ UNCHANGED <<inflight, maybe, value>>

AbsNext ==
    AbsBegin \/ AbsSucceed \/ AbsFail \/ AbsCrash \/ AbsReboot

AbsSpec == AbsInit /\ [][AbsNext]_absVars
=============================================================================
