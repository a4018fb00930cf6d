------------------------------ MODULE Primitive -----------------------------
(***************************************************************************)
(* The primitive contract, contracts/data-storage/andromeda-primitive: a   *)
(* map from keys to typed values that its owner and operators write and    *)
(* other contracts read addresses, rates and code from.                    *)
(***************************************************************************)
EXTENDS Common

CONSTANTS
  PrimitiveKeys,    \* numbered in the order of the keys
  PrimitiveValues   \* records of kind, text and n

ASSUME PrimitiveAssumption ==
  PrimitiveKeys \subseteq Nat /\ \A v \in PrimitiveValues : v.n \in Nat

VARIABLE values   \* DATA

PrimitiveInit == values = << >>

\* A vector in a vector is refused.
SetValue(s, k, v) ==
  /\ s \in Managers
  /\ v.kind # "nested"
  /\ values' = With(values, k, v)

DeleteValue(s, k) ==
  /\ s \in Managers
  /\ values' = Without(values, k)

HasValue(k, kind) == k \in DOMAIN values /\ values[k].kind = kind

PrimitiveStep(keys) ==
  \E s \in Actors, k \in keys :
    DeleteValue(s, k) \/ \E v \in PrimitiveValues : SetValue(s, k, v)
=============================================================================
