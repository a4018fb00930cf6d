----------------------------- MODULE AddressList ----------------------------
(***************************************************************************)
(* The address list module, contracts/modules/andromeda-address-list: it   *)
(* lets through the senders on its list, or those that are not.            *)
(***************************************************************************)
EXTENDS Common

VARIABLES
  listed,      \* ADDRESS_LIST
  inclusive    \* IS_INCLUSIVE

AddressListInit == listed = {} /\ inclusive \in BOOLEAN

AddAddress(s, a) ==
  /\ s \in Managers
  /\ listed' = listed \cup {a}
  /\ UNCHANGED inclusive

RemoveAddress(s, a) ==
  /\ s \in Managers
  /\ listed' = listed \ {a}
  /\ UNCHANGED inclusive

\* The OnExecute hook.
Permits(sender) == (sender \in listed) = inclusive

AddressListStep == \E s, a \in Actors : AddAddress(s, a) \/ RemoveAddress(s, a)
=============================================================================
