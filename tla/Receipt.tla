------------------------------- MODULE Receipt ------------------------------
(***************************************************************************)
(* The receipt module, contracts/modules/andromeda-receipt: contracts that *)
(* have it store a receipt of each transfer, here the fees it lists.       *)
(***************************************************************************)
EXTENDS Common

CONSTANTS
  ReceiptMinter,   \* CONFIG.minter
  ReceiptTexts     \* receipts stored and edited by hand

VARIABLES
  receipts,      \* RECEIPT
  numReceipt     \* NUM_RECEIPT

ReceiptInit == receipts = << >> /\ numReceipt = 0

CanMintReceipt(s) == s \in Managers \/ s = ReceiptMinter

\* increment_num_receipt returns the next number and does not save it, so that
\* every receipt is stored as the first.
StoreReceipt(s, r) ==
  /\ CanMintReceipt(s)
  /\ receipts' = With(receipts, numReceipt + 1, r)
  /\ UNCHANGED numReceipt

EditReceipt(s, id, r) ==
  /\ CanMintReceipt(s)
  /\ id \in DOMAIN receipts
  /\ receipts' = With(receipts, id, r)
  /\ UNCHANGED numReceipt

ReceiptStep ==
  \E s \in Actors, r \in ReceiptTexts :
    StoreReceipt(s, r) \/ \E id \in DOMAIN receipts : EditReceipt(s, id, r)
-----------------------------------------------------------------------------
\* "increase receipt ID" (state.rs:18): a receipt that is stored gets an id of
\* its own, so that the ones stored before are kept.
ReceiptsKept ==
  [][(\E s \in Actors \cup Contracts, r \in ReceiptTexts : StoreReceipt(s, r) /\ receipts' # receipts)
       => Cardinality(DOMAIN receipts') = Cardinality(DOMAIN receipts) + 1]_receipts
=============================================================================
