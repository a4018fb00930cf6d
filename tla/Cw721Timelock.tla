--------------------------- MODULE Cw721Timelock ----------------------------
(***************************************************************************)
(* Tokens locked until a time, contracts/non-fungible-tokens/              *)
(* andromeda-cw721-timelock, over the token contract.  Whoever sends the   *)
(* token names the recipient; anybody may claim it for the recipient when  *)
(* the time has come.                                                      *)
(***************************************************************************)
EXTENDS Cw721

CONSTANTS
  TokenLock,          \* the address of the contract
  LockTimes,          \* inputs of StartLock
  MinLock, MaxLock    \* ONE_DAY, ONE_YEAR

ASSUME Cw721TimelockAssumption ==
  /\ TokenLock \in DOMAIN Purse \ Users
  /\ LockTimes \subseteq Nat /\ MinLock \in Nat /\ MaxLock \in Nat

VARIABLE lockedItems   \* LOCKED_ITEMS, by token

LockInit == lockedItems = [t \in {} |-> 0]

\* The hook of SendNft.  A record that is there already is not overwritten.
LockToken(s, t, recipient, lockTime) ==
  /\ lockTime \in MinLock .. MaxLock
  /\ t \notin DOMAIN lockedItems
  /\ SendNft(s, t, TokenLock)
  /\ lockedItems' = [r \in DOMAIN lockedItems \cup {t} |->
       IF r = t THEN [recipient |-> recipient, expiration |-> now + lockTime]
                ELSE lockedItems[r]]

\* Bug: the recipient need not wait.
ClaimLockedMutant(t, royalty, tax) ==
  /\ t \in DOMAIN lockedItems
  /\ TransferNft(TokenLock, t, lockedItems[t].recipient, 0, royalty, tax,
                 [v \in DOMAIN wallet |-> 0])
  /\ lockedItems' = Restrict(lockedItems, DOMAIN lockedItems \ {t})

\* By anybody.
ClaimLocked(t, royalty, tax) ==
  /\ t \in DOMAIN lockedItems
  /\ now >= lockedItems[t].expiration
  /\ TransferNft(TokenLock, t, lockedItems[t].recipient, 0, royalty, tax,
                 [v \in DOMAIN wallet |-> 0])
  /\ lockedItems' = Restrict(lockedItems, DOMAIN lockedItems \ {t})

LockStep ==
  \E t \in Tokens :
    \/ \E s, recipient \in Users, lockTime \in LockTimes : LockToken(s, t, recipient, lockTime)
    \/ \E royalty \in Royalties, tax \in Taxes : ClaimLocked(t, royalty, tax)
-----------------------------------------------------------------------------
\* No token leaves before its time: a lock ends at or after the end that was set
\* when it began, and until then nothing about it changes.
StaysLocked ==
  \A t \in DOMAIN lockedItems :
    now < lockedItems[t].expiration =>
      t \in DOMAIN lockedItems' /\ lockedItems'[t] = lockedItems[t]
        /\ owner'[t] = owner[t]
LockedUntilItsTime == [][StaysLocked]_<<now, owner, lockedItems>>
=============================================================================
