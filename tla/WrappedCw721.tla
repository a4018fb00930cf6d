---------------------------- MODULE WrappedCw721 ----------------------------
(***************************************************************************)
(* Wrapping of tokens, contracts/non-fungible-tokens/andromeda-wrapped-    *)
(* cw721, over the token contract.                                         *)
(*                                                                         *)
(* The wrapper keeps a token sent to it and mints one of a collection of   *)
(* its own, which names the original in its metadata.  Sending that one    *)
(* back burns it and returns the original, to whoever sent it.  The check  *)
(* against wrapping twice compares the token contract with the wrapper,    *)
(* which is none: wrapped tokens can be wrapped again.                     *)
(***************************************************************************)
EXTENDS Cw721

CONSTANTS
  Wrapper,       \* the address of the contract
  WrapOwners,    \* its owner and operators
  WrappedIds,    \* ids of the wrapper's collection
  CanUnwrap      \* CAN_UNWRAP

ASSUME WrappedAssumption ==
  /\ Wrapper \in DOMAIN Purse \ Users
  /\ WrapOwners \subseteq Users
  /\ WrappedIds \cap Tokens = {}
  /\ CanUnwrap \in BOOLEAN

VARIABLES
  wrappedOwner,   \* owners in the wrapper's collection, of the ids minted
  original        \* ORIGINAL_TOKEN_ID and _ADDRESS of each: a token of one of
                  \* the two collections

wrapVars == <<wrappedOwner, original>>

WrapInit ==
  /\ wrappedOwner = [w \in {} |-> 0]
  /\ original = [w \in {} |-> 0]

MintWrapped(s, w, t, owners) ==
  /\ w \notin DOMAIN wrappedOwner
  /\ wrappedOwner' = [x \in DOMAIN owners \cup {w} |-> IF x = w THEN s ELSE owners[x]]
  /\ original' = [x \in DOMAIN original \cup {w} |-> IF x = w THEN t ELSE original[x]]

\* The hook of SendNft, for a token of the modelled collection ...
Wrap(s, t, w) ==
  /\ s \in WrapOwners
  /\ SendNft(s, t, Wrapper)
  /\ MintWrapped(s, w, t, wrappedOwner)

\* ... and for one the wrapper minted.
WrapAgain(s, v, w) ==
  /\ s \in WrapOwners
  /\ v \in DOMAIN wrappedOwner /\ wrappedOwner[v] = s
  /\ MintWrapped(s, w, v, [wrappedOwner EXCEPT ![v] = Wrapper])
  /\ UNCHANGED <<cw721Vars, now>>

Burned(f, w) == Restrict(f, DOMAIN f \ {w})

\* Bug: the original goes back, and what stands for it stays.
UnwrapMutant(s, w, royalty, tax) ==
  /\ CanUnwrap
  /\ w \in DOMAIN wrappedOwner /\ wrappedOwner[w] = s
  /\ original[w] \in Tokens
  /\ TransferNft(Wrapper, original[w], s, 0, royalty, tax, [v \in DOMAIN wallet |-> 0])
  /\ wrappedOwner' = [wrappedOwner EXCEPT ![w] = Wrapper]
  /\ UNCHANGED original

\* execute_unwrap: the wrapped token is sent, burned, and the original returned.
Unwrap(s, w, royalty, tax) ==
  /\ CanUnwrap
  /\ w \in DOMAIN wrappedOwner /\ wrappedOwner[w] = s
  /\ \/ /\ original[w] \in Tokens
        /\ TransferNft(Wrapper, original[w], s, 0, royalty, tax, [v \in DOMAIN wallet |-> 0])
        /\ wrappedOwner' = Burned(wrappedOwner, w)
     \/ /\ original[w] \in DOMAIN wrappedOwner
        /\ wrappedOwner[original[w]] = Wrapper
        /\ wrappedOwner' = [Burned(wrappedOwner, w) EXCEPT ![original[w]] = s]
        /\ UNCHANGED <<cw721Vars, now>>
  /\ original' = Burned(original, w)

\* What holders do with wrapped tokens in their own collection.
TransferWrapped(s, w, u) ==
  /\ w \in DOMAIN wrappedOwner /\ wrappedOwner[w] = s
  /\ wrappedOwner' = [wrappedOwner EXCEPT ![w] = u]
  /\ UNCHANGED <<cw721Vars, now, original>>

BurnWrapped(s, w) ==
  /\ w \in DOMAIN wrappedOwner /\ wrappedOwner[w] = s
  /\ wrappedOwner' = Burned(wrappedOwner, w) /\ original' = Burned(original, w)
  /\ UNCHANGED <<cw721Vars, now>>

WrapStep ==
  \E s \in Users, w \in WrappedIds :
    \/ \E t \in Tokens : Wrap(s, t, w)
    \/ \E v \in WrappedIds : WrapAgain(s, v, w)
    \/ \E royalty \in Royalties, tax \in Taxes : Unwrap(s, w, royalty, tax)
    \/ \E u \in Users : TransferWrapped(s, w, u)
    \/ BurnWrapped(s, w)
-----------------------------------------------------------------------------
\* A wrapped token stands for one original, which the wrapper holds, and no two
\* stand for the same: whoever holds it can have the original and nobody else.
\* Wrapping again, selling and burning wrapped tokens change nothing about that.
WrappedBacked ==
  \A w \in DOMAIN wrappedOwner :
    /\ \/ original[w] \in Minted /\ owner[original[w]] = Wrapper
       \/ original[w] \in DOMAIN wrappedOwner /\ wrappedOwner[original[w]] = Wrapper
    /\ \A x \in DOMAIN wrappedOwner \ {w} : original[x] # original[w]
=============================================================================
