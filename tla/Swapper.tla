------------------------------- MODULE Swapper ------------------------------
(***************************************************************************)
(* The swapper, contracts/ecosystem/andromeda-swapper: it passes an asset  *)
(* on to another contract, its implementation, which sends back the asset  *)
(* asked for, and then pays out all it has of that asset.  The             *)
(* implementation, here one that pays what it likes, is external.          *)
(***************************************************************************)
EXTENDS AdoBase

CONSTANTS
  Natives, Cw20s,    \* assets
  SwapperImpls,      \* addresses and names of implementations
  AssetWealth,       \* of each asset, the holders' balances at the start
  SwapAmounts

ASSUME SwapperAssumption ==
  /\ Natives \cap Cw20s = {}
  /\ \A a \in Natives \cup Cw20s : AssetWealth[a] \in [Actors \cup Contracts -> Nat]
  /\ SwapAmounts \subseteq Nat

VARIABLES
  holdings,      \* of each asset, who has how much
  swapperImpl    \* SWAPPER_IMPL_ADDR

SwapperInit ==
  /\ holdings = [a \in Natives \cup Cw20s |-> AssetWealth[a]]
  /\ swapperImpl \in SwapperImpls

Give(a, from, to, n) == [[holdings EXCEPT ![a][from] = @ - n] EXCEPT ![a][to] = @ + n]

\* Bug: only what the implementation has just sent back is paid out.
SendAskedMutant(h, ask, out, recipient) ==
  /\ out > 0
  /\ holdings' = [[h EXCEPT ![ask][This] = @ - out] EXCEPT ![ask][recipient] = @ + out]

\* execute_send, which the swapper calls itself: everything it has of the asset,
\* what was there before the swap too.
SendAsked(h, ask, out, recipient) ==
  LET all == h[ask][This]
  IN  /\ all > 0
      /\ holdings' = [[h EXCEPT ![ask][This] = 0] EXCEPT ![ask][recipient] = @ + all]

\* The implementation takes the offer and returns the amount out.
ThroughImpl(s, offer, n, ask, out, recipient) ==
  /\ Resolves(swapperImpl, appContract)
  /\ LET impl == AddressOf(swapperImpl, appContract)
         offered == Give(offer, s, impl, n)
     IN  /\ out <= holdings[ask][impl]
         /\ SendAsked([[offered EXCEPT ![ask][impl] = @ - out] EXCEPT ![ask][This] = @ + out],
                      ask, out, recipient)

Swap(s, offer, n, ask, out, recipient) ==
  /\ offer \in Natives
  /\ 0 < n /\ n <= holdings[offer][s]
  /\ IF ask = offer THEN holdings' = Give(offer, s, recipient, n)
     ELSE ThroughImpl(s, offer, n, ask, out, recipient)
  /\ UNCHANGED swapperImpl

\* receive_cw20 and execute_swap_cw20, for the sender of the tokens.
SwapCw20(s, offer, n, ask, out, recipient) ==
  /\ offer \in Cw20s
  /\ 0 < n /\ n <= holdings[offer][s]
  /\ IF ask = offer THEN holdings' = Give(offer, s, recipient, n)
     ELSE ThroughImpl(s, offer, n, ask, out, recipient)
  /\ UNCHANGED swapperImpl

\* Assets sent to the swapper without a message.
Stray(s, a, n) ==
  /\ n <= holdings[a][s]
  /\ holdings' = Give(a, s, This, n)
  /\ UNCHANGED swapperImpl

SwapperStep ==
  \E s \in Actors, offer \in Natives \cup Cw20s, n \in SwapAmounts :
    \/ Stray(s, offer, n)
    \/ \E ask \in Natives \cup Cw20s, out \in SwapAmounts, recipient \in Actors :
         Swap(s, offer, n, ask, out, recipient) \/ SwapCw20(s, offer, n, ask, out, recipient)
-----------------------------------------------------------------------------
\* A swap leaves nothing of the asset asked for in the swapper.
SwapExact(ask) == holdings'[ask][This] = 0
=============================================================================
