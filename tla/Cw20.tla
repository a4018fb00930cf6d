-------------------------------- MODULE Cw20 --------------------------------
(***************************************************************************)
(* The token, contracts/fungible-tokens/andromeda-cw20: cw20-base, whose   *)
(* handlers are modelled from how they are called, with rates, a list of   *)
(* addresses and receipts for transfers, and with the sale of allowances   *)
(* on the token owner's balance for another token, USDC.                   *)
(***************************************************************************)
EXTENDS Rates, AddressList, Receipt

CONSTANTS
  TokenOwner,       \* GET_TOKEN_INFO.owner
  Minter,
  InitialBalances,          \* of everybody who may hold tokens
  TokenAmounts,
  Prices,
  MaxSupply, MaxAllowance   \* bounds, for model checking

ASSUME Cw20Assumption ==
  /\ Actors \subseteq DOMAIN InitialBalances /\ DOMAIN InitialBalances \subseteq Actors \cup Contracts
  /\ InitialBalances \in [DOMAIN InitialBalances -> Nat]
  /\ TokenOwner \in Actors
  /\ \A list \in RateLists : \A i \in DOMAIN list : \A j \in DOMAIN list[i].to :
       list[i].to[j] \in DOMAIN InitialBalances
  /\ Prices \subseteq Nat /\ TokenAmounts \subseteq Nat

VARIABLES
  tokens,      \* BALANCES
  supply,      \* total_supply of cw20-base
  allowance,   \* ALLOWANCES, of pairs of an owner and a spender
  price,       \* TOKEN_PRICE
  usdc         \* balances of the other token

cwVars == <<tokens, supply, allowance, price, usdc>>
Holders == DOMAIN InitialBalances

Cw20Init ==
  /\ tokens = InitialBalances /\ supply = SumFunction(InitialBalances)
  /\ allowance = [pair \in Actors \X Actors |-> 0]
  /\ price \in Prices
  /\ usdc = [h \in Actors \cup {This} |-> IF h = This THEN 0 ELSE Wealth[h]]

HasModule(type) == \E i \in DOMAIN modules : modules[i].type = type

\* module_hook of OnExecute, which all messages but AndrReceive pass.
OnExecute(sender) == HasModule("address-list") => Permits(sender)

Moved(b, from, to, n) == [[b EXCEPT ![from] = @ - n] EXCEPT ![to] = @ + n]

Payments(amount) == IF HasModule("rates") THEN FeePayments(amount) ELSE << >>
Remaining(amount) == IF HasModule("rates") THEN LeftoverFunds(amount) ELSE amount

\* The balances after the first k payments of s: transfer_tokens, one by one.
AfterFees(s, payments) ==
  LET after[k \in 0 .. Len(payments)] ==
        IF k = 0 THEN tokens ELSE Moved(after[k - 1], s, payments[k].to, payments[k].fee)
  IN  after

\* The receipt module has the token contract send it a receipt to store.
GenerateReceipt(payments) ==
  IF HasModule("receipt") THEN StoreReceipt(This, payments) ELSE UNCHANGED <<receipts, numReceipt>>

\* execute_transfer.  The fees leave first, the royalties out of the amount.
Transfer(s, to, amount) ==
  LET payments == Payments(amount)
      after == AfterFees(s, payments)
      n == Remaining(amount)
  IN  /\ OnExecute(s)
      /\ HasModule("rates") => CanDeduct(amount)
      /\ \A k \in DOMAIN payments : payments[k].fee <= after[k - 1][s]
      /\ 0 < n /\ n <= after[Len(payments)][s]
      /\ tokens' = Moved(after[Len(payments)], s, to, n)
      /\ GenerateReceipt(payments)
      /\ UNCHANGED <<supply, allowance, price, usdc>>

\* execute_send, to a contract that takes the tokens.
Send(s, contract, amount) == contract \in Contracts /\ Transfer(s, contract, amount)

Unreceipted == UNCHANGED <<receipts, numReceipt>>

SetAllowance(o, s, n) ==
  /\ n <= MaxAllowance
  /\ allowance' = [allowance EXCEPT ![<<o, s>>] = n]

IncreaseAllowance(o, s, n) ==
  /\ OnExecute(o) /\ o # s
  /\ SetAllowance(o, s, allowance[<<o, s>>] + n)
  /\ UNCHANGED <<tokens, supply, price, usdc>> /\ Unreceipted

DecreaseAllowance(o, s, n) ==
  /\ OnExecute(o) /\ o # s
  /\ SetAllowance(o, s, IF n < allowance[<<o, s>>] THEN allowance[<<o, s>>] - n ELSE 0)
  /\ UNCHANGED <<tokens, supply, price, usdc>> /\ Unreceipted

\* TransferFrom and SendFrom of cw20-base, on which no rates are charged.
TransferFrom(s, o, to, n) ==
  /\ OnExecute(s)
  /\ n <= allowance[<<o, s>>] /\ n <= tokens[o]
  /\ SetAllowance(o, s, allowance[<<o, s>>] - n)
  /\ tokens' = Moved(tokens, o, to, n)
  /\ UNCHANGED <<supply, price, usdc>> /\ Unreceipted

Mint(s, to, n) ==
  /\ OnExecute(s) /\ s = Minter
  /\ 0 < n /\ supply + n <= MaxSupply
  /\ supply' = supply + n
  /\ tokens' = [tokens EXCEPT ![to] = @ + n]
  /\ UNCHANGED <<allowance, price, usdc>> /\ Unreceipted

\* Bug: the supply does not follow.
BurnTokensMutant(s, o, n) ==
  /\ OnExecute(s) /\ n <= tokens[o]
  /\ IF s = o THEN 0 < n /\ UNCHANGED allowance
     ELSE n <= allowance[<<o, s>>] /\ SetAllowance(o, s, allowance[<<o, s>>] - n)
  /\ tokens' = [tokens EXCEPT ![o] = @ - n]
  /\ UNCHANGED <<supply, price, usdc>> /\ Unreceipted

\* Burn, and BurnFrom for another's tokens.
BurnTokens(s, o, n) ==
  /\ OnExecute(s) /\ n <= tokens[o]
  /\ IF s = o THEN 0 < n /\ UNCHANGED allowance
     ELSE n <= allowance[<<o, s>>] /\ SetAllowance(o, s, allowance[<<o, s>>] - n)
  /\ tokens' = [tokens EXCEPT ![o] = @ - n]
  /\ supply' = supply - n
  /\ UNCHANGED <<price, usdc>> /\ Unreceipted

\* The owner in the message need not be the sender.
IncreaseAllowancePurchase(s, o, spender, n) ==
  /\ OnExecute(s) /\ spender # s
  /\ SetAllowance(o, spender, allowance[<<o, spender>>] + n)
  /\ UNCHANGED <<tokens, supply, price, usdc>> /\ Unreceipted

UpdatePrice(s, p) ==
  /\ OnExecute(s) /\ s = owner
  /\ price' = p
  /\ UNCHANGED <<tokens, supply, allowance, usdc>> /\ Unreceipted

\* execute_receive_cw20: u has sent USDC to the contract, whose hook must let
\* the USDC contract through.  A price of zero panics.
PayUsdc(u, n) ==
  /\ HasModule("address-list") => ~inclusive
  /\ price > 0
  /\ n <= usdc[u]
  /\ usdc' = Moved(usdc, u, This, n)

PurchaseAllowance(u, n) ==
  /\ PayUsdc(u, n)
  /\ SetAllowance(TokenOwner, u, allowance[<<TokenOwner, u>>] + n \div price)
  /\ UNCHANGED <<tokens, supply, price>> /\ Unreceipted

TransferFromPurchase(u, n) ==
  LET bought == n \div price
  IN  /\ PayUsdc(u, n)
      /\ bought <= allowance[<<TokenOwner, u>>] /\ bought <= tokens[TokenOwner]
      /\ SetAllowance(TokenOwner, u, allowance[<<TokenOwner, u>>] - bought)
      /\ tokens' = Moved(tokens, TokenOwner, u, bought)
      /\ UNCHANGED <<supply, price>> /\ Unreceipted

TokenStep ==
  \E s \in Actors, to \in Holders, n \in TokenAmounts :
    Transfer(s, to, n) \/ Send(s, to, n) \/ Mint(s, to, n) \/ BurnTokens(s, s, n)

AllowanceStep ==
  \/ \E s, o \in Actors, n \in TokenAmounts :
       \/ IncreaseAllowance(o, s, n) \/ DecreaseAllowance(o, s, n)
       \/ \E spender \in Actors : IncreaseAllowancePurchase(s, o, spender, n)
       \/ \E to \in Holders : TransferFrom(s, o, to, n)
       \/ s # o /\ BurnTokens(s, o, n)
       \/ PurchaseAllowance(s, n) \/ TransferFromPurchase(s, n)
  \/ \E s \in Actors, p \in Prices : UpdatePrice(s, p)
-----------------------------------------------------------------------------
SupplyBacked == supply = SumFunction(tokens)

\* A transfer of the amount pays each fee, no less than its exact part and at
\* most a token more, and the rest of the amount arrives.
TransferExact(s, to, amount) ==
  LET payments == Payments(amount)
      arrived(h) == IF h = to THEN Remaining(amount) ELSE 0
      fees(h) == SumFunctionOnSet([k \in DOMAIN payments |-> payments[k].fee],
                                  {k \in DOMAIN payments : payments[k].to = h})
  IN  /\ HasModule("rates") =>
           \A i \in DOMAIN rates : RateValue(rates[i]).kind = "percent" =>
             LET exact == amount * RateValue(rates[i]).n
                 fee == FeeOf(i, amount) * PercentOne
             IN  exact <= fee /\ fee <= exact + PercentOne
      /\ \A h \in Holders \ {s} : tokens'[h] = tokens[h] + arrived(h) + fees(h)
      /\ SumFunction(tokens') = SumFunction(tokens)
=============================================================================
