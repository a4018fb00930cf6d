------------------------------ MODULE Timelock ------------------------------
(***************************************************************************)
(* The timelock contract, contracts/finance/andromeda-timelock.            *)
(*                                                                         *)
(* Anybody deposits coins for a recipient, in one escrow per owner and     *)
(* recipient, with a condition: a time, a block height, a minimum of coins *)
(* or none.  Later deposits join the escrow and its condition.  Anybody    *)
(* releases what is not locked any more, one escrow or a page of them.     *)
(***************************************************************************)
EXTENDS Integers, FiniteSets, Functions

CONSTANTS
  Users,          \* addresses, numbered in the order of their bytes
  Contracts,      \* the addresses that take an AndrReceive message
  Denoms,
  Deposits,       \* the coins a message may carry
  Conditions,     \* the conditions an owner may ask for
  Limits,         \* limits of a page
  MaxHeight, MaxPace, MaxDeposited   \* bounds, for model checking

NoCondition == [kind |-> "none"]
AtTime(t) == [kind |-> "time", at |-> t]
AtHeight(h) == [kind |-> "height", at |-> h]
Never == [kind |-> "never"]
MinimumFunds(c) == [kind |-> "funds", min |-> c]

\* Coins: amounts of some denoms, as the bank sends them and merge_coins adds.
IsCoins(c) ==
  /\ DOMAIN c \subseteq Denoms
  /\ \A d \in DOMAIN c : c[d] \in Nat
AmountOf(c, d) == IF d \in DOMAIN c THEN c[d] ELSE 0
Merged(c, e) == [d \in DOMAIN c \cup DOMAIN e |-> AmountOf(c, d) + AmountOf(e, d)]

ASSUME TimelockAssumption ==
  /\ Users \subseteq Nat \ {0} /\ IsFiniteSet(Users) /\ Contracts \subseteq Users
  /\ \A c \in Deposits : IsCoins(c) /\ \A d \in DOMAIN c : c[d] > 0
  /\ \A c \in Conditions :
       \/ c \in {NoCondition, Never}
       \/ c.kind \in {"time", "height"} /\ c.at \in Nat
       \/ c.kind = "funds" /\ IsCoins(c.min)
  /\ Limits \subseteq Nat
  /\ MaxHeight \in Nat /\ MaxPace \in Nat \ {0} /\ MaxDeposited \in Nat

VARIABLES
  height, time,  \* env.block
  escrow,        \* escrows(), by owner and recipient
  held,          \* the contract's balance
  deposited,     \* history: what has been deposited for each recipient
  paid           \* history: what each recipient has been sent

block == <<height, time>>
vars == <<height, time, escrow, held, deposited, paid>>

Key == Users \X Users

\* min_funds_deposited: a minimum of zero still asks for the coin to be there.
MinFundsDeposited(c, min) == \A d \in DOMAIN min : d \in DOMAIN c /\ min[d] <= c[d]

\* Bug: heights compared the wrong way round.
IsLockedMutant(e) ==
  CASE e.condition.kind = "none" -> FALSE
    [] e.condition.kind = "time" -> e.condition.at > time
    [] e.condition.kind = "height" -> e.condition.at < height
    [] e.condition.kind = "funds" -> ~MinFundsDeposited(e.coins, e.condition.min)

IsLocked(e) ==
  CASE e.condition.kind = "none" -> FALSE
    [] e.condition.kind = "time" -> e.condition.at > time
    [] e.condition.kind = "height" -> e.condition.at > height
    [] e.condition.kind = "funds" -> ~MinFundsDeposited(e.coins, e.condition.min)

\* Escrow::validate: there are coins, and the condition is none, still to be
\* met, or a minimum, which may be met already.
Valid(e) ==
  /\ DOMAIN e.coins # {}
  /\ \/ e.condition.kind = "none"
     \/ e.condition.kind = "funds" /\ DOMAIN e.condition.min # {}
     \/ e.condition.kind \in {"time", "height"} /\ IsLocked(e)

\* A wallet takes coins; only a contract takes them with a message.
Deliverable(k) == escrow[k].viaAdo => k[2] \in Contracts
-----------------------------------------------------------------------------
Init ==
  /\ height = 1 /\ time = 1
  /\ escrow = [k \in {} |-> 0]
  /\ held = [d \in Denoms |-> 0]
  /\ deposited = [r \in Users |-> [d \in Denoms |-> 0]]
  /\ paid = [r \in Users |-> [d \in Denoms |-> 0]]

NextBlock ==
  /\ height < MaxHeight
  /\ height' = height + 1
  /\ \E pace \in 1 .. MaxPace : time' = time + pace
  /\ UNCHANGED <<escrow, held, deposited, paid>>

Deposit(r, coins) ==
  /\ SumFunction([u \in Users |-> SumFunction(deposited[u])]) < MaxDeposited
  /\ held' = [d \in Denoms |-> held[d] + AmountOf(coins, d)]
  /\ deposited' = [deposited EXCEPT ![r] = [d \in Denoms |-> @[d] + AmountOf(coins, d)]]
  /\ UNCHANGED <<block, paid>>

\* Bug: the coins that are there already are forgotten.
HoldFundsLostMutant(o, r, coins, condition, viaAdo) ==
  LET k == <<o, r>>
      e == IF k \in DOMAIN escrow
           THEN [coins |-> coins, condition |-> escrow[k].condition, viaAdo |-> viaAdo]
           ELSE [coins |-> coins, condition |-> condition, viaAdo |-> viaAdo]
  IN  /\ k \notin DOMAIN escrow => Valid(e)
      /\ escrow' = [j \in DOMAIN escrow \cup {k} |-> IF j = k THEN e ELSE escrow[j]]
      /\ Deposit(r, coins)

\* Bug: a deposit brings its own condition.
HoldFundsMutant(o, r, coins, condition, viaAdo) ==
  LET k == <<o, r>>
      e == IF k \in DOMAIN escrow
           THEN [coins |-> Merged(coins, escrow[k].coins),
                 condition |-> condition, viaAdo |-> viaAdo]
           ELSE [coins |-> coins, condition |-> condition, viaAdo |-> viaAdo]
  IN  /\ Valid(e)
      /\ escrow' = [j \in DOMAIN escrow \cup {k} |-> IF j = k THEN e ELSE escrow[j]]
      /\ Deposit(r, coins)

\* execute_hold_funds.  Adding to an escrow keeps its condition, and replaces
\* the way its recipient is paid; it needs no coins and is not validated.
HoldFunds(o, r, coins, condition, viaAdo) ==
  LET k == <<o, r>>
      e == IF k \in DOMAIN escrow
           THEN [coins |-> Merged(coins, escrow[k].coins),
                 condition |-> escrow[k].condition, viaAdo |-> viaAdo]
           ELSE [coins |-> coins, condition |-> condition, viaAdo |-> viaAdo]
  IN  /\ k \notin DOMAIN escrow => Valid(e)
      /\ escrow' = [j \in DOMAIN escrow \cup {k} |-> IF j = k THEN e ELSE escrow[j]]
      /\ Deposit(r, coins)

\* What the escrows K hold of d.
TotalOf(K, d) == SumFunctionOnSet([k \in K |-> AmountOf(escrow[k].coins, d)], K)

\* Bug: the escrows stay.
PayMutant(K, r) ==
  /\ \A k \in K : Deliverable(k)
  /\ \A d \in Denoms : held[d] >= TotalOf(K, d)
  /\ held' = [d \in Denoms |-> held[d] - TotalOf(K, d)]
  /\ paid' = [paid EXCEPT ![r] = [d \in Denoms |-> @[d] + TotalOf(K, d)]]
  /\ UNCHANGED <<block, escrow, deposited>>

\* The messages and the removal of the escrows K, all for r: all or nothing.
Pay(K, r) ==
  /\ \A k \in K : Deliverable(k)
  /\ \A d \in Denoms : held[d] >= TotalOf(K, d)
  /\ escrow' = Restrict(escrow, DOMAIN escrow \ K)
  /\ held' = [d \in Denoms |-> held[d] - TotalOf(K, d)]
  /\ paid' = [paid EXCEPT ![r] = [d \in Denoms |-> @[d] + TotalOf(K, d)]]
  /\ UNCHANGED <<block, deposited>>

\* get_keys_for_recipient: the first limit keys behind start, in key order.
Page(r, start, limit) ==
  LET after == {k \in DOMAIN escrow : k[2] = r /\ k[1] > start}
  IN  {k \in after : Cardinality({j \in after : j[1] < k[1]}) < limit}

\* execute_release_funds, called by anyone: of a page, what is not locked.
ReleaseFunds(r, start, limit) ==
  LET open == {k \in Page(r, start, limit) : ~IsLocked(escrow[k])}
  IN  open # {} /\ Pay(open, r)

\* Bug: the lock is not looked at.
ReleaseSpecificFundsMutant(o, r) ==
  /\ <<o, r>> \in DOMAIN escrow
  /\ Pay({<<o, r>>}, r)

\* execute_release_specific_funds, called by anyone.
ReleaseSpecificFunds(o, r) ==
  /\ <<o, r>> \in DOMAIN escrow
  /\ ~IsLocked(escrow[<<o, r>>])
  /\ Pay({<<o, r>>}, r)

Next ==
  \/ NextBlock
  \/ \E r \in Users :
       \/ \E o \in Users :
            \/ \E coins \in Deposits, condition \in Conditions, viaAdo \in BOOLEAN :
                 HoldFunds(o, r, coins, condition, viaAdo)
            \/ ReleaseSpecificFunds(o, r)
       \/ \E start \in Users \cup {0}, limit \in Limits : ReleaseFunds(r, start, limit)

Spec == Init /\ [][Next]_vars

\* Blocks are made, and whoever gains by a release asks for it.
FairSpec ==
  /\ Spec
  /\ WF_vars(NextBlock)
  /\ \A o, r \in Users : WF_vars(ReleaseSpecificFunds(o, r))
-----------------------------------------------------------------------------
\* The escrows share one balance, which is what they hold together: no release
\* is paid from the coins of another escrow.
Backed == \A d \in Denoms : held[d] = TotalOf(DOMAIN escrow, d)

\* Every coin deposited for a recipient was sent to that recipient or is still
\* in escrow for it, whoever released it, alone or in a page.
Conserved ==
  \A r \in Users, d \in Denoms :
    deposited[r][d] = paid[r][d] + TotalOf({k \in DOMAIN escrow : k[2] = r}, d)

\* No coin is lost, paid twice or paid from another's escrow.
Accounted == Backed /\ Conserved

\* "Keep the original condition" (contract.rs:117): whatever is deposited later
\* an escrow stays, with all of its coins, until that condition is met.
KeepsItsCondition ==
  [][\A k \in DOMAIN escrow :
       IF k \in DOMAIN escrow'
       THEN /\ escrow'[k].condition = escrow[k].condition
            /\ \A d \in Denoms : AmountOf(escrow[k].coins, d) <= AmountOf(escrow'[k].coins, d)
       ELSE ~IsLocked(escrow[k])]_vars

\* An escrow that waits for a time or a height, or for nothing, is paid in the
\* end, unless its owner has it sent with a message to a mere wallet.
PaidInTheEnd ==
  \A k \in Key :
    (k \in DOMAIN escrow /\ escrow[k].condition.kind # "funds")
      ~> (k \notin DOMAIN escrow \/ ~Deliverable(k))
=============================================================================
