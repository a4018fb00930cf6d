------------------------------ MODULE AdosProofs -----------------------------
(***************************************************************************)
(* Proofs about Ados: the contracts that share the base of                 *)
(* packages/ado-base, for any people, recipients, amounts, trees, rates    *)
(* and configurations of rewards.                                          *)
(*                                                                         *)
(* Each contract has an invariant of its own.  AdosInv conjoins them; a    *)
(* step of one contract leaves the state of the others alone, so that each *)
(* part is shown for the steps that can change its variables.              *)
(***************************************************************************)
EXTENDS Ados, Sums, TLAPS

(***************************************************************************)
(* The app contract.                                                       *)
(***************************************************************************)

\* Components are numbered as they are added, each has an owner, and its name
\* is known.
AppInv ==
  /\ descriptors \in Seq([name : Names, type : Types])
  /\ componentOwner \in Seq(Actors \cup {This})
  /\ Len(componentOwner) = Len(descriptors)
  /\ \A i \in DOMAIN descriptors : descriptors[i].name \in DOMAIN adoAddress
  /\ NamesResolve

LEMMA AppInitial == AppInit => AppInv
BY DEF AppInit, AppInv, NamesResolve

LEMMA AppUnchanged == AppInv /\ UNCHANGED appVars => AppInv'
BY DEF AppInv, appVars, NamesResolve, Addresses

LEMMA AddKeeps ==
  ASSUME AppInv, NEW s, NEW name \in Names, NEW type \in Types, AddAppComponent(s, name, type)
  PROVE  AppInv'
<1> DEFINE n == Len(descriptors) + 1
<1>1. /\ descriptors' = Append(descriptors, [name |-> name, type |-> type])
      /\ componentOwner' = Append(componentOwner, This)
      /\ adoAddress' = With(adoAddress, name, n)
      /\ renamed' = renamed /\ name \notin DOMAIN adoAddress
  BY DEF AddAppComponent, SaveAddress
<1>2. /\ Len(descriptors) \in Nat /\ DOMAIN descriptors = 1 .. Len(descriptors)
      /\ DOMAIN componentOwner = DOMAIN descriptors
  BY DEF AppInv
<1>3. /\ descriptors' \in Seq([name : Names, type : Types])
      /\ componentOwner' \in Seq(Actors \cup {This})
      /\ Len(componentOwner') = Len(descriptors')
      /\ DOMAIN descriptors' = DOMAIN descriptors \cup {n}
      /\ \A i \in DOMAIN descriptors : descriptors'[i] = descriptors[i]
      /\ descriptors'[n].name = name
      /\ DOMAIN componentOwner' = DOMAIN componentOwner \cup {n}
  BY <1>1, <1>2 DEF AppInv
<1>4. /\ DOMAIN adoAddress' = DOMAIN adoAddress \cup {name}
      /\ adoAddress'[name] = n
      /\ \A m \in DOMAIN adoAddress : adoAddress'[m] = adoAddress[m]
  BY <1>1 DEF With
<1> HIDE DEF n
<1>5. NamesResolve'
  BY <1>1, <1>3, <1>4 DEF AppInv, NamesResolve, Addresses
<1> QED BY <1>3, <1>4, <1>5 DEF AppInv

LEMMA GiveKeeps ==
  ASSUME AppInv, NEW addresses, NEW new \in Actors, GiveComponents(addresses, new)
  PROVE  AppInv'
<1>1. /\ DOMAIN componentOwner' = DOMAIN componentOwner
      /\ componentOwner' \in Seq(Actors \cup {This}) /\ Len(componentOwner') = Len(componentOwner)
      /\ UNCHANGED <<descriptors, adoAddress, renamed>>
  BY DEF GiveComponents, AppInv
<1> QED BY <1>1 DEF AppInv, NamesResolve, Addresses

LEMMA RenameKeeps ==
  ASSUME AppInv, NEW s, NEW name \in Names, NEW a \in Addresses, UpdateAddress(s, name, a)
  PROVE  AppInv'
<1>1. /\ DOMAIN adoAddress' = DOMAIN adoAddress
      /\ adoAddress'[name] = a
      /\ \A m \in DOMAIN adoAddress \ {name} : adoAddress'[m] = adoAddress[m]
      /\ renamed' = renamed \cup {name}
      /\ UNCHANGED <<descriptors, componentOwner>>
  BY DEF UpdateAddress, With
<1> QED BY <1>1 DEF AppInv, NamesResolve, Addresses

LEMMA AppKeeps == AppInv /\ AppStep => AppInv'
<1> SUFFICES ASSUME AppInv, AppStep PROVE AppInv'
  OBVIOUS
<1>1. ASSUME NEW s \in Actors, NEW name, ClaimOwnership(s, name) PROVE AppInv'
  BY <1>1, GiveKeeps DEF ClaimOwnership
<1>2. ASSUME NEW s \in Actors, ClaimOwnershipOfAll(s) PROVE AppInv'
  BY <1>2, GiveKeeps DEF ClaimOwnershipOfAll
<1>3. ASSUME NEW s, NEW name, NEW new \in Actors, ProxyMessage(s, name, new) PROVE AppInv'
  BY <1>3, GiveKeeps DEF ProxyMessage
<1> QED BY <1>1, <1>2, <1>3, AddKeeps, RenameKeeps DEF AppStep

\* Only the app's own steps change its state.
LEMMA AppFrame == AdosNext => AppStep \/ UNCHANGED appVars
<1>1. \A parts : OnlyChange(parts) /\ "app" \notin parts => UNCHANGED appVars
  BY DEF OnlyChange
<1> QED BY <1>1 DEF AdosNext

(***************************************************************************)
(* The base: modules and the app they are found in.                        *)
(***************************************************************************)

ModulesInv ==
  /\ moduleIdx \in Nat
  /\ DOMAIN modules \subseteq Nat
  /\ ModulesSound

LEMMA ModulesInitial == BaseInit => ModulesInv
<1> SUFFICES ASSUME BaseInit PROVE ModulesInv
  OBVIOUS
<1>1. modules \in Seq([type : STRING, address : Actors \cup Contracts \cup Names, mutable : BOOLEAN])
  BY BaseAssumption DEF BaseInit
<1>2. Len(modules) \in Nat /\ DOMAIN modules = 1 .. Len(modules)
  BY <1>1
<1>3. appContract = NoApp /\ moduleIdx = Len(modules) + 1 /\ ModulesValid(modules)
  BY DEF BaseInit
<1> QED BY <1>2, <1>3 DEF ModulesInv, ModulesSound, ModulesValid

LEMMA RegisterKeeps ==
  ASSUME ModulesInv, NEW s, NEW m, RegisterModule(s, m), UNCHANGED ownVars
  PROVE  ModulesInv'
<1>1. /\ modules' = With(modules, moduleIdx, m) /\ ModulesValid(modules')
      /\ moduleIdx' = moduleIdx + 1 /\ adoType' = adoType /\ appContract' = appContract
      /\ ModuleAddressValid(m)
  BY DEF RegisterModule, ChangeModules, ownVars
<1>2. /\ DOMAIN modules' = DOMAIN modules \cup {moduleIdx}
      /\ modules'[moduleIdx] = m
      /\ \A i \in DOMAIN modules \ {moduleIdx} : modules'[i] = modules[i]
  BY <1>1 DEF With
<1> QED BY <1>1, <1>2 DEF ModulesInv, ModulesSound, ModulesValid, ModuleAddressValid

LEMMA AlterKeeps ==
  ASSUME ModulesInv, NEW s, NEW i, NEW m, AlterModule(s, i, m), UNCHANGED ownVars
  PROVE  ModulesInv'
<1>1. /\ modules' = With(modules, i, m) /\ ModulesValid(modules')
      /\ i \in DOMAIN modules
      /\ moduleIdx' = moduleIdx /\ adoType' = adoType /\ appContract' = appContract
      /\ ModuleAddressValid(m)
  BY DEF AlterModule, ChangeModules, ownVars, IsMutable
<1>2. /\ DOMAIN modules' = DOMAIN modules
      /\ modules'[i] = m
      /\ \A j \in DOMAIN modules \ {i} : modules'[j] = modules[j]
  BY <1>1 DEF With
<1> QED BY <1>1, <1>2 DEF ModulesInv, ModulesSound, ModulesValid, ModuleAddressValid

LEMMA DeregisterKeeps ==
  ASSUME ModulesInv, NEW s, NEW i, DeregisterModule(s, i), UNCHANGED ownVars
  PROVE  ModulesInv'
<1>1. /\ modules' = Restrict(modules, DOMAIN modules \ {i})
      /\ moduleIdx' = moduleIdx /\ adoType' = adoType /\ appContract' = appContract
  BY DEF DeregisterModule, ChangeModules, ownVars, Without
<1>2. /\ DOMAIN modules' = DOMAIN modules \ {i}
      /\ \A j \in DOMAIN modules' : modules'[j] = modules[j]
  BY <1>1 DEF Restrict
<1> QED BY <1>1, <1>2 DEF ModulesInv, ModulesSound

\* Only into an app in which every module can be found.
LEMMA OwnKeeps ==
  ASSUME ModulesInv, NEW addresses, OwnStep(addresses), UNCHANGED moduleVars
  PROVE  ModulesInv'
<1>1. \/ appContract' = appContract
      \/ \A i \in DOMAIN modules : Resolves(modules[i].address, appContract')
  BY DEF OwnStep, UpdateOwner, UpdateOperators, UpdateAppContract, AddressesValid, ModuleAddressesIn
<1> QED BY <1>1 DEF ModulesInv, ModulesSound, moduleVars

LEMMA ModulesUnchanged == ModulesInv /\ UNCHANGED <<ownVars, moduleVars>> => ModulesInv'
BY DEF ModulesInv, ModulesSound, moduleVars, ownVars

LEMMA ModulesFrame ==
  AdosNext => \/ \E addresses : OwnStep(addresses) /\ UNCHANGED moduleVars
              \/ ModuleStep /\ UNCHANGED ownVars
              \/ UNCHANGED <<ownVars, moduleVars>>
<1>1. \A parts : OnlyChange(parts) => /\ "own" \in parts \/ UNCHANGED ownVars
                                      /\ "modules" \in parts \/ UNCHANGED moduleVars
  BY DEF OnlyChange
<1> QED BY <1>1 DEF AdosNext

LEMMA ModulesKeep == ModulesInv /\ AdosNext => ModulesInv'
BY ModulesFrame, OwnKeeps, RegisterKeeps, AlterKeeps, DeregisterKeeps, ModulesUnchanged DEF ModuleStep
(***************************************************************************)
(* Rate limiting withdrawals.  Where deposits for another's account are    *)
(* made, a depositor's own account is overwritten and neither the books    *)
(* nor the limit hold (run ratelimit_topup); what follows is about         *)
(* contracts in which nobody tops up the account of another.               *)
(***************************************************************************)

\* An account remembers the last payment to its user: nothing was taken later.
LimitInv ==
  /\ time \in LimitTimes
  /\ hasAccount \in [Depositors -> BOOLEAN]
  /\ account \in [Depositors -> Nat]
  /\ latestWithdrawal \in [Depositors -> LimitTimes \cup {NoWithdrawal}]
  /\ held \in Nat
  /\ taken \in [Depositors -> [LimitTimes -> Nat]]
  /\ \A u \in Depositors : latestWithdrawal[u] <= time
  /\ \A u \in Depositors, t \in LimitTimes : taken[u][t] > 0 => t <= latestWithdrawal[u]
  /\ \A u \in Depositors : latestWithdrawal[u] # NoWithdrawal => hasAccount[u]
  /\ AccountsBacked
  /\ Limited

LEMMA SecondsFacts ==
  /\ \A t \in Nat : Seconds(t) \in Nat
  /\ \A s, t \in Nat : s <= t => Seconds(s) <= Seconds(t)
<1>1. TicksPerSecond \in Nat /\ TicksPerSecond > 0
  BY RateLimitAssumption
<1>2. ASSUME NEW t \in Nat PROVE Seconds(t) \in Nat
  BY <1>1, DivFacts DEF Seconds
<1>3. ASSUME NEW s \in Nat, NEW t \in Nat, s <= t PROVE Seconds(s) <= Seconds(t)
  BY <1>1, <1>3, DivMonotone DEF Seconds
<1> QED BY <1>2, <1>3

LEMMA LimitInitial == LimitInit => LimitInv
<1> SUFFICES ASSUME LimitInit PROVE LimitInv
  OBVIOUS
<1>1. IsFiniteSet(Depositors) /\ MaxLimitTime \in Nat
  BY RateLimitAssumption
<1>2. SumFunctionOnSet(account, Depositors) = 0
  BY <1>1, SumZero DEF LimitInit
<1>3. \A u \in Depositors, t \in LimitTimes : taken[u][t] = 0
  BY DEF LimitInit
<1> QED BY <1>1, <1>2, <1>3 DEF LimitInit, LimitInv, AccountsBacked, Limited, LimitTimes, NoWithdrawal

LEMMA LimitUnchanged == LimitInv /\ UNCHANGED limitVars => LimitInv'
BY DEF LimitInv, limitVars, AccountsBacked, Limited

LEMMA DepositKeeps ==
  ASSUME ~MayTopUpOthers, LimitInv,
         NEW sender \in Depositors, NEW user \in Depositors, NEW amount \in LimitDeposits,
         LimitDeposit(sender, user, amount)
  PROVE  LimitInv'
<1>1. /\ amount \in Nat /\ held' = held + amount /\ UNCHANGED <<time, taken>>
      /\ hasAccount' = [hasAccount EXCEPT ![user] = TRUE]
      /\ account' = [account EXCEPT ![user] = account[user] + amount]
      /\ latestWithdrawal' = latestWithdrawal
  BY RateLimitAssumption DEF LimitDeposit, LimitInv
<1>2. SumFunctionOnSet(account', Depositors)
        = SumFunctionOnSet(account, Depositors) - account[user] + account'[user]
  <2>1. IsFiniteSet(Depositors) /\ user \in Depositors
    BY RateLimitAssumption
  <2>2. /\ \A u \in Depositors : account[u] \in Int /\ account'[u] \in Int
        /\ \A u \in Depositors \ {user} : account'[u] = account[u]
    BY <1>1 DEF LimitInv
  <2> QED BY <2>1, <2>2, SumChange
<1>3. AccountsBacked'
  BY <1>1, <1>2, SumNat, RateLimitAssumption DEF LimitInv, AccountsBacked
<1> QED BY <1>1, <1>3 DEF LimitInv, Limited

LEMMA WithdrawKeeps ==
  ASSUME LimitInv, NEW u \in Depositors, NEW amount \in 1 .. held, LimitWithdraw(u, amount)
  PROVE  LimitInv'
<1>1. /\ amount \in Nat /\ amount > 0 /\ amount <= account[u] /\ amount <= MaxWithdrawal
      /\ hasAccount[u] /\ UNCHANGED <<time, hasAccount>>
      /\ account' = [account EXCEPT ![u] = @ - amount]
      /\ latestWithdrawal' = [latestWithdrawal EXCEPT ![u] = time]
      /\ held' = held - amount /\ held' \in Nat
      /\ taken' = [taken EXCEPT ![u][time] = @ + amount]
      /\ latestWithdrawal[u] # NoWithdrawal =>
           Seconds(time) - Seconds(latestWithdrawal[u]) >= Frequency
  BY DEF LimitWithdraw, LimitInv
<1>2. MaxLimitTime \in Nat /\ Frequency \in Nat /\ LimitTimes \subseteq Nat
  BY RateLimitAssumption DEF LimitTimes
<1>3. AccountsBacked'
  <2>1. SumFunctionOnSet(account', Depositors)
          = SumFunctionOnSet(account, Depositors) - account[u] + account'[u]
    <3>1. IsFiniteSet(Depositors) /\ u \in Depositors
      BY RateLimitAssumption
    <3>2. /\ \A v \in Depositors : account[v] \in Int /\ account'[v] \in Int
          /\ \A v \in Depositors \ {u} : account'[v] = account[v]
      BY <1>1 DEF LimitInv
    <3> QED BY <3>1, <3>2, SumChange
  <2> QED BY <1>1, <2>1, SumNat, RateLimitAssumption DEF LimitInv, AccountsBacked
<1>4. /\ taken' \in [Depositors -> [LimitTimes -> Nat]]
      /\ \A v \in Depositors, t \in LimitTimes :
           taken'[v][t] = taken[v][t] + (IF v = u /\ t = time THEN amount ELSE 0)
  BY <1>1 DEF LimitInv
<1>5. \A t \in LimitTimes : taken[u][t] > 0 =>
        /\ latestWithdrawal[u] # NoWithdrawal /\ latestWithdrawal[u] \in Nat
        /\ t <= latestWithdrawal[u] /\ latestWithdrawal[u] <= time /\ t <= time
  <2> SUFFICES ASSUME NEW t \in LimitTimes, taken[u][t] > 0
               PROVE  /\ latestWithdrawal[u] # NoWithdrawal /\ latestWithdrawal[u] \in Nat
                      /\ t <= latestWithdrawal[u] /\ latestWithdrawal[u] <= time /\ t <= time
    OBVIOUS
  <2>1. t <= latestWithdrawal[u] /\ latestWithdrawal[u] <= time /\ t \in Nat /\ time \in Nat
        /\ latestWithdrawal[u] \in Nat \cup {-1}
    BY <1>2 DEF LimitInv, NoWithdrawal
  <2> QED BY <2>1 DEF NoWithdrawal
\* What was taken before is far enough in the past.
<1>6. \A t \in LimitTimes : taken[u][t] > 0 => Seconds(time) - Seconds(t) >= Frequency
  <2> SUFFICES ASSUME NEW t \in LimitTimes, taken[u][t] > 0
               PROVE  Seconds(time) - Seconds(t) >= Frequency
    OBVIOUS
  <2>1. latestWithdrawal[u] \in Nat /\ latestWithdrawal[u] # NoWithdrawal /\ t <= latestWithdrawal[u]
        /\ time \in Nat /\ t \in Nat
    BY <1>2, <1>5 DEF LimitInv
  <2>2. Seconds(t) <= Seconds(latestWithdrawal[u]) /\ Seconds(t) \in Nat
        /\ Seconds(latestWithdrawal[u]) \in Nat /\ Seconds(time) \in Nat
    BY <2>1, SecondsFacts
  <2> QED BY <1>1, <1>2, <2>1, <2>2
<1>7. Limited'
  <2> SUFFICES ASSUME Frequency > 0, NEW v \in Depositors, NEW t \in LimitTimes, taken'[v][t] > 0
               PROVE  /\ taken'[v][t] <= MaxWithdrawal
                      /\ \A s \in LimitTimes : s < t /\ taken'[v][s] > 0 => Seconds(t) - Seconds(s) >= Frequency
    BY DEF Limited
  <2>1. time \in LimitTimes /\ Seconds(time) \in Nat
    BY <1>2, SecondsFacts DEF LimitInv
  <2>2. CASE v = u /\ t = time
    <3>1. ~(taken[u][time] > 0)
      BY <1>2, <1>6, <2>1
    <3>2. taken'[v][t] = amount
      BY <1>1, <1>4, <2>1, <2>2, <3>1 DEF LimitInv
    <3>3. \A s \in LimitTimes : s < t => taken'[u][s] = taken[u][s]
      BY <1>2, <1>4, <2>2 DEF LimitInv
    <3> QED BY <1>1, <1>6, <2>2, <3>2, <3>3
  <2>3. CASE v = u /\ t # time
    <3>1. taken'[u][t] = taken[u][t]
      BY <1>4, <2>3 DEF LimitInv
    <3>2. t <= time
      BY <1>5, <1>2, <2>3, <3>1 DEF LimitInv
    <3>3. \A s \in LimitTimes : s < t => taken'[u][s] = taken[u][s]
      BY <1>2, <1>4, <2>3, <3>2 DEF LimitInv
    <3> QED BY <2>3, <3>1, <3>3 DEF LimitInv, Limited
  <2>4. CASE v # u
    <3>1. \A s \in LimitTimes : taken'[v][s] = taken[v][s]
      BY <1>4, <2>4 DEF LimitInv
    <3> QED BY <3>1 DEF LimitInv, Limited
  <2> QED BY <2>2, <2>3, <2>4
<1>8. \A v \in Depositors, t \in LimitTimes : taken'[v][t] > 0 => t <= latestWithdrawal'[v]
  <2> SUFFICES ASSUME NEW v \in Depositors, NEW t \in LimitTimes, taken'[v][t] > 0
               PROVE  t <= latestWithdrawal'[v]
    OBVIOUS
  <2>1. time \in Nat /\ t \in Nat
    BY <1>2 DEF LimitInv
  <2>2. CASE v = u
    <3>1. latestWithdrawal'[v] = time
      BY <1>1, <2>2 DEF LimitInv
    <3> QED BY <1>4, <1>5, <2>1, <2>2, <3>1 DEF LimitInv
  <2>3. CASE v # u
    <3>1. taken'[v][t] = taken[v][t] /\ latestWithdrawal'[v] = latestWithdrawal[v]
      BY <1>1, <1>4, <2>3 DEF LimitInv
    <3> QED BY <3>1 DEF LimitInv
  <2> QED BY <2>2, <2>3
<1>9. /\ account' \in [Depositors -> Nat]
      /\ latestWithdrawal' \in [Depositors -> LimitTimes \cup {NoWithdrawal}]
      /\ \A v \in Depositors : latestWithdrawal'[v] <= time
      /\ \A v \in Depositors : latestWithdrawal'[v] # NoWithdrawal => hasAccount[v]
  BY <1>1, <1>2 DEF LimitInv
<1> QED BY <1>1, <1>3, <1>4, <1>7, <1>8, <1>9 DEF LimitInv

LEMMA LimitKeeps == ~MayTopUpOthers /\ LimitInv /\ LimitNext => LimitInv'
<1>1. LimitInv /\ LimitTick => LimitInv'
  <2> SUFFICES ASSUME LimitInv, LimitTick PROVE LimitInv'
    OBVIOUS
  <2>1. /\ time' = time + 1 /\ time' \in LimitTimes /\ time \in Nat
        /\ UNCHANGED <<hasAccount, account, latestWithdrawal, held, taken>>
    BY RateLimitAssumption DEF LimitTick, LimitInv, LimitTimes
  <2>2. \A u \in Depositors : latestWithdrawal[u] \in Int /\ latestWithdrawal[u] <= time
    BY RateLimitAssumption DEF LimitInv, LimitTimes, NoWithdrawal
  <2>3. \A u \in Depositors : latestWithdrawal'[u] <= time'
    BY <2>1, <2>2
  <2> QED BY <2>1, <2>3 DEF LimitInv, AccountsBacked, Limited
<1> QED BY <1>1, DepositKeeps, WithdrawKeeps DEF LimitNext

LEMMA LimitFrame == AdosNext => LimitNext \/ UNCHANGED limitVars
<1>1. \A parts : OnlyChange(parts) /\ "limit" \notin parts => UNCHANGED limitVars
  BY DEF OnlyChange
<1> QED BY <1>1 DEF AdosNext
(***************************************************************************)
(* The bank.                                                               *)
(***************************************************************************)

CoinHolders == Actors \cup Contracts
CoinsOK == coins \in [CoinHolders -> Nat]

LEMMA CoinHoldersFinite == IsFiniteSet(CoinHolders) /\ IsFiniteSet(Actors) /\ This \in CoinHolders
BY CommonAssumption, FS_Union DEF CoinHolders

LEMMA OnlySum ==
  ASSUME NEW D, IsFiniteSet(D), NEW h, NEW n \in Nat, NEW f \in [D -> Nat],
         \A g \in D : f[g] = IF g = h THEN n ELSE 0
  PROVE  SumFunctionOnSet(f, D) = IF h \in D THEN n ELSE 0
<1> DEFINE z == [g \in D |-> 0]
<1>1. SumFunctionOnSet(z, D) = 0
  BY SumZero
<1>2. CASE h \in D
  <2>1. /\ \A x \in D : z[x] \in Int /\ f[x] \in Int
        /\ \A x \in D \ {h} : f[x] = z[x]
        /\ z[h] = 0 /\ f[h] = n
    BY <1>2
  <2> HIDE DEF z
  <2>2. SumFunctionOnSet(f, D) = SumFunctionOnSet(z, D) - z[h] + f[h]
    BY <1>2, <2>1, SumChange
  <2> QED BY <1>1, <1>2, <2>1, <2>2
<1>3. CASE h \notin D
  BY <1>3, SumZero
<1> QED BY <1>2, <1>3

\* What a payer has pays for what is paid.
LEMMA PaymentsKeepCoins ==
  ASSUME CoinsOK, NEW payer \in CoinHolders, NEW pay \in [CoinHolders -> Nat],
         SumFunctionOnSet(pay, CoinHolders) <= coins[payer],
         coins' = AfterPayments(payer, pay)
  PROVE  /\ CoinsOK'
         /\ \A h \in CoinHolders : h # payer => coins'[h] = coins[h] + pay[h]
         /\ coins'[payer] = coins[payer] + pay[payer] - SumFunctionOnSet(pay, CoinHolders)
<1>1. DOMAIN coins = CoinHolders /\ SumFunction(pay) = SumFunctionOnSet(pay, CoinHolders)
  BY DEF CoinsOK, SumFunction
<1>2. SumFunctionOnSet(pay, CoinHolders) \in Nat
  BY CoinHoldersFinite, SumNat
<1> QED BY <1>1, <1>2 DEF AfterPayments, CoinsOK

\* A payment creates no coins and destroys none.
LEMMA PaymentsKeepTotal ==
  ASSUME CoinsOK, NEW payer \in CoinHolders, NEW pay \in [CoinHolders -> Nat],
         SumFunctionOnSet(pay, CoinHolders) <= coins[payer],
         coins' = AfterPayments(payer, pay)
  PROVE  SumFunctionOnSet(coins', CoinHolders) = SumFunctionOnSet(coins, CoinHolders)
<1> DEFINE new == coins'
           mid == [h \in CoinHolders |-> coins[h] + pay[h]]
           total == SumFunctionOnSet(pay, CoinHolders)
<1>1. /\ new \in [CoinHolders -> Nat]
      /\ \A h \in CoinHolders : h # payer => new[h] = coins[h] + pay[h]
      /\ new[payer] = coins[payer] + pay[payer] - total
  BY PaymentsKeepCoins DEF CoinsOK
<1>0. total \in Nat
  BY CoinHoldersFinite, SumNat
<1> HIDE DEF new, total
<1>2. /\ \A h \in CoinHolders : coins[h] \in Nat /\ pay[h] \in Nat /\ new[h] \in Nat
      /\ \A h \in CoinHolders : mid[h] = coins[h] + pay[h]
  BY <1>1 DEF CoinsOK
<1> HIDE DEF mid
<1>sum. /\ \A h \in CoinHolders : /\ coins[h] \in Int /\ pay[h] \in Int /\ new[h] \in Int
                                 /\ mid[h] \in Int /\ coins[h] = mid[h] - pay[h]
        /\ \A h \in CoinHolders \ {payer} : new[h] = mid[h]
        /\ new[payer] = mid[payer] - total
  BY <1>0, <1>1, <1>2
<1>3. SumFunctionOnSet(mid, CoinHolders) \in Int /\ mid[payer] \in Int
  BY <1>sum, CoinHoldersFinite, SumSplit
<1>4. SumFunctionOnSet(coins, CoinHolders) = SumFunctionOnSet(mid, CoinHolders) - total
  BY <1>sum, CoinHoldersFinite, SumDifference DEF total
<1>5. SumFunctionOnSet(new, CoinHolders) = SumFunctionOnSet(mid, CoinHolders) - mid[payer] + new[payer]
  BY <1>sum, CoinHoldersFinite, SumChange
<1>6. SumFunctionOnSet(new, CoinHolders) = SumFunctionOnSet(coins, CoinHolders)
  <2>1. new[payer] = mid[payer] - total
    BY <1>sum
  <2> QED BY <1>0, <1>3, <1>4, <1>5, <2>1
<1> QED BY <1>6 DEF new

LEMMA SendKeepsCoins ==
  ASSUME CoinsOK, NEW from \in CoinHolders, NEW to, NEW amount \in Nat, BankSend(from, to, amount)
  PROVE  /\ CoinsOK'
         /\ \A h \in CoinHolders : h # from => coins'[h] = coins[h] + (IF h = to THEN amount ELSE 0)
         /\ coins'[from] >= coins[from] - amount
<1> DEFINE pay == Only(to, amount)
<1>1. /\ pay \in [CoinHolders -> Nat] /\ \A h \in CoinHolders : pay[h] = IF h = to THEN amount ELSE 0
      /\ amount <= coins[from] /\ coins' = AfterPayments(from, pay)
  BY DEF BankSend, Only, CoinsOK
<1> HIDE DEF pay
<1>2. SumFunctionOnSet(pay, CoinHolders) = IF to \in CoinHolders THEN amount ELSE 0
  BY <1>1, OnlySum, CoinHoldersFinite
<1>3. /\ CoinsOK'
      /\ \A h \in CoinHolders : h # from => coins'[h] = coins[h] + pay[h]
      /\ coins'[from] = coins[from] + pay[from] - SumFunctionOnSet(pay, CoinHolders)
  <2>1. SumFunctionOnSet(pay, CoinHolders) <= coins[from]
    BY <1>1, <1>2 DEF CoinsOK
  <2> QED BY <1>1, <2>1, PaymentsKeepCoins
<1>4. \A h \in CoinHolders : h # from => coins'[h] = coins[h] + (IF h = to THEN amount ELSE 0)
  BY <1>1, <1>3
<1>5. coins'[from] >= coins[from] - amount
  BY <1>1, <1>2, <1>3 DEF CoinsOK
<1> QED BY <1>3, <1>4, <1>5

(***************************************************************************)
(* The splitters.                                                          *)
(***************************************************************************)

RecipientsOK == recipients \in Seq(Recipient)

\* A list of which an entry is replaced is a list.
LEMMA ExceptList ==
  ASSUME NEW S, NEW q \in Seq(S), NEW i, NEW e, i \in DOMAIN q => e \in S
  PROVE  [q EXCEPT ![i] = e] \in Seq(S)
<1> DEFINE r == [q EXCEPT ![i] = e]
<1>1. q \in [1 .. Len(q) -> S] /\ Len(q) \in Nat
  OBVIOUS
<1>2. r \in [1 .. Len(q) -> S]
  BY <1>1
<1> HIDE DEF r
<1>3. r \in Seq(S)
  BY <1>1, <1>2
<1> QED BY <1>3 DEF r

LEMMA RecipientParts ==
  ASSUME RecipientsOK, NEW i \in DOMAIN recipients
  PROVE  recipients[i] \in Recipient /\ recipients[i].part \in Nat
<1>1. recipients[i] \in Recipient
  BY DEF RecipientsOK
<1> QED BY <1>1 DEF Recipient

LEMMA RecipientsFinite ==
  ASSUME RecipientsOK
  PROVE  IsFiniteSet(DOMAIN recipients)
<1>1. Len(recipients) \in Nat /\ DOMAIN recipients = 1 .. Len(recipients)
  BY DEF RecipientsOK
<1> QED BY <1>1, FS_Interval

\* The recipients that h is.
EntriesOf(h) == {i \in DOMAIN recipients : AddressOf(recipients[i].to, appContract) = h}

\* All parts, wherever they go, are no more than what is split.
LEMMA SharesKeepCoins ==
  ASSUME CoinsOK, RecipientsOK, NEW s \in Actors, NEW amount \in Nat,
         NEW cut, DOMAIN cut = DOMAIN recipients, \A i \in DOMAIN recipients : cut[i] \in Int,
         PayShares(s, amount, cut)
  PROVE  /\ CoinsOK'
         /\ \A h \in CoinHolders \ {s} : coins'[h] = coins[h] + SumFunctionOnSet(cut, EntriesOf(h))
         /\ SumFunctionOnSet(coins', CoinHolders) = SumFunctionOnSet(coins, CoinHolders)
<1> DEFINE I == DOMAIN recipients
           a == [i \in I |-> AddressOf(recipients[i].to, appContract)]
           pay == PaidOut(cut)
<1>1. IsFiniteSet(I)
  BY RecipientsFinite
<1>2. /\ \A i \in I : cut[i] \in Nat
      /\ SumFunctionOnSet(cut, I) <= amount /\ amount <= coins[s]
      /\ coins' = AfterPayments(s, pay)
  BY DEF PayShares, SumFunction
<1>0. \A h : Fiber(I, a, h) = EntriesOf(h)
  BY DEF Fiber, EntriesOf
<1>3. /\ DOMAIN pay = CoinHolders
      /\ \A h \in CoinHolders : pay[h] = SumFunctionOnSet(cut, Fiber(I, a, h))
  <2> HIDE DEF a, I
  <2> QED BY <1>0 DEF PaidOut, CoinsOK, EntriesOf
<1> HIDE DEF I, a, pay
<1>4. /\ \A h \in CoinHolders : pay[h] \in Nat
      /\ SumFunctionOnSet(pay, CoinHolders) <= SumFunctionOnSet(cut, I)
  BY <1>1, <1>2, <1>3, CoinHoldersFinite, SumFibersBound
<1>5. SumFunctionOnSet(pay, CoinHolders) <= coins[s]
  <2>1. SumFunctionOnSet(pay, CoinHolders) \in Nat /\ SumFunctionOnSet(cut, I) \in Nat /\ coins[s] \in Nat
    BY <1>1, <1>2, <1>4, CoinHoldersFinite, SumNat DEF CoinsOK, CoinHolders
  <2> QED BY <1>2, <1>4, <2>1
<1>6. pay \in [CoinHolders -> Nat]
  <2>1. pay = [h \in DOMAIN coins |->
                 SumFunctionOnSet(cut, {i \in DOMAIN recipients : AddressOf(recipients[i].to, appContract) = h})]
    BY DEF pay, PaidOut
  <2> QED BY <1>3, <1>4, <2>1
<1>7. s \in CoinHolders
  BY DEF CoinHolders
<1>8. CoinsOK' /\ \A h \in CoinHolders : h # s => coins'[h] = coins[h] + pay[h]
  BY <1>2, <1>5, <1>6, <1>7, PaymentsKeepCoins
<1>9. SumFunctionOnSet(coins', CoinHolders) = SumFunctionOnSet(coins, CoinHolders)
  BY <1>2, <1>5, <1>6, <1>7, PaymentsKeepTotal
<1> QED BY <1>0, <1>3, <1>8, <1>9

LEMMA PartsSum ==
  ASSUME RecipientsOK
  PROVE  PartsOf(recipients) \in Nat
<1> DEFINE f == [i \in DOMAIN recipients |-> recipients[i].part]
<1>1. IsFiniteSet(DOMAIN recipients)
  BY RecipientsFinite
<1>2. DOMAIN f = DOMAIN recipients /\ \A i \in DOMAIN recipients : f[i] \in Nat
  BY RecipientParts
<1>3. PartsOf(recipients) = SumFunctionOnSet(f, DOMAIN recipients)
  BY DEF PartsOf, SumFunction
<1> HIDE DEF f
<1> QED BY <1>1, <1>2, <1>3, SumNat

\* Shares rounded down, of parts of a whole.
LEMMA SharesExact ==
  ASSUME CoinsOK, RecipientsOK, NEW s \in Actors, NEW amount \in Nat,
         NEW whole \in Nat, recipients # << >> => whole > 0,
         whole = IF ado = "splitter" THEN PercentOne ELSE PartsOf(recipients),
         NEW cut, DOMAIN cut = DOMAIN recipients,
         \A i \in DOMAIN recipients : cut[i] = (amount * recipients[i].part) \div whole,
         PayShares(s, amount, cut)
  PROVE  SplitExact(s, amount)
<1> DEFINE I == DOMAIN recipients
           part == [i \in I |-> recipients[i].part]
<1>1. IsFiniteSet(I) /\ \A i \in I : part[i] = recipients[i].part /\ part[i] \in Nat
  BY RecipientsFinite, RecipientParts
<1>2. \A i \in I : whole > 0 /\ cut[i] = (amount * part[i]) \div whole /\ cut[i] \in Int
  <2> SUFFICES ASSUME NEW i \in I
               PROVE  whole > 0 /\ cut[i] = (amount * part[i]) \div whole /\ cut[i] \in Int
    OBVIOUS
  <2>1. whole > 0
    BY DEF RecipientsOK
  <2> DEFINE m == amount * part[i]
  <2>2. cut[i] = m \div whole /\ part[i] \in Nat
    BY <1>1
  <2> HIDE DEF part
  <2>3. m \in Nat
    BY <2>2, SMTT(30)
  <2> HIDE DEF m
  <2>4. m \div whole \in Nat
    BY <2>1, <2>3, DivFacts
  <2> QED BY <2>1, <2>2, <2>4 DEF m
<1>3. /\ \A h \in CoinHolders \ {s} : coins'[h] = coins[h] + SumFunctionOnSet(cut, EntriesOf(h))
      /\ SumFunctionOnSet(coins', CoinHolders) = SumFunctionOnSet(coins, CoinHolders)
      /\ CoinsOK'
  BY <1>2, SharesKeepCoins
<1>4. /\ DOMAIN coins = CoinHolders /\ DOMAIN coins' = CoinHolders
      /\ \A h \in CoinHolders : coins[h] \in Int
  BY <1>3 DEF CoinsOK
<1>5. SumFunction(coins') = SumFunction(coins)
  BY <1>3, <1>4 DEF SumFunction
<1> HIDE DEF I, part
<1>6. ASSUME NEW h \in CoinHolders \ {s}
      PROVE  /\ (coins'[h] - coins[h]) * whole <= amount * SumFunctionOnSet(part, EntriesOf(h))
             /\ (coins'[h] - coins[h]) * whole
                  >= amount * SumFunctionOnSet(part, EntriesOf(h)) - Cardinality(EntriesOf(h)) * (whole - 1)
  <2> DEFINE E == EntriesOf(h)
             got == SumFunctionOnSet(cut, E)
  <2>1. E \subseteq I /\ IsFiniteSet(E)
    BY <1>1, FS_Subset DEF EntriesOf, I
  <2>2. coins'[h] = coins[h] + got /\ coins[h] \in Int
    BY <1>3, <1>4
  <2> HIDE DEF E
  <2>3. got \in Int
    BY <1>2, <2>1, SumSplit
  <2>4. coins'[h] - coins[h] = got
    BY <2>2, <2>3
  <2>5. CASE E = {}
    <3>1. got = 0 /\ SumFunctionOnSet(part, E) = 0 /\ Cardinality(E) = 0
      BY <2>5, SumEmpty, FS_EmptySet
    <3>2. 0 * whole = 0 /\ amount * 0 = 0 /\ 0 * (whole - 1) = 0
      OBVIOUS
    <3> QED BY <2>4, <3>1, <3>2 DEF E
  <2>6. CASE E # {}
    <3>1. whole > 0
      BY <1>2, <2>1, <2>6
    <3>2. \A i \in E : part[i] \in Nat /\ cut[i] = (amount * part[i]) \div whole
      BY <1>1, <1>2, <2>1
    <3>3. /\ got * whole <= amount * SumFunctionOnSet(part, E)
          /\ got * whole >= amount * SumFunctionOnSet(part, E) - Cardinality(E) * (whole - 1)
      BY <2>1, <3>1, <3>2, SumTruncated
    <3> HIDE DEF got
    <3> QED BY <2>4, <3>3 DEF E
  <2> QED BY <2>5, <2>6
<1> QED BY <1>4, <1>5, <1>6 DEF SplitExact, EntriesOf, I, part

LEMMA SplitterPaysExactly ==
  ASSUME CoinsOK, RecipientsOK, ado = "splitter", NEW s \in Actors, NEW amount \in SentAmounts,
         SplitterSend(s, amount)
  PROVE  SplitExact(s, amount)
<1> DEFINE cut == [i \in DOMAIN recipients |-> Portion(amount, recipients[i].part)]
<1>1. amount \in Nat /\ PercentOne \in Nat /\ PercentOne > 0
  BY SplitterAssumption, CommonAssumption
<1>2. DOMAIN cut = DOMAIN recipients /\ PayShares(s, amount, cut)
  BY DEF SplitterSend
<1>3. \A i \in DOMAIN recipients : cut[i] = (amount * recipients[i].part) \div PercentOne
  BY DEF Portion
<1> HIDE DEF cut
<1> QED BY <1>1, <1>2, <1>3, SharesExact

LEMMA WeightedPaysExactly ==
  ASSUME CoinsOK, RecipientsOK, ado = "weighted", NEW s \in Actors, NEW amount \in SentAmounts,
         WeightedSend(s, amount)
  PROVE  SplitExact(s, amount)
<1> DEFINE w == PartsOf(recipients)
           cut == [i \in DOMAIN recipients |-> (amount * recipients[i].part) \div w]
<1>1. amount \in Nat /\ w \in Nat /\ (recipients # << >> => w > 0)
  BY SplitterAssumption, PartsSum DEF WeightedSend
<1>2. DOMAIN cut = DOMAIN recipients /\ PayShares(s, amount, cut)
  BY DEF WeightedSend
<1>3. \A i \in DOMAIN recipients : cut[i] = (amount * recipients[i].part) \div w
  OBVIOUS
<1>4. w = IF ado = "splitter" THEN PercentOne ELSE PartsOf(recipients)
  OBVIOUS
<1> HIDE DEF cut, w
<1> QED BY <1>1, <1>2, <1>3, <1>4, SharesExact

LEMMA SplitterKeeps == CoinsOK /\ RecipientsOK /\ SplitterStep => CoinsOK' /\ RecipientsOK'
<1> SUFFICES ASSUME CoinsOK, RecipientsOK, SplitterStep PROVE CoinsOK' /\ RecipientsOK'
  OBVIOUS
<1>1. ASSUME NEW s \in Actors, NEW amount \in SentAmounts, SplitterSend(s, amount)
      PROVE  CoinsOK' /\ RecipientsOK'
  <2> DEFINE cut == [i \in DOMAIN recipients |-> Portion(amount, recipients[i].part)]
  <2>1. amount \in Nat /\ PercentOne \in Nat /\ PercentOne > 0
    BY SplitterAssumption, CommonAssumption
  <2>2. DOMAIN cut = DOMAIN recipients /\ PayShares(s, amount, cut) /\ recipients' = recipients
    BY <1>1 DEF SplitterSend
  <2>3. \A i \in DOMAIN recipients : cut[i] \in Int
    <3> SUFFICES ASSUME NEW i \in DOMAIN recipients PROVE Portion(amount, recipients[i].part) \in Int
      OBVIOUS
    <3>1. recipients[i].part \in Nat
      BY RecipientParts
    <3>2. amount * recipients[i].part \in Nat
      BY <2>1, <3>1, SMTT(30)
    <3> QED BY <2>1, <3>2, DivFacts DEF Portion
  <2> HIDE DEF cut
  <2> QED BY <2>1, <2>2, <2>3, SharesKeepCoins DEF RecipientsOK
<1>2. ASSUME NEW s, NEW list \in SplitterLists, SplitterUpdateRecipients(s, list)
      PROVE  CoinsOK' /\ RecipientsOK'
  BY <1>2, SplitterAssumption DEF SplitterUpdateRecipients, CoinsOK, RecipientsOK
<1>3. ASSUME NEW s, NEW t, UpdateLock(s, t)
      PROVE  CoinsOK' /\ RecipientsOK'
  BY <1>3 DEF UpdateLock, CoinsOK, RecipientsOK
<1> QED BY <1>1, <1>2, <1>3 DEF SplitterStep

LEMMA WeightedKeeps == CoinsOK /\ RecipientsOK /\ WeightedStep => CoinsOK' /\ RecipientsOK'
<1> SUFFICES ASSUME CoinsOK, RecipientsOK, WeightedStep PROVE CoinsOK' /\ RecipientsOK'
  OBVIOUS
<1>1. ASSUME NEW s \in Actors, NEW amount \in SentAmounts, WeightedSend(s, amount)
      PROVE  CoinsOK' /\ RecipientsOK'
  <2> DEFINE w == PartsOf(recipients)
             cut == [i \in DOMAIN recipients |-> (amount * recipients[i].part) \div w]
  <2>1. amount \in Nat /\ w \in Nat /\ (recipients # << >> => w > 0)
    BY <1>1, SplitterAssumption, PartsSum DEF WeightedSend
  <2>2. DOMAIN cut = DOMAIN recipients /\ PayShares(s, amount, cut) /\ recipients' = recipients
    BY <1>1 DEF WeightedSend
  <2>3. \A i \in DOMAIN recipients : cut[i] \in Int
    <3> SUFFICES ASSUME NEW i \in DOMAIN recipients PROVE (amount * recipients[i].part) \div w \in Int
      OBVIOUS
    <3>1. recipients[i].part \in Nat /\ w > 0
      BY <2>1, RecipientParts
    <3> HIDE DEF w
    <3>2. amount * recipients[i].part \in Nat
      BY <2>1, <3>1, SMTT(30)
    <3> QED BY <2>1, <3>1, <3>2, DivFacts
  <2> HIDE DEF cut
  <2> QED BY <2>1, <2>2, <2>3, SharesKeepCoins DEF RecipientsOK
<1>2. WeightedRecipients \subseteq Recipient
  BY WeightedAssumption DEF WeightedRecipients, Range
<1>3. ASSUME NEW s, NEW r \in WeightedRecipients, UpdateRecipientWeight(s, r)
      PROVE  CoinsOK' /\ RecipientsOK'
  <2>1. coins' = coins /\ recipients' = [recipients EXCEPT ![PositionOf(r.to)].part = r.part]
    BY <1>3 DEF UpdateRecipientWeight, ChangeRecipients
  <2>2. r.part \in Nat
    BY <1>2 DEF Recipient
  <2> DEFINE i == PositionOf(r.to)
             e == [recipients[i] EXCEPT !.part = r.part]
  <2>3. i \in DOMAIN recipients => e \in Recipient
    <3> HIDE DEF i
    <3> QED BY <2>2, RecipientParts DEF Recipient
  <2>4. recipients' = [recipients EXCEPT ![i] = e]
    BY <2>1
  <2> HIDE DEF i, e
  <2>5. [recipients EXCEPT ![i] = e] \in Seq(Recipient)
    BY <2>3, ExceptList DEF RecipientsOK
  <2>6. coins' = coins
    BY <2>1
  <2> QED BY <2>4, <2>5, <2>6 DEF CoinsOK, RecipientsOK
<1>4. ASSUME NEW s, NEW r \in WeightedRecipients, AddRecipient(s, r)
      PROVE  CoinsOK' /\ RecipientsOK'
  BY <1>2, <1>4 DEF AddRecipient, ChangeRecipients, CoinsOK, RecipientsOK
<1>5. ASSUME NEW s, NEW to, RemoveRecipient(s, to)
      PROVE  CoinsOK' /\ RecipientsOK'
  <2> DEFINE moved == [recipients EXCEPT ![PositionOf(to)] = Last(recipients)]
  <2>1. coins' = coins /\ recipients' = Front(moved)
    BY <1>5 DEF RemoveRecipient, ChangeRecipients
  <2>2. moved \in Seq(Recipient)
    <3>1. PositionOf(to) \in DOMAIN recipients => Last(recipients) \in Recipient
      BY DEF RecipientsOK, Last
    <3> QED BY <3>1, ExceptList DEF RecipientsOK
  <2>3. Front(moved) \in Seq(Recipient)
    <3> HIDE DEF moved
    <3> QED BY <2>2 DEF Front
  <2> QED BY <2>1, <2>3 DEF CoinsOK, RecipientsOK
<1>6. ASSUME NEW s, NEW list \in WeightedLists, WeightedUpdateRecipients(s, list)
      PROVE  CoinsOK' /\ RecipientsOK'
  BY <1>6, WeightedAssumption DEF WeightedUpdateRecipients, ChangeRecipients, CoinsOK, RecipientsOK
<1>7. ASSUME NEW s, NEW t, WeightedUpdateLock(s, t)
      PROVE  CoinsOK' /\ RecipientsOK'
  BY <1>7 DEF WeightedUpdateLock, UpdateLock, CoinsOK, RecipientsOK
<1> QED BY <1>1, <1>3, <1>4, <1>5, <1>6, <1>7 DEF WeightedStep
(***************************************************************************)
(* The vault.                                                              *)
(***************************************************************************)

VaultTypeOK ==
  /\ vaultBalance \in [Actors -> Nat]
  /\ strategyAddr \in Strategies \cup {NoStrategy}
  /\ positions \in [Strategies -> [Actors -> Nat]]
  /\ trusting \subseteq Strategies

\* Beside another contract there is no vault.
NoVault ==
  /\ \A u \in Actors : vaultBalance[u] = 0
  /\ \A st \in Strategies, u \in Actors : positions[st][u] = 0

VaultInv == VaultTypeOK /\ VaultBacked /\ (ado # "vault" => NoVault)

\* The books as sums over fixed sets.
LEMMA VaultSums ==
  ASSUME VaultTypeOK
  PROVE  /\ SumFunction(vaultBalance) = SumFunctionOnSet(vaultBalance, Actors)
         /\ \A st \in Strategies : SumFunction(positions[st]) = SumFunctionOnSet(positions[st], Actors)
         /\ SumFunctionOnSet(vaultBalance, Actors) \in Nat
         /\ \A u \in Actors : vaultBalance[u] <= SumFunctionOnSet(vaultBalance, Actors)
         /\ \A st \in Strategies : SumFunctionOnSet(positions[st], Actors) \in Nat
<1>1. /\ DOMAIN vaultBalance = Actors /\ \A u \in Actors : vaultBalance[u] \in Nat
      /\ \A st \in Strategies :
           DOMAIN positions[st] = Actors /\ \A u \in Actors : positions[st][u] \in Nat
  BY DEF VaultTypeOK
<1> QED BY <1>1, SumNat, CoinHoldersFinite DEF SumFunction

\* The books after an entry of u has grown by n, which may be negative.
LEMMA EntrySum ==
  ASSUME NEW b \in [Actors -> Nat], NEW c \in [Actors -> Nat], NEW u \in Actors, NEW n \in Int,
         c[u] = b[u] + n, \A v \in Actors \ {u} : c[v] = b[v]
  PROVE  SumFunctionOnSet(c, Actors) = SumFunctionOnSet(b, Actors) + n
<1>1. SumFunctionOnSet(c, Actors) = SumFunctionOnSet(b, Actors) - b[u] + c[u]
  <2>1. \A v \in Actors : b[v] \in Int /\ c[v] \in Int
    OBVIOUS
  <2> QED BY <2>1, CoinHoldersFinite, SumChange
<1>2. SumFunctionOnSet(b, Actors) \in Nat
  BY SumNat, CoinHoldersFinite
<1> QED BY <1>1, <1>2

LEMMA VaultInitial == VaultInit /\ CoinsOK => VaultInv
<1> SUFFICES ASSUME VaultInit, CoinsOK PROVE VaultInv
  OBVIOUS
<1>1. VaultTypeOK /\ NoVault
  BY DEF VaultInit, VaultTypeOK, NoVault
<1>2. /\ SumFunctionOnSet(vaultBalance, Actors) = 0
      /\ \A st \in Strategies : SumFunctionOnSet(positions[st], Actors) = 0
  BY <1>1, SumZero, CoinHoldersFinite DEF NoVault
<1> QED BY <1>1, <1>2, VaultSums, CommonAssumption, VaultAssumption
        DEF VaultInv, VaultBacked, CoinsOK, CoinHolders

\* The contracts of which the vault's books speak.
LEMMA VaultContracts ==
  /\ This \in CoinHolders /\ This \notin Actors
  /\ \A st \in Strategies : st \in CoinHolders /\ st # This /\ st \notin Actors
BY CommonAssumption, VaultAssumption DEF CoinHolders

\* While no vault is looked at any change of coins will do; beside it, one that
\* takes nothing from the vault and its strategies.
LEMMA VaultBesideCoins ==
  ASSUME VaultInv, CoinsOK', UNCHANGED <<ado, vaultVars>>,
         ado = "vault" => /\ coins'[This] >= coins[This]
                          /\ \A st \in Strategies : coins'[st] >= coins[st],
         CoinsOK
  PROVE  VaultInv'
<1>1. VaultTypeOK' /\ (ado # "vault" => NoVault)' /\ UNCHANGED <<vaultBalance, positions>>
  BY DEF VaultInv, VaultTypeOK, NoVault, vaultVars
<1>2. CASE ado = "vault"
  <2>1. /\ SumFunction(vaultBalance) \in Nat
        /\ \A st \in Strategies : SumFunction(positions[st]) \in Nat
    BY VaultSums DEF VaultInv
  <2>2. /\ coins[This] \in Nat /\ coins'[This] \in Nat
        /\ \A st \in Strategies : coins[st] \in Nat /\ coins'[st] \in Nat
    BY VaultContracts DEF CoinsOK
  <2>3. VaultBacked'
    BY <1>1, <1>2, <2>1, <2>2 DEF VaultInv, VaultBacked
  <2> QED BY <1>1, <2>3 DEF VaultInv
<1>3. CASE ado # "vault"
  <2>1. /\ SumFunctionOnSet(vaultBalance, Actors) = 0
        /\ \A st \in Strategies : SumFunctionOnSet(positions[st], Actors) = 0
    BY <1>3, SumZero, CoinHoldersFinite DEF VaultInv, NoVault
  <2>2. /\ SumFunction(vaultBalance) = 0
        /\ \A st \in Strategies : SumFunction(positions[st]) = 0
    BY <2>1, VaultSums DEF VaultInv
  <2>3. VaultBacked'
    BY <1>1, <2>2, VaultContracts DEF VaultBacked, CoinsOK
  <2> QED BY <1>1, <2>3 DEF VaultInv
<1> QED BY <1>2, <1>3

\* A change of the books that is backed, beside a vault.
LEMMA VaultBooks ==
  ASSUME ado = "vault", ado' = ado, VaultTypeOK',
         SumFunctionOnSet(vaultBalance', Actors) <= coins'[This],
         \A st \in Strategies : SumFunctionOnSet(positions'[st], Actors) <= coins'[st]
  PROVE  VaultInv'
<1>1. /\ SumFunction(vaultBalance') = SumFunctionOnSet(vaultBalance', Actors)
      /\ \A st \in Strategies : SumFunction(positions'[st]) = SumFunctionOnSet(positions'[st], Actors)
  BY DEF VaultTypeOK, SumFunction
<1> QED BY <1>1 DEF VaultInv, VaultBacked
LEMMA DepositEffect ==
  ASSUME VaultInv, CoinsOK, NEW s \in Actors, NEW r \in Actors,
         NEW sent \in DepositSizes, NEW named \in DepositSizes \cup {NoAmount},
         VaultDeposit(s, sent, named, r)
  PROVE  /\ CoinsOK' /\ VaultTypeOK'
         /\ \E n \in Nat :
              /\ \A h \in CoinHolders : h # s => coins'[h] >= coins[h] + (IF h = This THEN n ELSE 0)
              /\ vaultBalance'[r] = vaultBalance[r] + n
              /\ \A u \in Actors \ {r} : vaultBalance'[u] = vaultBalance[u]
         /\ UNCHANGED <<strategyAddr, positions, trusting>>
<1> DEFINE n == Deposited(sent, named)
<1>1. /\ sent \in Nat /\ n \in Nat /\ 0 < n /\ n <= sent /\ sent <= coins[s]
      /\ vaultBalance' = [vaultBalance EXCEPT ![r] = @ + n]
      /\ coins' = AfterPayments(s, Only(This, sent))
      /\ UNCHANGED <<strategyAddr, positions, trusting>>
  BY VaultAssumption DEF VaultDeposit, Deposited
<1> HIDE DEF n
<1>2. BankSend(s, This, sent)
  BY <1>1 DEF BankSend
<1>3. /\ CoinsOK'
      /\ \A h \in CoinHolders : h # s => coins'[h] = coins[h] + (IF h = This THEN sent ELSE 0)
  BY <1>1, <1>2, SendKeepsCoins DEF CoinHolders
<1>4. \A h \in CoinHolders : h # s => coins'[h] >= coins[h] + (IF h = This THEN n ELSE 0)
  BY <1>1, <1>3 DEF CoinsOK
<1> QED BY <1>1, <1>3, <1>4 DEF VaultInv, VaultTypeOK

LEMMA StrategyDepositEffect ==
  ASSUME VaultInv, CoinsOK, NEW s \in Actors, NEW r \in Actors,
         NEW sent \in DepositSizes, NEW named \in DepositSizes \cup {NoAmount},
         StrategyDeposit(s, sent, named, r)
  PROVE  /\ CoinsOK' /\ VaultTypeOK'
         /\ strategyAddr \in Strategies
         /\ \E m, n \in Nat :
              /\ m <= n
              /\ coins'[This] >= coins[This] - m
              /\ coins'[strategyAddr] = coins[strategyAddr] + n
              /\ \A st \in Strategies \ {strategyAddr} : coins'[st] = coins[st]
              /\ vaultBalance'[r] = vaultBalance[r] - m
              /\ positions'[strategyAddr][r] = positions[strategyAddr][r] + n
         /\ \A u \in Actors \ {r} : vaultBalance'[u] = vaultBalance[u]
         /\ \A st \in Strategies, u \in Actors :
              st # strategyAddr \/ u # r => positions'[st][u] = positions[st][u]
         /\ UNCHANGED <<strategyAddr, trusting>>
<1> DEFINE n == Deposited(sent, named)
           m == IF sent < n THEN n - sent ELSE 0
           to == strategyAddr
<1>1. /\ sent \in Nat /\ n \in Nat /\ 0 < n /\ sent <= coins[s] /\ m <= vaultBalance[r]
      /\ to \in Strategies
      /\ vaultBalance' = [vaultBalance EXCEPT ![r] = @ - m]
      /\ positions' = [positions EXCEPT ![to][r] = @ + n]
      /\ coins' = ThroughVault(s, sent, to, n)
      /\ UNCHANGED <<strategyAddr, trusting>>
  BY VaultAssumption DEF StrategyDeposit, Deposited, VaultInv, VaultTypeOK
<1>2. m \in Nat /\ m <= n /\ n - sent <= m
  BY <1>1
<1> HIDE DEF n, m
<1>3. m <= coins[This]
  <2>1. vaultBalance[r] <= coins[This]
    BY VaultSums, VaultContracts DEF VaultInv, VaultBacked, VaultTypeOK, CoinsOK
  <2> QED BY <1>1, <1>2, <2>1, VaultContracts DEF VaultInv, VaultTypeOK, CoinsOK
<1>4. /\ s \in CoinHolders /\ to \in CoinHolders /\ This \in CoinHolders
      /\ s # This /\ s # to /\ to # This
      /\ \A st \in Strategies : st \in CoinHolders /\ st # s /\ st # This
  BY <1>1, VaultContracts DEF CoinHolders
<1>5. /\ DOMAIN coins' = CoinHolders
      /\ coins'[s] = coins[s] - sent /\ coins'[This] = coins[This] + sent - n
      /\ coins'[to] = coins[to] + n
      /\ \A h \in CoinHolders \ {s, This, to} : coins'[h] = coins[h]
      /\ coins' = [h \in CoinHolders |-> coins'[h]]
  BY <1>1, <1>4 DEF ThroughVault, CoinsOK
<1>6. \A h \in CoinHolders : coins[h] \in Nat
  BY DEF CoinsOK
<1>7. \A h \in CoinHolders : coins'[h] \in Nat
  <2>1. coins'[s] \in Nat /\ coins'[This] \in Nat /\ coins'[to] \in Nat
    BY <1>1, <1>2, <1>3, <1>4, <1>5, <1>6
  <2> QED BY <1>5, <1>6, <2>1
<1>8. CoinsOK'
  BY <1>5, <1>7 DEF CoinsOK
<1>9. /\ VaultTypeOK' /\ vaultBalance'[r] = vaultBalance[r] - m
      /\ positions'[to][r] = positions[to][r] + n
      /\ \A u \in Actors \ {r} : vaultBalance'[u] = vaultBalance[u]
      /\ \A st \in Strategies, u \in Actors : st # to \/ u # r => positions'[st][u] = positions[st][u]
  BY <1>1, <1>2 DEF VaultInv, VaultTypeOK
<1>10. /\ coins'[This] >= coins[This] - m
       /\ \A st \in Strategies \ {to} : coins'[st] = coins[st]
  BY <1>1, <1>2, <1>4, <1>5, <1>6
<1> QED BY <1>1, <1>2, <1>5, <1>8, <1>9, <1>10

LEMMA WithdrawVaultEffect ==
  ASSUME VaultInv, CoinsOK, NEW s \in Actors, NEW r \in Actors, NEW w \in VaultWithdrawals,
         WithdrawVault(s, r, w)
  PROVE  /\ CoinsOK' /\ VaultTypeOK'
         /\ \E n \in Nat :
              /\ coins'[This] >= coins[This] - n
              /\ vaultBalance'[s] = vaultBalance[s] - n
         /\ \A st \in Strategies : coins'[st] = coins[st]
         /\ \A u \in Actors \ {s} : vaultBalance'[u] = vaultBalance[u]
         /\ UNCHANGED <<strategyAddr, positions, trusting>>
<1> DEFINE n == IF w.kind = "percent" THEN Portion(vaultBalance[s], w.n)
                ELSE IF w.kind = "all" THEN vaultBalance[s] ELSE w.n
<1>1. /\ n <= vaultBalance[s] /\ BankSend(This, r, n)
      /\ vaultBalance' = [vaultBalance EXCEPT ![s] = @ - n]
      /\ UNCHANGED <<strategyAddr, positions, trusting>>
  BY DEF WithdrawVault
<1>2. n \in Nat
  <2>1. w.n \in Nat /\ vaultBalance[s] \in Nat /\ PercentOne \in Nat /\ PercentOne > 0
    BY VaultAssumption, CommonAssumption DEF VaultInv, VaultTypeOK
  <2>2. vaultBalance[s] * w.n \in Nat
    BY <2>1, SMTT(30)
  <2>3. Portion(vaultBalance[s], w.n) \in Nat
    BY <2>1, <2>2, DivFacts DEF Portion
  <2> QED BY <2>1, <2>3
<1> HIDE DEF n
<1>3. /\ CoinsOK' /\ coins'[This] >= coins[This] - n
      /\ \A h \in CoinHolders : h # This => coins'[h] = coins[h] + (IF h = r THEN n ELSE 0)
  BY <1>1, <1>2, SendKeepsCoins, VaultContracts
<1>4. \A st \in Strategies : coins'[st] = coins[st]
  BY <1>3, VaultContracts DEF CoinsOK
<1>5. VaultTypeOK' /\ vaultBalance'[s] = vaultBalance[s] - n
      /\ \A u \in Actors \ {s} : vaultBalance'[u] = vaultBalance[u]
  BY <1>1, <1>2 DEF VaultInv, VaultTypeOK
<1> QED BY <1>1, <1>2, <1>3, <1>4, <1>5

\* A withdrawal of some kind is of at most what there is.
LEMMA WithdrawalWithin ==
  ASSUME NEW w \in [kind : WithdrawalKinds, n : Nat], CanWithdraw(w), NEW b \in Nat
  PROVE  WithdrawalAmount(w, b) \in Nat /\ WithdrawalAmount(w, b) <= b
<1>1. w.n \in Nat /\ w.kind \in {"all", "amount", "percent"} /\ PercentOne \in Nat /\ PercentOne > 0
  BY CommonAssumption DEF WithdrawalKinds
<1>2. CASE w.kind = "percent"
  <2>1. w.n <= PercentOne
    BY <1>2 DEF CanWithdraw
  <2>2. b * w.n \in Nat /\ b * w.n <= PercentOne * b
    BY <1>1, <2>1, SMTT(30)
  <2>3. (b * w.n) \div PercentOne \in Nat /\ (b * w.n) \div PercentOne <= b
    BY <1>1, <2>2, DivFacts, DivBound
  <2> QED BY <1>2, <2>3 DEF WithdrawalAmount, Portion
<1>3. CASE w.kind # "percent"
  BY <1>1, <1>3 DEF WithdrawalAmount
<1> QED BY <1>2, <1>3

LEMMA WithdrawStrategyEffect ==
  ASSUME VaultInv, CoinsOK, NEW s \in Actors, NEW w \in VaultWithdrawals, WithdrawStrategy(s, w)
  PROVE  /\ CoinsOK' /\ VaultTypeOK'
         /\ strategyAddr \in Strategies
         /\ \E n \in Nat :
              /\ coins'[strategyAddr] >= coins[strategyAddr] - n
              /\ positions'[strategyAddr][s] = positions[strategyAddr][s] - n
         /\ coins'[This] = coins[This]
         /\ \A st \in Strategies \ {strategyAddr} : coins'[st] = coins[st]
         /\ \A st \in Strategies, u \in Actors :
              st # strategyAddr \/ u # s => positions'[st][u] = positions[st][u]
         /\ UNCHANGED <<vaultBalance, strategyAddr, trusting>>
<1> DEFINE n == WithdrawalAmount(w, positions[strategyAddr][s])
<1>1. /\ CanWithdraw(w) /\ BankSend(strategyAddr, s, n)
      /\ positions' = [positions EXCEPT ![strategyAddr][s] = @ - n]
      /\ UNCHANGED <<vaultBalance, strategyAddr, trusting>>
      /\ strategyAddr \in Strategies
  BY DEF WithdrawStrategy, VaultInv, VaultTypeOK
<1>2. positions[strategyAddr][s] \in Nat
  BY <1>1 DEF VaultInv, VaultTypeOK
<1>3. n \in Nat /\ n <= positions[strategyAddr][s]
  BY <1>1, <1>2, WithdrawalWithin, VaultAssumption
<1> HIDE DEF n
<1>4. /\ CoinsOK' /\ coins'[strategyAddr] >= coins[strategyAddr] - n
      /\ \A h \in CoinHolders : h # strategyAddr => coins'[h] = coins[h] + (IF h = s THEN n ELSE 0)
  BY <1>1, <1>3, SendKeepsCoins, VaultContracts
<1>5. coins'[This] = coins[This] /\ \A st \in Strategies \ {strategyAddr} : coins'[st] = coins[st]
  BY <1>1, <1>4, VaultContracts DEF CoinsOK
<1>6. VaultTypeOK' /\ positions'[strategyAddr][s] = positions[strategyAddr][s] - n
      /\ \A st \in Strategies, u \in Actors :
           st # strategyAddr \/ u # s => positions'[st][u] = positions[st][u]
  BY <1>1, <1>2, <1>3 DEF VaultInv, VaultTypeOK
<1> QED BY <1>1, <1>3, <1>4, <1>5, <1>6
LEMMA VaultKeeps ==
  ASSUME ado = "vault", ado' = ado, VaultInv, CoinsOK, VaultStep
  PROVE  VaultInv' /\ CoinsOK'
<1> DEFINE B == SumFunctionOnSet(vaultBalance, Actors)
           P(st) == SumFunctionOnSet(positions[st], Actors)
<1>1. /\ B \in Nat /\ B <= coins[This] /\ coins[This] \in Nat
      /\ \A st \in Strategies : P(st) \in Nat /\ P(st) <= coins[st] /\ coins[st] \in Nat
  BY VaultSums, VaultContracts DEF VaultInv, VaultBacked, CoinsOK
<1>2. vaultBalance \in [Actors -> Nat] /\ \A st \in Strategies : positions[st] \in [Actors -> Nat]
  BY DEF VaultInv, VaultTypeOK
<1>same. ASSUME VaultTypeOK', NEW st \in Strategies, \A u \in Actors : positions'[st][u] = positions[st][u]
         PROVE  SumFunctionOnSet(positions'[st], Actors) = P(st)
  <2>1. positions'[st] = positions[st]
    BY <1>2, <1>same DEF VaultTypeOK
  <2> QED BY <2>1
<1>3. ASSUME NEW s \in Actors, NEW r \in Actors, NEW sent \in DepositSizes,
             NEW named \in DepositSizes \cup {NoAmount}, VaultDeposit(s, sent, named, r)
      PROVE  VaultInv' /\ CoinsOK'
  <2>1. CoinsOK' /\ VaultTypeOK' /\ positions' = positions
    BY <1>3, DepositEffect
  <2>2. PICK n \in Nat :
           /\ \A h \in CoinHolders : h # s => coins'[h] >= coins[h] + (IF h = This THEN n ELSE 0)
           /\ vaultBalance'[r] = vaultBalance[r] + n
           /\ \A u \in Actors \ {r} : vaultBalance'[u] = vaultBalance[u]
    BY <1>3, DepositEffect
  <2>3. SumFunctionOnSet(vaultBalance', Actors) = B + n
    BY <1>2, <2>1, <2>2, EntrySum DEF VaultTypeOK
  <2>4. coins'[This] >= coins[This] + n /\ \A st \in Strategies : coins'[st] >= coins[st]
    BY <2>2, VaultContracts, <1>1
  <2>5. /\ coins'[This] \in Nat /\ \A st \in Strategies : coins'[st] \in Nat
    BY <2>1, VaultContracts DEF CoinsOK
  <2>6. /\ SumFunctionOnSet(vaultBalance', Actors) <= coins'[This]
        /\ \A st \in Strategies : SumFunctionOnSet(positions'[st], Actors) <= coins'[st]
    BY <1>1, <2>1, <2>3, <2>4, <2>5
  <2> QED BY <2>1, <2>6, VaultBooks
<1>4. ASSUME NEW s \in Actors, NEW r \in Actors, NEW sent \in DepositSizes,
             NEW named \in DepositSizes \cup {NoAmount}, StrategyDeposit(s, sent, named, r)
      PROVE  VaultInv' /\ CoinsOK'
  <2>1. /\ CoinsOK' /\ VaultTypeOK' /\ strategyAddr \in Strategies
        /\ \A u \in Actors \ {r} : vaultBalance'[u] = vaultBalance[u]
        /\ \A st \in Strategies, u \in Actors :
             st # strategyAddr \/ u # r => positions'[st][u] = positions[st][u]
    BY <1>4, StrategyDepositEffect
  <2>2. PICK m \in Nat, n \in Nat :
           /\ m <= n
           /\ coins'[This] >= coins[This] - m
           /\ coins'[strategyAddr] = coins[strategyAddr] + n
           /\ \A st \in Strategies \ {strategyAddr} : coins'[st] = coins[st]
           /\ vaultBalance'[r] = vaultBalance[r] - m
           /\ positions'[strategyAddr][r] = positions[strategyAddr][r] + n
    BY <1>4, StrategyDepositEffect
  <2>3. SumFunctionOnSet(vaultBalance', Actors) = B - m
    <3>1. vaultBalance'[r] = vaultBalance[r] + (-m) /\ -m \in Int
      BY <1>2, <2>2
    <3>2. SumFunctionOnSet(vaultBalance', Actors) = B + (-m)
      BY <1>2, <2>1, <3>1, EntrySum DEF VaultTypeOK
    <3> QED BY <1>1, <3>2
  <2>4. SumFunctionOnSet(positions'[strategyAddr], Actors) = P(strategyAddr) + n
    <3>1. positions'[strategyAddr] \in [Actors -> Nat]
      BY <2>1 DEF VaultTypeOK
    <3> QED BY <1>2, <2>1, <2>2, <3>1, EntrySum
  <2>5. \A st \in Strategies \ {strategyAddr} : SumFunctionOnSet(positions'[st], Actors) = P(st)
    BY <1>same, <2>1
  <2>6. /\ coins'[This] \in Nat /\ \A st \in Strategies : coins'[st] \in Nat
    BY <2>1, VaultContracts DEF CoinsOK
  <2>7. /\ SumFunctionOnSet(vaultBalance', Actors) <= coins'[This]
        /\ \A st \in Strategies : SumFunctionOnSet(positions'[st], Actors) <= coins'[st]
    BY <1>1, <2>1, <2>2, <2>3, <2>4, <2>5, <2>6
  <2> QED BY <2>1, <2>7, VaultBooks
<1>5. ASSUME NEW s \in Actors, NEW r \in Actors, NEW w \in VaultWithdrawals, WithdrawVault(s, r, w)
      PROVE  VaultInv' /\ CoinsOK'
  <2>1. /\ CoinsOK' /\ VaultTypeOK' /\ positions' = positions
        /\ \A st \in Strategies : coins'[st] = coins[st]
        /\ \A u \in Actors \ {s} : vaultBalance'[u] = vaultBalance[u]
    BY <1>5, WithdrawVaultEffect
  <2>2. PICK n \in Nat : coins'[This] >= coins[This] - n /\ vaultBalance'[s] = vaultBalance[s] - n
    BY <1>5, WithdrawVaultEffect
  <2>3. SumFunctionOnSet(vaultBalance', Actors) = B - n
    <3>1. vaultBalance'[s] = vaultBalance[s] + (-n) /\ -n \in Int
      BY <1>2, <2>2
    <3>2. SumFunctionOnSet(vaultBalance', Actors) = B + (-n)
      BY <1>2, <2>1, <3>1, EntrySum DEF VaultTypeOK
    <3> QED BY <1>1, <3>2
  <2>4. coins'[This] \in Nat
    BY <2>1, VaultContracts DEF CoinsOK
  <2>5. /\ SumFunctionOnSet(vaultBalance', Actors) <= coins'[This]
        /\ \A st \in Strategies : SumFunctionOnSet(positions'[st], Actors) <= coins'[st]
    BY <1>1, <2>1, <2>2, <2>3, <2>4
  <2> QED BY <2>1, <2>5, VaultBooks
<1>6. ASSUME NEW s \in Actors, NEW w \in VaultWithdrawals, WithdrawStrategy(s, w)
      PROVE  VaultInv' /\ CoinsOK'
  <2>1. /\ CoinsOK' /\ VaultTypeOK' /\ strategyAddr \in Strategies
        /\ coins'[This] = coins[This] /\ vaultBalance' = vaultBalance
        /\ \A st \in Strategies \ {strategyAddr} : coins'[st] = coins[st]
        /\ \A st \in Strategies, u \in Actors :
             st # strategyAddr \/ u # s => positions'[st][u] = positions[st][u]
    BY <1>6, WithdrawStrategyEffect
  <2>2. PICK n \in Nat : /\ coins'[strategyAddr] >= coins[strategyAddr] - n
                         /\ positions'[strategyAddr][s] = positions[strategyAddr][s] - n
    BY <1>6, WithdrawStrategyEffect
  <2>3. SumFunctionOnSet(positions'[strategyAddr], Actors) = P(strategyAddr) - n
    <3>1. positions'[strategyAddr][s] = positions[strategyAddr][s] + (-n) /\ -n \in Int
      BY <1>2, <2>1, <2>2
    <3>2. positions'[strategyAddr] \in [Actors -> Nat]
      BY <2>1 DEF VaultTypeOK
    <3>3. SumFunctionOnSet(positions'[strategyAddr], Actors) = P(strategyAddr) + (-n)
      BY <1>2, <2>1, <3>1, <3>2, EntrySum
    <3> QED BY <1>1, <2>1, <3>3
  <2>4. \A st \in Strategies \ {strategyAddr} : SumFunctionOnSet(positions'[st], Actors) = P(st)
    BY <1>same, <2>1
  <2>5. \A st \in Strategies : coins'[st] \in Nat
    BY <2>1, VaultContracts DEF CoinsOK
  <2>6. /\ SumFunctionOnSet(vaultBalance', Actors) <= coins'[This]
        /\ \A st \in Strategies : SumFunctionOnSet(positions'[st], Actors) <= coins'[st]
    BY <1>1, <2>1, <2>2, <2>3, <2>4, <2>5
  <2> QED BY <2>1, <2>6, VaultBooks
<1>7. ASSUME NEW st \in Strategies, ChangeTrust(st) \/ \E s \in Actors : UpdateStrategy(s, st)
      PROVE  VaultInv' /\ CoinsOK'
  <2>1. VaultTypeOK' /\ UNCHANGED <<vaultBalance, positions, coins>>
    BY <1>7 DEF ChangeTrust, UpdateStrategy, VaultInv, VaultTypeOK
  <2>2. CoinsOK'
    BY <2>1 DEF CoinsOK
  <2> QED BY <1>1, <2>1, <2>2, VaultBooks
<1> QED BY <1>3, <1>4, <1>5, <1>6, <1>7 DEF VaultStep, VaultWithdraw
\* What the strategies keep for u.
Placed(P, u) == [st \in Strategies |-> P[st][u]]

LEMMA WorthSum ==
  ASSUME VaultTypeOK, NEW u \in Actors
  PROVE  /\ Worth(u) = vaultBalance[u] + SumFunctionOnSet(Placed(positions, u), Strategies)
         /\ vaultBalance[u] \in Nat /\ SumFunctionOnSet(Placed(positions, u), Strategies) \in Nat
<1>1. SumFunction([st \in Strategies |-> positions[st][u]])
        = SumFunctionOnSet(Placed(positions, u), Strategies)
  BY DEF SumFunction, Placed
<1>2. IsFiniteSet(Strategies)
  BY CommonAssumption, VaultAssumption, FS_Subset
<1>3. \A st \in Strategies : Placed(positions, u)[st] \in Nat
  BY DEF VaultTypeOK, Placed
<1> QED BY <1>1, <1>2, <1>3, SumNat DEF Worth, VaultTypeOK

LEMMA WorthInt ==
  ASSUME VaultTypeOK, NEW u \in Actors
  PROVE  Worth(u) \in Int
BY WorthSum

\* Who loses nothing anywhere is worth no less.
LEMMA WorthKept ==
  ASSUME VaultTypeOK, VaultTypeOK', NEW u \in Actors,
         vaultBalance[u] <= vaultBalance'[u],
         \A st \in Strategies : positions[st][u] <= positions'[st][u]
  PROVE  Worth(u) <= Worth(u)'
<1> DEFINE p == Placed(positions, u)
           q == Placed(positions', u)
<1>1. IsFiniteSet(Strategies)
  BY CommonAssumption, VaultAssumption, FS_Subset
<1>2. \A st \in Strategies : p[st] \in Int /\ q[st] \in Int /\ p[st] <= q[st]
  BY DEF VaultTypeOK, Placed
<1>3. SumFunctionOnSet(p, Strategies) <= SumFunctionOnSet(q, Strategies)
  <2> HIDE DEF p, q
  <2> QED BY <1>1, <1>2, SumMonotone
<1>4. /\ Worth(u) = vaultBalance[u] + SumFunctionOnSet(p, Strategies)
      /\ vaultBalance[u] \in Nat /\ SumFunctionOnSet(p, Strategies) \in Nat
  BY WorthSum
<1>5. (/\ Worth(u) = vaultBalance[u] + SumFunctionOnSet(p, Strategies)
       /\ vaultBalance[u] \in Nat /\ SumFunctionOnSet(p, Strategies) \in Nat)'
  BY WorthSum, PTL
<1> QED BY <1>3, <1>4, <1>5

\* What a deposit takes out of the vault's balance arrives at the strategy.
LEMMA WorthMoved ==
  ASSUME VaultTypeOK, VaultTypeOK', NEW u \in Actors, NEW to \in Strategies,
         NEW m \in Nat, NEW n \in Nat, m <= n,
         vaultBalance'[u] = vaultBalance[u] - m,
         positions'[to][u] = positions[to][u] + n,
         \A st \in Strategies \ {to} : positions'[st][u] = positions[st][u]
  PROVE  Worth(u) <= Worth(u)'
<1> DEFINE p == Placed(positions, u)
           q == Placed(positions', u)
<1>1. IsFiniteSet(Strategies)
  BY CommonAssumption, VaultAssumption, FS_Subset
<1>2. /\ \A st \in Strategies : p[st] \in Int /\ q[st] \in Int
      /\ \A st \in Strategies \ {to} : q[st] = p[st]
      /\ q[to] = p[to] + n
  BY DEF VaultTypeOK, Placed
<1>3. SumFunctionOnSet(q, Strategies) = SumFunctionOnSet(p, Strategies) - p[to] + q[to]
  <2> HIDE DEF p, q
  <2> QED BY <1>1, <1>2, SumChange
<1>4. /\ Worth(u) = vaultBalance[u] + SumFunctionOnSet(p, Strategies)
      /\ vaultBalance[u] \in Nat /\ SumFunctionOnSet(p, Strategies) \in Nat
  BY WorthSum
<1>5. (/\ Worth(u) = vaultBalance[u] + SumFunctionOnSet(p, Strategies)
       /\ vaultBalance[u] \in Nat /\ SumFunctionOnSet(p, Strategies) \in Nat)'
  BY WorthSum, PTL
<1>6. Worth(u)' = vaultBalance'[u] + SumFunctionOnSet(q, Strategies)
  BY <1>5
<1> HIDE DEF p, q
<1>7. SumFunctionOnSet(q, Strategies) = SumFunctionOnSet(p, Strategies) + n
  BY <1>1, <1>2, <1>3, <1>4
<1> QED BY <1>4, <1>6, <1>7

LEMMA VaultStepKeepsWorth ==
  ASSUME VaultInv, VaultInv', CoinsOK, VaultStep
  PROVE  TakenByTheirOwners
<1>1. VaultTypeOK /\ VaultTypeOK'
  BY DEF VaultInv
<1>2. /\ \A u \in Actors : vaultBalance[u] \in Nat /\ vaultBalance'[u] \in Nat
      /\ \A st \in Strategies, u \in Actors : positions[st][u] \in Nat /\ positions'[st][u] \in Nat
  BY <1>1 DEF VaultTypeOK
<1>worth. \A u \in Actors : Worth(u) \in Int
  <2> SUFFICES ASSUME NEW u \in Actors PROVE Worth(u) \in Int
    OBVIOUS
  <2> QED BY <1>1, WorthSum
<1>worthNext. \A u \in Actors : Worth(u)' \in Int
  <2> SUFFICES ASSUME NEW u \in Actors PROVE Worth(u)' \in Int
    OBVIOUS
  <2>1. VaultTypeOK'
    BY <1>1
  <2>2. (Worth(u) \in Int)'
    BY <2>1, WorthInt, PTL
  <2> QED BY <2>2
<1>3. ASSUME NEW s \in Actors, NEW r \in Actors, NEW sent \in DepositSizes,
             NEW named \in DepositSizes \cup {NoAmount}, VaultDeposit(s, sent, named, r), NEW u \in Actors
      PROVE  Worth(u) <= Worth(u)'
  <2>1. positions' = positions /\ vaultBalance[u] <= vaultBalance'[u]
    BY <1>3, <1>2, DepositEffect
  <2> QED BY <1>1, <1>2, <2>1, WorthKept
<1>4. ASSUME NEW s \in Actors, NEW r \in Actors, NEW sent \in DepositSizes,
             NEW named \in DepositSizes \cup {NoAmount}, StrategyDeposit(s, sent, named, r), NEW u \in Actors
      PROVE  Worth(u) <= Worth(u)'
  <2>1. /\ strategyAddr \in Strategies
        /\ \A v \in Actors \ {r} : vaultBalance'[v] = vaultBalance[v]
        /\ \A st \in Strategies, v \in Actors :
             st # strategyAddr \/ v # r => positions'[st][v] = positions[st][v]
    BY <1>4, StrategyDepositEffect
  <2>2. PICK m \in Nat, n \in Nat :
           /\ m <= n
           /\ vaultBalance'[r] = vaultBalance[r] - m
           /\ positions'[strategyAddr][r] = positions[strategyAddr][r] + n
    BY <1>4, StrategyDepositEffect
  <2>3. CASE u = r
    BY <1>1, <2>1, <2>2, <2>3, WorthMoved
  <2>4. CASE u # r
    BY <1>1, <1>2, <2>1, <2>4, WorthKept
  <2> QED BY <2>3, <2>4
<1>5. ASSUME NEW s \in Actors, NEW r \in Actors, NEW w \in VaultWithdrawals, VaultWithdraw(s, r, w),
             NEW u \in Actors, u # s
      PROVE  Worth(u) <= Worth(u)'
  <2>1. CASE WithdrawVault(s, r, w)
    <3>1. positions' = positions /\ vaultBalance'[u] = vaultBalance[u]
      BY <1>5, <2>1, WithdrawVaultEffect
    <3> QED BY <1>1, <1>2, <3>1, WorthKept
  <2>2. CASE WithdrawStrategy(s, w)
    <3>1. /\ vaultBalance' = vaultBalance
          /\ \A st \in Strategies : positions'[st][u] = positions[st][u]
      BY <1>5, <2>2, WithdrawStrategyEffect
    <3> QED BY <1>1, <1>2, <3>1, WorthKept
  <2> QED BY <1>5, <2>1, <2>2 DEF VaultWithdraw
<1>6. ASSUME NEW st, ChangeTrust(st) \/ \E s \in Actors : UpdateStrategy(s, st), NEW u \in Actors
      PROVE  Worth(u) <= Worth(u)'
  <2>1. UNCHANGED <<vaultBalance, positions>>
    BY <1>6 DEF ChangeTrust, UpdateStrategy
  <2> QED BY <1>1, <1>2, <2>1, WorthKept
<1> SUFFICES ASSUME NEW u \in Actors, Worth(u)' < Worth(u)
             PROVE  \E r \in Actors, w \in VaultWithdrawals : VaultWithdraw(u, r, w)
  BY DEF TakenByTheirOwners
<1>7. ~(Worth(u) <= Worth(u)')
  BY <1>worth, <1>worthNext
<1> QED BY <1>3, <1>4, <1>5, <1>6, <1>7 DEF VaultStep
(***************************************************************************)
(* The merkle airdrop.                                                     *)
(***************************************************************************)

StageRecord ==
  [tree : SUBSET (Actors \X Nat), expiration : Nat \cup {Never}, total : Nat, claimed : Nat]

AirdropTypeOK ==
  /\ clock \in Nat
  /\ stages \in Seq(StageRecord)
  /\ paid \in Seq([Actors -> Nat]) /\ Len(paid) = Len(stages)
  /\ burned \in Seq(Nat) /\ Len(burned) = Len(stages)

\* Who was paid has claimed, and nothing is burned before its time: what keeps a
\* claim from being made twice, and from being made after the burn.
AirdropInv ==
  /\ AirdropTypeOK
  /\ \A k \in DOMAIN stages, u \in Actors : paid[k][u] # 0 => <<u, k>> \in claims
  /\ \A k \in DOMAIN stages : burned[k] > 0 => StageExpired(k)
  /\ ClaimsCounted

LEMMA AirdropInitial == AirdropInit /\ clock = 0 => AirdropInv
BY DEF AirdropInit, AirdropInv, AirdropTypeOK, ClaimsCounted

LEMMA AirdropDomains ==
  ASSUME AirdropTypeOK
  PROVE  /\ Len(stages) \in Nat
         /\ DOMAIN stages = 1 .. Len(stages) /\ DOMAIN paid = DOMAIN stages /\ DOMAIN burned = DOMAIN stages
         /\ \A k \in DOMAIN stages :
              /\ stages[k] \in StageRecord
              /\ paid[k] \in [Actors -> Nat] /\ burned[k] \in Nat
BY DEF AirdropTypeOK

LEMMA StageFields ==
  ASSUME NEW r \in StageRecord
  PROVE  /\ r.tree \subseteq Actors \X Nat /\ r.expiration \in Nat \cup {Never}
         /\ r.total \in Nat /\ r.claimed \in Nat
         /\ \A n \in Nat : [r EXCEPT !.claimed = n] \in StageRecord
BY DEF StageRecord

LEMMA RegisterRootKeeps ==
  ASSUME AirdropInv, NEW s, NEW tree \in Trees, NEW expiration \in Expirations, NEW total \in AirdropTotals,
         RegisterMerkleRoot(s, tree, expiration, total), UNCHANGED clock
  PROVE  AirdropInv' /\ PaidOnce /\ UNCHANGED coins
<1> DEFINE new == [tree |-> tree, expiration |-> expiration, total |-> total, claimed |-> 0]
           none == [u \in Actors |-> 0]
           n == Len(stages) + 1
<1>1. /\ stages' = Append(stages, new) /\ paid' = Append(paid, none) /\ burned' = Append(burned, 0)
      /\ UNCHANGED <<claims, coins, clock>>
  BY DEF RegisterMerkleRoot
<1>2. new \in StageRecord /\ none \in [Actors -> Nat] /\ new.claimed = 0
      /\ \A u \in Actors : none[u] = 0
  BY AirdropAssumption DEF StageRecord
<1>sum. SumFunction(none) = 0
  BY SumZero, CoinHoldersFinite DEF SumFunction
<1> HIDE DEF new, none
<1>3. AirdropTypeOK
  BY DEF AirdropInv
<1>4. AirdropTypeOK'
  BY <1>1, <1>2, <1>3 DEF AirdropTypeOK
<1>5. /\ DOMAIN stages' = DOMAIN stages \cup {n}
      /\ \A k \in DOMAIN stages : stages'[k] = stages[k] /\ paid'[k] = paid[k] /\ burned'[k] = burned[k]
      /\ stages'[n] = new /\ paid'[n] = none /\ burned'[n] = 0
  BY <1>1, <1>2, <1>3 DEF AirdropTypeOK
<1> HIDE DEF n
<1>same. claims' = claims /\ clock' = clock
  BY <1>1
<1>6. \A k \in DOMAIN stages', u \in Actors : paid'[k][u] # 0 => <<u, k>> \in claims'
  BY <1>same, <1>2, <1>5 DEF AirdropInv
<1>7. \A k \in DOMAIN stages' : burned'[k] > 0 => StageExpired(k)'
  <2>1. \A k \in DOMAIN stages : StageExpired(k)' <=> StageExpired(k)
    BY <1>same, <1>5 DEF StageExpired
  <2> QED BY <1>5, <2>1 DEF AirdropInv
<1>8. ClaimsCounted'
  BY <1>2, <1>5, <1>sum DEF AirdropInv, ClaimsCounted
<1>9. PaidOnce
  BY <1>5 DEF PaidOnce
<1> QED BY <1>1, <1>4, <1>6, <1>7, <1>8, <1>9 DEF AirdropInv

LEMMA ClaimKeeps ==
  ASSUME AirdropInv, CoinsOK, NEW k \in DOMAIN stages, NEW u, NEW amount,
         Claim(u, k, amount), UNCHANGED clock
  PROVE  AirdropInv' /\ PaidOnce /\ CoinsOK'
<1>1. AirdropTypeOK
  BY DEF AirdropInv
<1>2. stages[k] \in StageRecord /\ paid[k] \in [Actors -> Nat] /\ burned[k] \in Nat
  BY <1>1, AirdropDomains
<1>3. u \in Actors /\ amount \in Nat
  BY <1>2, StageFields DEF Claim
<1>4. /\ ~StageExpired(k) /\ <<u, k>> \notin claims /\ <<u, amount>> \in stages[k].tree
      /\ claims' = claims \cup {<<u, k>>}
      /\ UNCHANGED <<burned, clock>>
  BY DEF Claim
<1> DEFINE e == [stages[k] EXCEPT !.claimed = @ + amount]
           p == [paid[k] EXCEPT ![u] = @ + amount]
<1>5. stages' = [stages EXCEPT ![k] = e] /\ paid' = [paid EXCEPT ![k] = p]
  BY DEF Claim
<1>6. /\ e \in StageRecord /\ e.tree = stages[k].tree /\ e.expiration = stages[k].expiration
      /\ e.claimed = stages[k].claimed + amount
  BY <1>2, <1>3 DEF StageRecord
<1>7. /\ p \in [Actors -> Nat] /\ p[u] = paid[k][u] + amount
      /\ \A v \in Actors \ {u} : p[v] = paid[k][v]
  BY <1>2, <1>3
<1>sum. SumFunction(p) = SumFunction(paid[k]) + amount
  <2>1. DOMAIN p = Actors /\ DOMAIN paid[k] = Actors
    BY <1>2
  <2> HIDE DEF p
  <2>2. SumFunctionOnSet(p, Actors) = SumFunctionOnSet(paid[k], Actors) + amount
    BY <1>2, <1>3, <1>7, EntrySum
  <2> QED BY <2>1, <2>2 DEF SumFunction
<1> HIDE DEF e, p
<1>8. /\ stages' \in Seq(StageRecord) /\ paid' \in Seq([Actors -> Nat])
      /\ DOMAIN stages' = DOMAIN stages /\ Len(stages') = Len(stages) /\ Len(paid') = Len(paid)
      /\ stages'[k] = e /\ paid'[k] = p
      /\ \A j \in DOMAIN stages \ {k} : stages'[j] = stages[j] /\ paid'[j] = paid[j]
  <2>1. DOMAIN paid = DOMAIN stages
    BY <1>1, AirdropDomains
  <2>2. stages \in Seq(StageRecord) /\ paid \in Seq([Actors -> Nat])
    BY <1>1 DEF AirdropTypeOK
  <2>3. stages' \in Seq(StageRecord) /\ paid' \in Seq([Actors -> Nat])
    BY <1>5, <1>6, <1>7, <2>2, ExceptList
  <2> QED BY <1>5, <2>1, <2>2, <2>3
<1>9. AirdropTypeOK'
  BY <1>1, <1>4, <1>8 DEF AirdropTypeOK
<1>10. \A j \in DOMAIN stages : StageExpired(j)' <=> StageExpired(j)
  BY <1>4, <1>6, <1>8 DEF StageExpired
<1>11. \A j \in DOMAIN stages', v \in Actors : paid'[j][v] # 0 => <<v, j>> \in claims'
  BY <1>4, <1>7, <1>8 DEF AirdropInv
<1>12. \A j \in DOMAIN stages' : burned'[j] > 0 => StageExpired(j)'
  BY <1>4, <1>8, <1>10 DEF AirdropInv
<1>13. ClaimsCounted'
  BY <1>6, <1>8, <1>sum DEF AirdropInv, ClaimsCounted
<1>14. paid[k][u] = 0 /\ ~(burned[k] > 0)
  BY <1>3, <1>4 DEF AirdropInv
<1>15. PaidOnce
  <2>1. p[u] = amount
    BY <1>3, <1>7, <1>14
  <2> QED BY <1>4, <1>7, <1>8, <1>14, <2>1 DEF PaidOnce
<1>16. CoinsOK'
  <2>1. BankSend(This, u, amount)
    BY DEF Claim
  <2> QED BY <1>3, <2>1, SendKeepsCoins, CoinHoldersFinite
<1> QED BY <1>9, <1>11, <1>12, <1>13, <1>15, <1>16 DEF AirdropInv

LEMMA BurnKeeps ==
  ASSUME AirdropInv, CoinsOK, NEW s, NEW k \in DOMAIN stages, Burn(s, k), UNCHANGED clock
  PROVE  AirdropInv' /\ PaidOnce /\ CoinsOK'
<1> DEFINE left == stages[k].total - stages[k].claimed
<1>1. /\ StageExpired(k) /\ 0 < left /\ left <= coins[This]
      /\ coins' = [coins EXCEPT ![This] = @ - left]
      /\ burned' = [burned EXCEPT ![k] = @ + left]
      /\ UNCHANGED <<stages, claims, paid, clock>>
  BY DEF Burn
<1>2. AirdropTypeOK
  BY DEF AirdropInv
<1>3. left \in Nat /\ burned[k] \in Nat
  <2>1. stages[k] \in StageRecord
    BY <1>2, AirdropDomains
  <2>2. stages[k].total \in Nat /\ stages[k].claimed \in Nat
    BY <2>1, StageFields
  <2> QED BY <1>1, <1>2, <2>2, AirdropDomains
<1> HIDE DEF left
<1>4. AirdropTypeOK' /\ \A j \in DOMAIN stages \ {k} : burned'[j] = burned[j]
  <2>1. burned[k] + left \in Nat
    BY <1>3
  <2>2. burned \in Seq(Nat) /\ burned' = [burned EXCEPT ![k] = burned[k] + left]
    BY <1>1, <1>2 DEF AirdropTypeOK
  <2>3. burned' \in Seq(Nat)
    BY <2>1, <2>2, ExceptList
  <2> QED BY <1>1, <1>2, <2>2, <2>3, AirdropDomains DEF AirdropTypeOK
<1>5. \A j \in DOMAIN stages' : burned'[j] > 0 => StageExpired(j)'
  BY <1>1, <1>4 DEF AirdropInv, StageExpired
<1>6. CoinsOK'
  <2>1. coins[This] - left \in Nat
    BY <1>1, <1>3, CoinHoldersFinite DEF CoinsOK
  <2> QED BY <1>1, <2>1, CoinHoldersFinite DEF CoinsOK
<1>7. PaidOnce
  BY <1>1 DEF PaidOnce
<1> QED BY <1>1, <1>4, <1>5, <1>6, <1>7 DEF AirdropInv, ClaimsCounted

LEMMA AirdropKeeps ==
  ASSUME AirdropInv, CoinsOK, AirdropStep, UNCHANGED clock
  PROVE  AirdropInv' /\ PaidOnce /\ CoinsOK'
BY RegisterRootKeeps, ClaimKeeps, BurnKeeps DEF AirdropStep, CoinsOK

\* With time stages only expire.
LEMMA AirdropBesideClock ==
  ASSUME AirdropInv, UNCHANGED airdropVars, ClockTick \/ UNCHANGED clock
  PROVE  AirdropInv'
<1>1. /\ clock \in Nat /\ clock' \in Nat /\ clock <= clock'
      /\ UNCHANGED <<stages, claims, paid, burned>>
  BY DEF AirdropInv, AirdropTypeOK, ClockTick, airdropVars
<1>2. AirdropTypeOK /\ AirdropTypeOK'
  BY <1>1 DEF AirdropInv, AirdropTypeOK
<1>3. ASSUME NEW k \in DOMAIN stages, StageExpired(k) PROVE StageExpired(k)'
  <2>1. stages[k].expiration \in Nat \cup {Never}
    BY <1>2, AirdropDomains, StageFields
  <2> QED BY <1>1, <1>3, <2>1 DEF StageExpired
<1> QED BY <1>1, <1>2, <1>3 DEF AirdropInv, ClaimsCounted
(***************************************************************************)
(* The staking contract: how much an allocated token gives out.            *)
(***************************************************************************)

LEMMA RatioFacts ==
  ASSUME NEW n \in Nat, NEW m \in Nat, m > 0
  PROVE  /\ FromRatio(n, m) \in Nat
         /\ m * FromRatio(n, m) <= n * DecimalOne
<1>1. DecimalOne \in Nat
  BY DecimalAssumption
<1>2. n * DecimalOne \in Nat
  BY <1>1, SMTT(30)
<1> QED BY <1>2, DivFacts DEF FromRatio

LEMMA TimesFacts ==
  ASSUME NEW x \in Nat, NEW n \in Nat
  PROVE  /\ Times(x, n) \in Nat
         /\ Times(x, n) * DecimalOne <= x * n
         /\ \A y \in Nat : x <= y => Times(x, n) <= Times(y, n)
         /\ Times(x, 0) = 0 /\ Times(0, n) = 0
<1>1. DecimalOne \in Nat /\ DecimalOne > 0
  BY DecimalAssumption
<1>2. x * n \in Nat
  BY SMTT(30)
<1>3. Times(x, n) \in Nat /\ DecimalOne * Times(x, n) <= x * n
  BY <1>1, <1>2, DivFacts DEF Times
<1>4. Times(x, n) * DecimalOne = DecimalOne * Times(x, n)
  BY <1>1, <1>3, SMTT(30)
<1>5. ASSUME NEW y \in Nat, x <= y PROVE Times(x, n) <= Times(y, n)
  <2>1. y * n \in Nat /\ x * n <= y * n
    BY <1>5, SMTT(30)
  <2> QED BY <1>1, <1>2, <2>1, DivMonotone DEF Times
<1>6. Times(x, 0) = 0 /\ Times(0, n) = 0
  <2>1. x * 0 = 0 /\ 0 * n = 0
    BY SMTT(30)
  <2>2. 0 \div DecimalOne = 0
    <3>1. 0 * DecimalOne = 0 /\ (0 * DecimalOne) \div DecimalOne = 0
      BY <1>1, DivExact, SMTT(30)
    <3> QED BY <3>1
  <2> QED BY <2>1, <2>2 DEF Times
<1> QED BY <1>3, <1>4, <1>5, <1>6

GoodConfig == {c \in AllocationConfig : c.init < c.till}

LEMMA ConfigFields ==
  ASSUME NEW c \in GoodConfig
  PROVE  /\ c.init \in Nat /\ c.till \in Nat /\ c.init < c.till
         /\ c.cycleRewards \in Nat /\ c.cycleDuration \in Nat /\ c.cycleDuration > 0
         /\ c.increase \in Nat
BY DecimalAssumption DEF GoodConfig, AllocationConfig

LEMMA CyclesFacts ==
  ASSUME NEW c \in GoodConfig, NEW n \in Nat
  PROVE  /\ CyclesElapsed(c, n) \in Nat
         /\ CyclesElapsed(c, n) <= CyclesElapsed(c, n + 1)
<1> DEFINE last == (c.till - c.init) \div c.cycleDuration
           since(m) == (m - c.init) \div c.cycleDuration
<1>1. c.init \in Nat /\ c.till \in Nat /\ c.init < c.till /\ c.cycleDuration \in Nat /\ c.cycleDuration > 0
  BY ConfigFields
<1>2. last \in Nat
  <2>1. c.till - c.init \in Nat
    BY <1>1
  <2> QED BY <1>1, <2>1, DivFacts
<1>3. ASSUME NEW m \in Nat, c.init < m PROVE since(m) \in Nat /\ since(m) <= since(m + 1)
  <2>1. m - c.init \in Nat /\ (m + 1) - c.init \in Nat /\ m - c.init <= (m + 1) - c.init
    BY <1>1, <1>3
  <2> QED BY <1>1, <2>1, DivFacts, DivMonotone
<1>4. /\ CyclesElapsed(c, n) = IF c.init >= n THEN 0 ELSE Earlier(last, since(n))
      /\ CyclesElapsed(c, n + 1) = IF c.init >= n + 1 THEN 0 ELSE Earlier(last, since(n + 1))
  BY DEF CyclesElapsed
<1> HIDE DEF last
<1>5. CASE c.init < n
  <2>1. since(n) \in Nat /\ since(n) <= since(n + 1) /\ since(n + 1) \in Nat
    <3>1. n + 1 \in Nat /\ c.init < n + 1
      BY <1>1, <1>5
    <3> HIDE DEF since
    <3> QED BY <1>3, <1>5, <3>1
  <2> HIDE DEF since
  <2> QED BY <1>1, <1>2, <1>4, <1>5, <2>1 DEF Earlier
<1>6. CASE c.init = n
  <2>1. since(n + 1) \in Nat
    <3>1. (n + 1) - c.init \in Nat
      BY <1>1, <1>6
    <3> QED BY <1>1, <3>1, DivFacts
  <2> HIDE DEF since
  <2> QED BY <1>1, <1>2, <1>4, <1>6, <2>1 DEF Earlier
<1>7. CASE c.init > n
  <2> HIDE DEF since
  <2> QED BY <1>1, <1>4, <1>7
<1> QED BY <1>1, <1>5, <1>6, <1>7

AllocationState == [currentCycle : Nat, currentCycleRewards : Nat, lastDistributed : Nat]

\* The loop of a distribution: what it carries, and one cycle of it.
LoopState == [rewards : Nat, cycleRewards : Nat, last : Nat]
FirstState(s) == [rewards |-> 0, cycleRewards |-> s.currentCycleRewards, last |-> s.lastDistributed]
CycleEnd(c, at, cycle) == Earlier(at, Earlier(c.till, CycleStart(c, cycle + 1)))
OneCycle(c, at, current, b, cycle) ==
  [rewards |-> b.rewards + DistributedForCycle(FromRatio(b.cycleRewards, c.cycleDuration),
                             Later(b.last, c.init), CycleEnd(c, at, cycle)),
   cycleRewards |-> CycleRewards(b.cycleRewards, c.increase, cycle = current),
   last |-> CycleEnd(c, at, cycle)]
IsDistribution(c, s, at, g) ==
  g = [cycle \in s.currentCycle - 1 .. CyclesElapsed(c, at) |->
         IF cycle = s.currentCycle - 1 THEN FirstState(s)
         ELSE OneCycle(c, at, CyclesElapsed(c, at), g[cycle - 1], cycle)]

LEMMA OneCycleType ==
  ASSUME NEW c \in GoodConfig, NEW n \in Nat, NEW current, NEW b \in LoopState, NEW cycle \in Nat
  PROVE  OneCycle(c, n, current, b, cycle) \in LoopState
<1>1. /\ c.init \in Nat /\ c.till \in Nat /\ c.cycleDuration \in Nat /\ c.cycleDuration > 0
      /\ c.increase \in Nat
  BY ConfigFields
<1>2. b.rewards \in Nat /\ b.cycleRewards \in Nat /\ b.last \in Nat
  BY DEF LoopState
<1>3. CycleEnd(c, n, cycle) \in Nat
  <2>1. CycleStart(c, cycle + 1) \in Nat
    <3>1. (cycle + 1) * c.cycleDuration \in Nat
      BY <1>1, SMTT(30)
    <3> QED BY <1>1, <3>1 DEF CycleStart
  <2> QED BY <1>1, <2>1 DEF CycleEnd, Earlier
<1>4. Later(b.last, c.init) \in Nat
  BY <1>1, <1>2 DEF Later
<1>5. FromRatio(b.cycleRewards, c.cycleDuration) \in Nat
  BY <1>1, <1>2, RatioFacts
<1>6. ASSUME NEW rate \in Nat, NEW from \in Nat, NEW to \in Nat
      PROVE  DistributedForCycle(rate, from, to) \in Nat
  <2>1. CASE to <= from
    BY <2>1 DEF DistributedForCycle
  <2>2. CASE ~(to <= from)
    <3>1. to - from \in Nat
      BY <2>2
    <3> QED BY <2>2, <3>1, TimesFacts DEF DistributedForCycle
  <2> QED BY <2>1, <2>2
<1>7. CycleRewards(b.cycleRewards, c.increase, cycle = current) \in Nat
  <2>1. Times(c.increase, b.cycleRewards) \in Nat
    BY <1>1, <1>2, TimesFacts
  <2> QED BY <1>2, <2>1 DEF CycleRewards
<1>8. DistributedForCycle(FromRatio(b.cycleRewards, c.cycleDuration),
                          Later(b.last, c.init), CycleEnd(c, n, cycle)) \in Nat
  BY <1>3, <1>4, <1>5, <1>6
<1> QED BY <1>2, <1>3, <1>7, <1>8 DEF OneCycle, LoopState

\* What the loop leaves when it is done.
DistributionOf(c, n, g) ==
  LET done == g[CyclesElapsed(c, n)]
  IN  [rewards |-> done.rewards,
       state |-> [currentCycle |-> CyclesElapsed(c, n),
                  currentCycleRewards |-> IF done.last = c.till THEN 0 ELSE done.cycleRewards,
                  lastDistributed |-> done.last]]

\* The loop there is, and the naturals it carries.
IsRun(c, s, n, g) ==
  /\ IsDistribution(c, s, n, g)
  /\ \A k \in s.currentCycle - 1 .. CyclesElapsed(c, n) : g[k] \in LoopState
  /\ Distribution(c, s, n) = DistributionOf(c, n, g)

LEMMA DistributionIs ==
  ASSUME NEW c \in GoodConfig, NEW s \in AllocationState, NEW n \in Nat,
         s.currentCycle <= CyclesElapsed(c, n)
  PROVE  \E g : IsRun(c, s, n, g)
<1> DEFINE lo == s.currentCycle - 1
           hi == CyclesElapsed(c, n)
           body == [p \in LoopState \X (lo .. hi) |-> OneCycle(c, n, hi, p[1], p[2])]
           g == CHOOSE h : IsDistribution(c, s, n, h)
<1>1. hi \in Nat /\ lo \in Int /\ lo + 1 \in Nat /\ lo <= hi /\ c.till \in Nat
  BY CyclesFacts, ConfigFields DEF AllocationState
<1>2. FirstState(s) \in LoopState
  BY DEF FirstState, LoopState, AllocationState
<1>3. \A b \in LoopState, k \in (lo + 1) .. hi : OneCycle(c, n, hi, b, k) \in LoopState
  <2> HIDE DEF hi, lo
  <2> QED BY <1>1, OneCycleType
<1>4. \E h : IsDistribution(c, s, n, h)
  <2>1. PICK h : IsLoop(h, lo, hi, FirstState(s), body)
    <3> HIDE DEF lo, hi, body
    <3> QED BY <1>1, LoopExists
  <2> HIDE DEF hi, lo
  <2>2. h = [k \in lo .. hi |-> IF k = lo THEN FirstState(s) ELSE body[<<h[k - 1], k>>]]
    BY <2>1 DEF IsLoop
  <2>3. h[lo] \in LoopState
    BY <1>1, <1>2, <2>2
  <2>4. \A k \in (lo + 1) .. hi : h[k - 1] \in LoopState => h[k] = OneCycle(c, n, hi, h[k - 1], k)
    <3> SUFFICES ASSUME NEW k \in (lo + 1) .. hi, h[k - 1] \in LoopState
                 PROVE  h[k] = OneCycle(c, n, hi, h[k - 1], k)
      OBVIOUS
    <3>1. k \in lo .. hi /\ k # lo
      BY <1>1
    <3>2. h[k] = body[<<h[k - 1], k>>]
      <4> HIDE DEF body
      <4> QED BY <2>2, <3>1
    <3>3. <<h[k - 1], k>> \in LoopState \X (lo .. hi)
      BY <3>1
    <3> QED BY <3>2, <3>3
  <2> HIDE DEF body
  <2>5. \A k \in lo .. hi : h[k] \in LoopState
    <3>1. \A k \in (lo + 1) .. hi : h[k - 1] \in LoopState => h[k] \in LoopState
      BY <1>3, <2>4
    <3> QED BY <1>1, <2>3, <3>1, LoopInvariant
  <2>6. \A k \in lo .. hi : h[k] = IF k = lo THEN FirstState(s) ELSE OneCycle(c, n, hi, h[k - 1], k)
    <3> SUFFICES ASSUME NEW k \in lo .. hi
                 PROVE  h[k] = IF k = lo THEN FirstState(s) ELSE OneCycle(c, n, hi, h[k - 1], k)
      OBVIOUS
    <3>1. CASE k = lo
      BY <2>2, <3>1
    <3>2. CASE k # lo
      <4>1. k \in (lo + 1) .. hi /\ k - 1 \in lo .. hi
        BY <1>1, <3>2
      <4> QED BY <2>4, <2>5, <3>2, <4>1
    <3> QED BY <3>1, <3>2
  <2>7. DOMAIN h = lo .. hi /\ h = [k \in DOMAIN h |-> h[k]]
    BY <2>2
  <2>8. h = [k \in lo .. hi |-> IF k = lo THEN FirstState(s) ELSE OneCycle(c, n, hi, h[k - 1], k)]
    BY <2>6, <2>7
  <2>9. IsDistribution(c, s, n, h)
    BY <2>8 DEF IsDistribution, lo, hi
  <2> QED BY <2>9
<1>5. g = [k \in lo .. hi |-> IF k = lo THEN FirstState(s) ELSE OneCycle(c, n, hi, g[k - 1], k)]
  <2>1. IsDistribution(c, s, n, g)
    BY <1>4
  <2> HIDE DEF g
  <2> QED BY <2>1 DEF IsDistribution
<1>6. Distribution(c, s, n) = DistributionOf(c, n, g)
  BY DEF Distribution, IsDistribution, FirstState, OneCycle, CycleEnd, DistributionOf
<1>7. \A k \in lo .. hi : g[k] \in LoopState
  <2> HIDE DEF g, lo, hi
  <2>1. g[lo] \in LoopState
    BY <1>1, <1>2, <1>5
  <2>2. \A k \in (lo + 1) .. hi : g[k - 1] \in LoopState => g[k] \in LoopState
    BY <1>1, <1>3, <1>5
  <2> QED BY <1>1, <2>1, <2>2, LoopInvariant
<1>8. IsDistribution(c, s, n, g)
  BY <1>4
<1> HIDE DEF g
<1> QED BY <1>6, <1>7, <1>8 DEF IsRun

\* However many cycles have passed, the loop ends with a state of the allocation
\* that is at the current cycle, and takes nothing back.
LEMMA DistributionFacts ==
  ASSUME NEW c \in GoodConfig, NEW s \in AllocationState, NEW n \in Nat,
         s.currentCycle <= CyclesElapsed(c, n)
  PROVE  /\ Distribution(c, s, n).rewards \in Nat
         /\ Distribution(c, s, n).state \in AllocationState
         /\ Distribution(c, s, n).state.currentCycle = CyclesElapsed(c, n)
<1> DEFINE hi == CyclesElapsed(c, n)
<1>1. hi \in Nat /\ c.till \in Nat /\ s.currentCycle \in Nat
  BY CyclesFacts, ConfigFields DEF AllocationState
<1>2. PICK g : IsRun(c, s, n, g)
  BY DistributionIs
<1>3. g[hi] \in LoopState
  BY <1>1, <1>2 DEF IsRun
<1> QED BY <1>1, <1>2, <1>3 DEF IsRun, DistributionOf, LoopState, AllocationState
(***************************************************************************)
(* The schedule of an allocation: its reference, RewardsOfCycle and        *)
(* DueUntil, is a loop over the cycles and one over the seconds.           *)
(***************************************************************************)

RewardStep(c) == [p \in Nat \X Int |-> p[1] + Times(c.increase, p[1])]
IsRewardLoop(c, n, g) == IsLoop(g, 0, n, c.cycleRewards, RewardStep(c))

LEMMA RewardLoop ==
  ASSUME NEW c \in GoodConfig, NEW n \in Nat
  PROVE  \E g : /\ IsRewardLoop(c, n, g)
               /\ RewardsOfCycle(c, n) = g[n] /\ g[n] \in Nat
<1> DEFINE Table(g) ==
             g = [k \in 0 .. n |-> IF k = 0 THEN c.cycleRewards ELSE g[k - 1] + Times(c.increase, g[k - 1])]
           r == CHOOSE g : Table(g)
<1>1. /\ c.cycleRewards \in Nat /\ c.increase \in Nat
      /\ \A x \in Nat : x + Times(c.increase, x) \in Nat
      /\ \A x \in Nat, k \in Int : RewardStep(c)[<<x, k>>] = x + Times(c.increase, x)
  <2>1. c.cycleRewards \in Nat /\ c.increase \in Nat
    BY ConfigFields
  <2>2. \A x \in Nat : Times(c.increase, x) \in Nat
    BY <2>1, TimesFacts
  <2>3. \A x \in Nat, k \in Int : RewardStep(c)[<<x, k>>] = x + Times(c.increase, x)
    <3> SUFFICES ASSUME NEW x \in Nat, NEW k \in Int PROVE RewardStep(c)[<<x, k>>] = x + Times(c.increase, x)
      OBVIOUS
    <3>1. <<x, k>> \in Nat \X Int
      OBVIOUS
    <3> QED BY <3>1 DEF RewardStep
  <2> QED BY <2>1, <2>2, <2>3
<1>2. ASSUME NEW g, Table(g) PROVE (\A k \in 0 .. n : g[k] \in Nat) /\ IsRewardLoop(c, n, g)
  <2>1. g[0] \in Nat
    BY <1>1, <1>2
  <2>2. \A k \in (0 + 1) .. n : g[k - 1] \in Nat => g[k] \in Nat
    <3> SUFFICES ASSUME NEW k \in (0 + 1) .. n, g[k - 1] \in Nat PROVE g[k] \in Nat
      OBVIOUS
    <3>1. k \in 0 .. n /\ k # 0
      OBVIOUS
    <3>2. g[k] = g[k - 1] + Times(c.increase, g[k - 1])
      BY <1>2, <3>1
    <3> QED BY <1>1, <3>2
  <2>3. \A k \in 0 .. n : g[k] \in Nat
    <3>1. 0 \in Int /\ n \in Int
      OBVIOUS
    <3> HIDE DEF Table
    <3> QED BY <2>1, <2>2, <3>1, LoopInvariant
  <2>4. \A k \in 0 .. n : g[k] = IF k = 0 THEN c.cycleRewards ELSE RewardStep(c)[<<g[k - 1], k>>]
    <3> SUFFICES ASSUME NEW k \in 0 .. n
                 PROVE  g[k] = IF k = 0 THEN c.cycleRewards ELSE RewardStep(c)[<<g[k - 1], k>>]
      OBVIOUS
    <3>1. CASE k = 0
      BY <1>2, <3>1
    <3>2. CASE k # 0
      <4>1. k - 1 \in 0 .. n /\ k \in Int
        BY <3>2
      <4>2. g[k] = g[k - 1] + Times(c.increase, g[k - 1])
        BY <1>2, <3>2
      <4> QED BY <1>1, <2>3, <3>2, <4>1, <4>2
    <3> QED BY <3>1, <3>2
  <2>5. DOMAIN g = 0 .. n /\ g = [k \in DOMAIN g |-> g[k]]
    BY <1>2
  <2>6. g = [k \in 0 .. n |-> IF k = 0 THEN c.cycleRewards ELSE RewardStep(c)[<<g[k - 1], k>>]]
    BY <2>4, <2>5
  <2> QED BY <2>3, <2>6 DEF IsRewardLoop, IsLoop
<1>3. \E g : Table(g)
  <2>1. PICK g : IsLoop(g, 0, n, c.cycleRewards, RewardStep(c))
    <3>1. 0 \in Int /\ n \in Int /\ 0 <= n
      OBVIOUS
    <3> QED BY <3>1, LoopExists
  <2>2. g = [k \in 0 .. n |-> IF k = 0 THEN c.cycleRewards ELSE RewardStep(c)[<<g[k - 1], k>>]]
    BY <2>1 DEF IsLoop
  <2>3. g[0] \in Nat
    BY <1>1, <2>2
  <2>4. \A k \in (0 + 1) .. n : g[k - 1] \in Nat => g[k] \in Nat /\ g[k] = g[k - 1] + Times(c.increase, g[k - 1])
    <3> SUFFICES ASSUME NEW k \in (0 + 1) .. n, g[k - 1] \in Nat
                 PROVE  g[k] \in Nat /\ g[k] = g[k - 1] + Times(c.increase, g[k - 1])
      OBVIOUS
    <3>1. k \in 0 .. n /\ k # 0 /\ k \in Int
      OBVIOUS
    <3>2. g[k] = RewardStep(c)[<<g[k - 1], k>>]
      BY <2>2, <3>1
    <3> QED BY <1>1, <3>1, <3>2
  <2>5. \A k \in 0 .. n : g[k] \in Nat
    <3>1. 0 \in Int /\ n \in Int /\ \A k \in (0 + 1) .. n : g[k - 1] \in Nat => g[k] \in Nat
      BY <2>4
    <3> QED BY <2>3, <3>1, LoopInvariant
  <2>6. \A k \in 0 .. n : g[k] = IF k = 0 THEN c.cycleRewards ELSE g[k - 1] + Times(c.increase, g[k - 1])
    <3> SUFFICES ASSUME NEW k \in 0 .. n
                 PROVE  g[k] = IF k = 0 THEN c.cycleRewards ELSE g[k - 1] + Times(c.increase, g[k - 1])
      OBVIOUS
    <3>1. CASE k = 0
      BY <2>2, <3>1
    <3>2. CASE k # 0
      <4>1. k \in (0 + 1) .. n /\ k - 1 \in 0 .. n
        BY <3>2
      <4> QED BY <2>4, <2>5, <3>2, <4>1
    <3> QED BY <3>1, <3>2
  <2>7. DOMAIN g = 0 .. n /\ g = [k \in DOMAIN g |-> g[k]]
    BY <2>2
  <2>8. Table(g)
    BY <2>6, <2>7
  <2> QED BY <2>8
<1>4. Table(r)
  <2> HIDE DEF Table
  <2> QED BY <1>3
<1>5. RewardsOfCycle(c, n) = r[n]
  BY DEF RewardsOfCycle
<1> HIDE DEF Table, r
<1>6. (\A k \in 0 .. n : r[k] \in Nat) /\ IsRewardLoop(c, n, r)
  BY <1>2, <1>4
<1> QED BY <1>5, <1>6

LEMMA RewardsNext ==
  ASSUME NEW c \in GoodConfig, NEW n \in Nat
  PROVE  /\ RewardsOfCycle(c, 0) = c.cycleRewards
         /\ RewardsOfCycle(c, n) \in Nat
         /\ RewardsOfCycle(c, n + 1) = RewardsOfCycle(c, n) + Times(c.increase, RewardsOfCycle(c, n))
<1>1. PICK z : IsRewardLoop(c, 0, z) /\ RewardsOfCycle(c, 0) = z[0] /\ z[0] \in Nat
  BY RewardLoop
<1>2. PICK g : IsRewardLoop(c, n, g) /\ RewardsOfCycle(c, n) = g[n] /\ g[n] \in Nat
  BY RewardLoop
<1>3. PICK h : IsRewardLoop(c, n + 1, h) /\ RewardsOfCycle(c, n + 1) = h[n + 1] /\ h[n + 1] \in Nat
  <2>1. n + 1 \in Nat
    OBVIOUS
  <2> QED BY <2>1, RewardLoop
<1>4. z[0] = c.cycleRewards
  BY <1>1 DEF IsRewardLoop, IsLoop
<1>5. h[n + 1] = RewardStep(c)[<<g[n], n + 1>>]
  <2> DEFINE zero == 0
             next == n + 1
             base == c.cycleRewards
             body == RewardStep(c)
  <2>1. zero \in Int /\ n \in Int /\ zero <= n /\ next = n + 1
    OBVIOUS
  <2>2. IsLoop(g, zero, n, base, body) /\ IsLoop(h, zero, next, base, body)
    BY <1>2, <1>3 DEF IsRewardLoop
  <2> HIDE DEF zero, next, base, body
  <2>3. GoesOn(g, h, n, next, body)
    BY <2>1, <2>2, LoopNext
  <2> QED BY <2>3 DEF GoesOn, body, next
<1>6. <<g[n], n + 1>> \in Nat \X Int
  BY <1>2
<1>7. RewardStep(c)[<<g[n], n + 1>>] = g[n] + Times(c.increase, g[n])
  BY <1>6 DEF RewardStep
<1> QED BY <1>1, <1>2, <1>3, <1>4, <1>5, <1>7

\* The reward of the second that ends at s.
SecondsReward(c, s) == RewardsOfCycle(c, (s - 1 - c.init) \div c.cycleDuration)
DueStep(c) == [p \in Nat \X Int |-> p[1] + SecondsReward(c, p[2])]
IsDueLoop(c, n, g) == IsLoop(g, c.init, n, 0, DueStep(c))

LEMMA SecondsRewardNat ==
  ASSUME NEW c \in GoodConfig, NEW s \in Nat, s > c.init
  PROVE  SecondsReward(c, s) \in Nat
<1>1. s - 1 - c.init \in Nat /\ c.cycleDuration \in Nat /\ c.cycleDuration > 0
  BY ConfigFields
<1>2. (s - 1 - c.init) \div c.cycleDuration \in Nat
  BY <1>1, DivFacts
<1> QED BY <1>2, RewardsNext DEF SecondsReward

LEMMA DueLoop ==
  ASSUME NEW c \in GoodConfig, NEW n \in Nat, c.init <= n
  PROVE  \E g : /\ IsDueLoop(c, n, g)
               /\ DueUntil(c, n) = g[n] /\ g[n] \in Nat
<1> DEFINE lo == c.init
           Table(g) == g = [k \in lo .. n |-> IF k = lo THEN 0 ELSE g[k - 1] + SecondsReward(c, k)]
           d == CHOOSE g : Table(g)
<1>1. /\ lo \in Int /\ lo \in Nat /\ n \in Int
      /\ \A k \in (lo + 1) .. n : SecondsReward(c, k) \in Nat
      /\ \A x \in Nat, k \in Int : DueStep(c)[<<x, k>>] = x + SecondsReward(c, k)
  <2>1. lo \in Nat
    BY ConfigFields
  <2>2. \A k \in (lo + 1) .. n : k \in Nat /\ k > c.init
    BY <2>1
  <2>3. \A x \in Nat, k \in Int : DueStep(c)[<<x, k>>] = x + SecondsReward(c, k)
    <3> SUFFICES ASSUME NEW x \in Nat, NEW k \in Int PROVE DueStep(c)[<<x, k>>] = x + SecondsReward(c, k)
      OBVIOUS
    <3>1. <<x, k>> \in Nat \X Int
      OBVIOUS
    <3> QED BY <3>1 DEF DueStep
  <2> QED BY <2>1, <2>2, <2>3, SecondsRewardNat
<1>2. Table(d) <=> d = [k \in lo .. n |-> IF k = lo THEN 0 ELSE d[k - 1] + SecondsReward(c, k)]
  OBVIOUS
<1>3. DueUntil(c, n) = d[n]
  BY DEF DueUntil, SecondsReward
<1>4. c.init = lo /\ lo <= n
  OBVIOUS
<1> HIDE DEF lo, d
<1>5. ASSUME NEW g, Table(g) PROVE (\A k \in lo .. n : g[k] \in Nat) /\ IsDueLoop(c, n, g)
  <2>0. g = [k \in lo .. n |-> IF k = lo THEN 0 ELSE g[k - 1] + SecondsReward(c, k)]
    BY <1>5
  <2> HIDE DEF Table
  <2>1. g[lo] \in Nat
    BY <1>1, <1>4, <2>0
  <2>2. \A k \in (lo + 1) .. n : g[k - 1] \in Nat => g[k] \in Nat
    <3> SUFFICES ASSUME NEW k \in (lo + 1) .. n, g[k - 1] \in Nat PROVE g[k] \in Nat
      OBVIOUS
    <3>1. k \in lo .. n /\ k # lo
      BY <1>1
    <3>2. g[k] = g[k - 1] + SecondsReward(c, k)
      BY <2>0, <3>1
    <3> QED BY <1>1, <3>2
  <2>3. \A k \in lo .. n : g[k] \in Nat
    BY <1>1, <2>1, <2>2, LoopInvariant
  <2>4. \A k \in lo .. n : g[k] = IF k = lo THEN 0 ELSE DueStep(c)[<<g[k - 1], k>>]
    <3> SUFFICES ASSUME NEW k \in lo .. n PROVE g[k] = IF k = lo THEN 0 ELSE DueStep(c)[<<g[k - 1], k>>]
      OBVIOUS
    <3>1. CASE k = lo
      BY <2>0, <3>1
    <3>2. CASE k # lo
      <4>1. k - 1 \in lo .. n /\ k \in Int
        BY <1>1, <3>2
      <4>2. g[k] = g[k - 1] + SecondsReward(c, k)
        BY <2>0, <3>2
      <4> QED BY <1>1, <2>3, <3>2, <4>1, <4>2
    <3> QED BY <3>1, <3>2
  <2>5. DOMAIN g = lo .. n /\ g = [k \in DOMAIN g |-> g[k]]
    BY <2>0
  <2>6. g = [k \in lo .. n |-> IF k = lo THEN 0 ELSE DueStep(c)[<<g[k - 1], k>>]]
    BY <2>4, <2>5
  <2> QED BY <1>4, <2>3, <2>6 DEF IsDueLoop, IsLoop
<1>6. \E g : Table(g)
  <2>1. PICK g : IsLoop(g, lo, n, 0, DueStep(c))
    BY <1>1, <1>4, LoopExists
  <2>2. g = [k \in lo .. n |-> IF k = lo THEN 0 ELSE DueStep(c)[<<g[k - 1], k>>]]
    BY <2>1 DEF IsLoop
  <2>3. g[lo] \in Nat
    BY <1>1, <1>4, <2>2
  <2>4. \A k \in (lo + 1) .. n : g[k - 1] \in Nat => g[k] \in Nat /\ g[k] = g[k - 1] + SecondsReward(c, k)
    <3> SUFFICES ASSUME NEW k \in (lo + 1) .. n, g[k - 1] \in Nat
                 PROVE  g[k] \in Nat /\ g[k] = g[k - 1] + SecondsReward(c, k)
      OBVIOUS
    <3>1. k \in lo .. n /\ k # lo /\ k \in Int
      BY <1>1
    <3>2. g[k] = DueStep(c)[<<g[k - 1], k>>]
      BY <2>2, <3>1
    <3> QED BY <1>1, <3>1, <3>2
  <2>5. \A k \in lo .. n : g[k] \in Nat
    <3>1. \A k \in (lo + 1) .. n : g[k - 1] \in Nat => g[k] \in Nat
      BY <2>4
    <3> QED BY <1>1, <2>3, <3>1, LoopInvariant
  <2>6. \A k \in lo .. n : g[k] = IF k = lo THEN 0 ELSE g[k - 1] + SecondsReward(c, k)
    <3> SUFFICES ASSUME NEW k \in lo .. n PROVE g[k] = IF k = lo THEN 0 ELSE g[k - 1] + SecondsReward(c, k)
      OBVIOUS
    <3>1. CASE k = lo
      BY <2>2, <3>1
    <3>2. CASE k # lo
      <4>1. k \in (lo + 1) .. n /\ k - 1 \in lo .. n
        BY <1>1, <3>2
      <4> QED BY <2>4, <2>5, <3>2, <4>1
    <3> QED BY <3>1, <3>2
  <2>7. DOMAIN g = lo .. n /\ g = [k \in DOMAIN g |-> g[k]]
    BY <2>2
  <2>8. Table(g)
    BY <2>6, <2>7
  <2> QED BY <2>8
<1>7. Table(d)
  <2> HIDE DEF Table
  <2> QED BY <1>6 DEF d
<1>8. (\A k \in lo .. n : d[k] \in Nat) /\ IsDueLoop(c, n, d)
  <2> HIDE DEF Table
  <2> QED BY <1>5, <1>7
<1>9. n \in lo .. n
  BY <1>1, <1>4
<1> QED BY <1>3, <1>8, <1>9

LEMMA DueNext ==
  ASSUME NEW c \in GoodConfig, NEW n \in Nat, c.init <= n
  PROVE  /\ DueUntil(c, c.init) = 0
         /\ DueUntil(c, n) \in Nat
         /\ DueUntil(c, n + 1) = DueUntil(c, n) + RewardsOfCycle(c, (n - c.init) \div c.cycleDuration)
<1>0. c.init \in Nat /\ c.init <= c.init /\ n + 1 \in Nat /\ c.init <= n + 1
  BY ConfigFields
<1>1. PICK z : IsDueLoop(c, c.init, z) /\ DueUntil(c, c.init) = z[c.init] /\ z[c.init] \in Nat
  BY <1>0, DueLoop
<1>2. PICK g : IsDueLoop(c, n, g) /\ DueUntil(c, n) = g[n] /\ g[n] \in Nat
  BY DueLoop
<1>3. PICK h : IsDueLoop(c, n + 1, h) /\ DueUntil(c, n + 1) = h[n + 1] /\ h[n + 1] \in Nat
  BY <1>0, DueLoop
<1>4. z[c.init] = 0
  BY <1>0, <1>1 DEF IsDueLoop, IsLoop
<1>5. h[n + 1] = DueStep(c)[<<g[n], n + 1>>]
  <2> DEFINE lo == c.init
             next == n + 1
             base == 0
             body == DueStep(c)
  <2>1. lo \in Int /\ n \in Int /\ lo <= n /\ next = n + 1
    BY <1>0
  <2>2. IsLoop(g, lo, n, base, body) /\ IsLoop(h, lo, next, base, body)
    BY <1>2, <1>3 DEF IsDueLoop
  <2> HIDE DEF lo, next, base, body
  <2>3. GoesOn(g, h, n, next, body)
    BY <2>1, <2>2, LoopNext
  <2> QED BY <2>3 DEF GoesOn, body, next
<1>6. <<g[n], n + 1>> \in Nat \X Int
  BY <1>2
<1>7. DueStep(c)[<<g[n], n + 1>>] = g[n] + SecondsReward(c, n + 1)
  BY <1>6 DEF DueStep
<1>8. SecondsReward(c, n + 1) = RewardsOfCycle(c, (n - c.init) \div c.cycleDuration)
  <2>1. (n + 1) - 1 - c.init = n - c.init
    BY <1>0
  <2> QED BY <2>1 DEF SecondsReward
<1> QED BY <1>1, <1>2, <1>3, <1>4, <1>5, <1>7, <1>8

LEMMA CycleStarts ==
  ASSUME NEW c \in GoodConfig, NEW k \in Nat
  PROVE  /\ CycleStart(c, k) \in Nat /\ c.init <= CycleStart(c, k) /\ CycleStart(c, 0) = c.init
         /\ CycleStart(c, k + 1) = CycleStart(c, k) + c.cycleDuration
         /\ \A j \in Nat : j <= k => CycleStart(c, j) <= CycleStart(c, k)
<1> DEFINE d == c.cycleDuration
           i == c.init
<1>1. i \in Nat /\ d \in Nat /\ \A j : CycleStart(c, j) = i + j * d
  BY ConfigFields DEF CycleStart
<1> HIDE DEF d, i
<1>2. k * d \in Nat /\ (k + 1) * d = k * d + d /\ 0 * d = 0
  BY <1>1, SMTT(30)
<1>3. \A j \in Nat : j <= k => j * d <= k * d /\ j * d \in Nat
  BY <1>1, SMTT(30)
<1>4. CycleStart(c, k + 1) = CycleStart(c, k) + d
  <2>1. CycleStart(c, k + 1) = i + (k * d + d) /\ CycleStart(c, k) = i + k * d
    BY <1>1, <1>2
  <2> DEFINE p == k * d
  <2>2. p \in Nat
    BY <1>2
  <2> HIDE DEF p
  <2>3. i + (p + d) = i + p + d
    BY <1>1, <2>2
  <2> QED BY <2>1, <2>3 DEF p
<1>5. ASSUME NEW j \in Nat, j <= k PROVE CycleStart(c, j) <= CycleStart(c, k)
  <2> DEFINE p == j * d
             q == k * d
  <2>1. p <= q /\ p \in Nat /\ q \in Nat /\ CycleStart(c, j) = i + p /\ CycleStart(c, k) = i + q
    BY <1>1, <1>2, <1>3, <1>5
  <2> HIDE DEF p, q
  <2> QED BY <1>1, <2>1
<1>6. CycleStart(c, k) \in Nat /\ i <= CycleStart(c, k) /\ CycleStart(c, 0) = i
  <2> DEFINE p == k * d
  <2>1. p \in Nat /\ CycleStart(c, k) = i + p /\ CycleStart(c, 0) = i + 0
    BY <1>1, <1>2
  <2> HIDE DEF p
  <2> QED BY <1>1, <2>1
<1> QED BY <1>4, <1>5, <1>6 DEF d, i

\* The cycle a second belongs to.
LEMMA CycleOf ==
  ASSUME NEW c \in GoodConfig, NEW x \in Nat, c.init <= x, NEW k \in Nat
  PROVE  (x - c.init) \div c.cycleDuration = k <=> CycleStart(c, k) <= x /\ x < CycleStart(c, k + 1)
<1> DEFINE d == c.cycleDuration
           i == c.init
           p == k * d
           y == x - i
<1>1. i \in Nat /\ d \in Nat /\ d > 0 /\ y \in Nat /\ y = x - i /\ i <= x
  BY ConfigFields
<1>2. CycleStart(c, k) = i + p /\ CycleStart(c, k + 1) = CycleStart(c, k) + d
  BY CycleStarts DEF CycleStart
<1>3. p \in Nat
  <2> HIDE DEF d
  <2> QED BY <1>1, SMTT(30)
<1>4. y \div d = k <=> p <= y /\ y < p + d
  <2> HIDE DEF d, y
  <2> QED BY <1>1, DivUnique DEF p
<1>5. (p <= y /\ y < p + d) <=> (CycleStart(c, k) <= x /\ x < CycleStart(c, k + 1))
  <2> HIDE DEF p, d, y, i
  <2> QED BY <1>1, <1>2, <1>3
<1> QED BY <1>4, <1>5

\* Within a cycle every second is due the same.
LEMMA DueSpan ==
  ASSUME NEW c \in GoodConfig, NEW k \in Nat, NEW a \in Nat, NEW b \in Nat,
         CycleStart(c, k) <= a, a <= b, b <= CycleStart(c, k + 1)
  PROVE  DueUntil(c, b) = DueUntil(c, a) + (b - a) * RewardsOfCycle(c, k)
<1> DEFINE R == RewardsOfCycle(c, k)
           D0 == DueUntil(c, a)
           T == {x \in a .. b : DueUntil(c, x) = D0 + (x - a) * R}
<1>1. c.init <= a /\ c.init \in Nat /\ CycleStart(c, k) \in Nat /\ CycleStart(c, k + 1) \in Nat
  <2>1. k + 1 \in Nat /\ c.init \in Nat /\ c.init <= CycleStart(c, k) /\ CycleStart(c, k) \in Nat
    BY CycleStarts, ConfigFields
  <2>2. CycleStart(c, k + 1) \in Nat
    BY <2>1, CycleStarts
  <2> QED BY <2>1, <2>2
<1>2. R \in Nat /\ D0 \in Nat
  BY <1>1, RewardsNext, DueNext
<1> HIDE DEF R
<1>3. a \in T
  <2>1. (a - a) * R = 0
    BY <1>2, SMTT(30)
  <2> HIDE DEF D0
  <2>2. D0 + (a - a) * R = D0
    BY <1>2, <2>1
  <2> QED BY <2>2 DEF D0
<1> HIDE DEF D0
<1>4. ASSUME NEW x \in (a + 1) .. b, x - 1 \in T PROVE x \in T
  <2> DEFINE y == x - 1
  <2>1. y \in Nat /\ x = y + 1 /\ c.init <= y /\ CycleStart(c, k) <= y /\ y < CycleStart(c, k + 1) /\ x \in a .. b
        /\ a <= y
    BY <1>1
  <2> HIDE DEF y
  <2>2. (y - c.init) \div c.cycleDuration = k
    BY <2>1, CycleOf
  <2>3. DueUntil(c, y + 1) = DueUntil(c, y) + R
    BY <2>1, <2>2, DueNext DEF R
  <2>4. DueUntil(c, y) = D0 + (y - a) * R
    BY <1>4 DEF y
  <2> DEFINE p == (y - a) * R
  <2>5. (x - a) * R = p + R /\ p \in Nat
    <3>1. y - a \in Nat /\ x - a = (y - a) + 1
      BY <2>1
    <3> DEFINE z == y - a
    <3>2. z \in Nat /\ (z + 1) * R = z * R + R /\ z * R \in Nat
      BY <1>2, <3>1, SMTT(30)
    <3> QED BY <3>1, <3>2
  <2>6. DueUntil(c, x) = D0 + (x - a) * R
    <3>1. DueUntil(c, x) = (D0 + p) + R
      BY <2>1, <2>3, <2>4
    <3> HIDE DEF p
    <3>2. (D0 + p) + R = D0 + (p + R)
      BY <1>2, <2>5
    <3> QED BY <2>5, <3>1, <3>2
  <2> QED BY <2>1, <2>6
<1> HIDE DEF T
<1>5. b \in T
  <2>1. \A x \in (a + 1) .. b : x - 1 \in T => x \in T
    BY <1>4
  <2>2. a \in Int /\ b \in Int /\ b \in a .. b
    OBVIOUS
  <2> QED BY <1>3, <2>1, <2>2, UpTo
<1> QED BY <1>5 DEF T, D0, R

\* What m seconds of a cycle release, at the cycle's truncated rate.
LEMMA SpanReleased ==
  ASSUME NEW R \in Nat, NEW d \in Nat, d > 0, NEW m \in Nat
  PROVE  /\ Times(FromRatio(R, d), m) \in Nat
         /\ Times(FromRatio(R, d), m) * d <= m * R
         /\ R % d = 0 => Times(FromRatio(R, d), m) * d = m * R
<1> DEFINE x == FromRatio(R, d)
           r == Times(x, m)
           one == DecimalOne
<1>1. one \in Nat /\ one > 0
  BY DecimalAssumption
<1>2. x \in Nat /\ d * x <= R * one
  BY RatioFacts
<1> HIDE DEF x
<1>3. r \in Nat /\ r * one <= x * m
  BY <1>2, TimesFacts
<1> HIDE DEF r
<1>4. r * d <= m * R
  <2>1. \A a, b, e \in Nat : a <= b => a * e <= b * e
    BY SMTT(30)
  <2>2. r * one \in Nat /\ x * m \in Nat /\ d * x \in Nat /\ R * one \in Nat /\ r * d \in Nat /\ m * R \in Nat
    BY <1>1, <1>2, <1>3, SMTT(30)
  <2>3. (r * one) * d <= (x * m) * d /\ (d * x) * m <= (R * one) * m
    BY <1>2, <1>3, <2>1, <2>2
  <2>4. (r * one) * d = (r * d) * one /\ (x * m) * d = (d * x) * m /\ (R * one) * m = (m * R) * one
    BY <1>1, <1>2, <1>3, SMTT(30)
  <2> DEFINE u == r * d
             v == m * R
             w == (d * x) * m
  <2>5. w \in Nat /\ u * one \in Nat /\ v * one \in Nat
    BY <1>1, <2>2, SMTT(30)
  <2>6. u * one <= w /\ w <= v * one
    BY <2>3, <2>4
  <2> HIDE DEF u, v, w
  <2>7. u * one <= v * one
    <3> DEFINE f == u * one
               g == v * one
    <3>1. f <= w /\ w <= g /\ f \in Nat /\ g \in Nat
      BY <2>5, <2>6
    <3> HIDE DEF f, g
    <3>2. f <= g
      BY <2>5, <3>1
    <3> QED BY <3>2 DEF f, g
  <2>8. u \in Nat /\ v \in Nat
    BY <2>2 DEF u, v
  <2>9. u <= v
    BY <1>1, <2>7, <2>8, SMTT(30)
  <2> QED BY <2>9 DEF u, v
<1>5. ASSUME R % d = 0 PROVE r * d = m * R
  <2> DEFINE q == R \div d
  <2>1. q \in Nat /\ R = q * d
    <3>1. R = d * q + (R % d) /\ q \in Int
      BY SMTT(30)
    <3>2. q \in Nat
      BY DivFacts
    <3> HIDE DEF q
    <3>3. d * q = q * d /\ d * q \in Int
      BY <3>1, SMTT(30)
    <3> QED BY <1>5, <3>1, <3>2, <3>3
  <2> HIDE DEF q
  <2>2. q * one \in Nat /\ R * one = (q * one) * d /\ q * m \in Nat /\ (q * one) * m = (q * m) * one
    BY <1>1, <2>1, SMTT(30)
  <2>3. x = q * one
    <3>1. x = (R * one) \div d
      BY DEF x, FromRatio
    <3> DEFINE a == q * one
    <3>2. a \in Nat /\ x = (a * d) \div d
      BY <2>2, <3>1
    <3> HIDE DEF a
    <3>3. x = a
      BY <3>2, DivExact
    <3> QED BY <3>3 DEF a
  <2>4. r = q * m
    <3>1. r = (x * m) \div one
      BY DEF r, Times
    <3> DEFINE a == q * m
    <3>2. a \in Nat /\ r = (a * one) \div one
      BY <2>2, <2>3, <3>1
    <3> HIDE DEF a, one
    <3>3. r = a
      BY <1>1, <3>2, DivExact
    <3> QED BY <3>3 DEF a
  <2>5. (q * m) * d = m * (q * d)
    BY <2>1, SMTT(30)
  <2> QED BY <2>1, <2>4, <2>5
<1> QED BY <1>3, <1>4, <1>5 DEF r, x

\* The second up to which there is something to give out lies in the current cycle.
LEMMA CurrentCycle ==
  ASSUME NEW c \in GoodConfig, NEW n \in Nat, c.init <= n
  PROVE  /\ Earlier(n, c.till) \in Nat /\ c.init <= Earlier(n, c.till)
         /\ CycleStart(c, CyclesElapsed(c, n)) <= Earlier(n, c.till)
         /\ Earlier(n, c.till) < CycleStart(c, CyclesElapsed(c, n) + 1)
         /\ CyclesElapsed(c, n) <= CyclesElapsed(c, c.till)
<1> DEFINE lim == Earlier(n, c.till)
           i == c.init
           d == c.cycleDuration
           k == CyclesElapsed(c, n)
           last == CyclesElapsed(c, c.till)
           u == c.till - i
           v == n - i
<1>1. i \in Nat /\ c.till \in Nat /\ i < c.till /\ d \in Nat /\ d > 0 /\ k \in Nat
  BY ConfigFields, CyclesFacts
<1>2. lim \in Nat /\ i <= lim /\ lim <= c.till /\ u \in Nat /\ v \in Nat
  BY <1>1 DEF Earlier
<1>3. u \div d \in Nat /\ v \div d \in Nat /\ (u <= v => u \div d <= v \div d)
      /\ (v <= u => v \div d <= u \div d)
  <2> HIDE DEF u, v, d
  <2> QED BY <1>1, <1>2, DivFacts, DivMonotone
<1>4. v = 0 => v \div d = 0
  <2>1. v = 0 => d * (v \div d) <= 0
    <3> HIDE DEF v, d
    <3> QED BY <1>1, <1>2, DivFacts
  <2> DEFINE q == v \div d
  <2>2. q \in Nat
    BY <1>3
  <2> HIDE DEF q
  <2>3. q > 0 => d * q > 0
    BY <1>1, <2>2, SMTT(30)
  <2>4. v = 0 => d * q <= 0
    BY <2>1 DEF q
  <2>5. d * q \in Nat
    BY <1>1, <2>2, SMTT(30)
  <2>6. v = 0 => q = 0
    BY <2>2, <2>3, <2>4, <2>5
  <2> QED BY <2>6 DEF q
<1>5. last = u \div d
  <2>1. last = IF i >= c.till THEN 0 ELSE Earlier(u \div d, u \div d)
    BY DEF CyclesElapsed
  <2> HIDE DEF u, d
  <2> QED BY <1>1, <2>1 DEF Earlier
<1>6. k = IF i >= n THEN 0 ELSE Earlier(u \div d, v \div d)
  BY DEF CyclesElapsed
<1>7. k = (lim - i) \div d /\ k <= last
  <2> DEFINE p == u \div d
             q == v \div d
  <2>1. /\ p \in Nat /\ q \in Nat /\ (u <= v => p <= q) /\ (v <= u => q <= p) /\ (v = 0 => q = 0)
        /\ last = p /\ k = IF i >= n THEN 0 ELSE Earlier(p, q)
    BY <1>3, <1>4, <1>5, <1>6
  <2>2. CASE n <= c.till
    <3>1. lim = n
      BY <2>2 DEF Earlier
    <3>2. (lim - i) \div d = q /\ v <= u /\ (i >= n => v = 0)
      BY <1>1, <2>2, <3>1
    <3> HIDE DEF p, q, u, v, lim, k, last
    <3> QED BY <1>1, <2>1, <3>2 DEF Earlier
  <2>3. CASE ~(n <= c.till)
    <3>1. lim = c.till
      BY <2>3 DEF Earlier
    <3>2. (lim - i) \div d = p /\ u <= v /\ ~(i >= n)
      BY <1>1, <2>3, <3>1
    <3> HIDE DEF p, q, u, v, lim, k, last
    <3> QED BY <1>1, <2>1, <3>2 DEF Earlier
  <2> QED BY <2>2, <2>3
<1>8. CycleStart(c, k) <= lim /\ lim < CycleStart(c, k + 1)
  <2> HIDE DEF lim, k
  <2> QED BY <1>1, <1>2, <1>7, CycleOf
<1> QED BY <1>2, <1>7, <1>8

\* What is given out for a span within a cycle, beside what is due for it.
LEMMA SpanDistributed ==
  ASSUME NEW c \in GoodConfig, NEW k \in Nat, NEW a \in Nat, NEW b \in Nat,
         CycleStart(c, k) <= a, a <= b, b <= CycleStart(c, k + 1),
         NEW x, x = DistributedForCycle(FromRatio(RewardsOfCycle(c, k), c.cycleDuration), a, b)
  PROVE  /\ x \in Nat /\ DueUntil(c, a) \in Nat /\ DueUntil(c, b) \in Nat
         /\ x * c.cycleDuration + DueUntil(c, a) <= DueUntil(c, b)
         /\ RewardsOfCycle(c, k) % c.cycleDuration = 0 =>
              x * c.cycleDuration + DueUntil(c, a) = DueUntil(c, b)
<1> DEFINE R == RewardsOfCycle(c, k)
           d == c.cycleDuration
           m == b - a
           A == DueUntil(c, a)
           B == DueUntil(c, b)
           e == m * R
<1>1. R \in Nat /\ d \in Nat /\ d > 0 /\ m \in Nat
  BY RewardsNext, ConfigFields
<1>2. A \in Nat /\ B \in Nat
  <2>1. c.init \in Nat /\ CycleStart(c, k) \in Nat /\ c.init <= CycleStart(c, k)
    BY CycleStarts, ConfigFields
  <2>2. c.init <= a /\ c.init <= b
    BY <2>1
  <2> QED BY <2>2, DueNext
<1>3. B = A + e
  BY DueSpan
<1>4. e \in Nat
  <2> HIDE DEF m, R
  <2> QED BY <1>1, SMTT(30)
<1>5. x \in Nat /\ x * d <= e /\ (R % d = 0 => x * d = e) /\ x * d \in Nat
  <2>1. CASE b <= a
    <3>1. x = 0
      BY <2>1 DEF DistributedForCycle
    <3>2. e = 0
      <4>1. m = 0
        BY <2>1
      <4>2. 0 * R = 0
        <5> HIDE DEF R
        <5> QED BY <1>1, SMTT(30)
      <4> QED BY <4>1, <4>2
    <3>3. x * d = 0
      <4> HIDE DEF d
      <4> QED BY <1>1, <3>1, SMTT(30)
    <3> HIDE DEF e, R, d
    <3> QED BY <3>1, <3>2, <3>3
  <2>2. CASE ~(b <= a)
    <3>1. x = Times(FromRatio(R, d), m)
      BY <2>2 DEF DistributedForCycle
    <3> HIDE DEF R, d, m
    <3>2. x \in Nat /\ x * d <= m * R /\ (R % d = 0 => x * d = m * R)
      BY <1>1, <3>1, SpanReleased
    <3>3. x * d \in Nat
      BY <1>1, <3>2, SMTT(30)
    <3> QED BY <3>2, <3>3
  <2> QED BY <2>1, <2>2
<1> DEFINE y == x * d
<1>6. x \in Nat /\ y \in Nat /\ y <= e /\ (R % d = 0 => y = e)
  BY <1>5
<1> DEFINE exact == R % d = 0
<1>7. y + A <= B /\ (exact => y + A = B)
  <2>1. exact => y = e
    BY <1>6
  <2> HIDE DEF y, e, A, B, exact
  <2> QED BY <1>2, <1>3, <1>4, <1>6, <2>1
<1> QED BY <1>2, <1>6, <1>7

\* What the loop has reached with b after cycle k: every cycle before is given
\* out to its end, and the next one is to begin at its own rate.
Reached(c, n, s, b, k) ==
  LET current == CyclesElapsed(c, n)
  IN  /\ s.lastDistributed <= b.last /\ b.last <= Earlier(n, c.till)
      /\ k < current => /\ b.cycleRewards = RewardsOfCycle(c, k + 1)
                        /\ CycleStart(c, k + 1) <= b.last /\ b.last <= CycleStart(c, k + 2)
      /\ k = current => /\ b.cycleRewards = RewardsOfCycle(c, current)
                        /\ b.last = Earlier(n, c.till)
      /\ b.rewards * c.cycleDuration + DueUntil(c, s.lastDistributed) <= DueUntil(c, b.last)
      /\ NoRounding(c) =>
           b.rewards * c.cycleDuration + DueUntil(c, s.lastDistributed) = DueUntil(c, b.last)

LEMMA CycleReached ==
  ASSUME NEW c \in GoodConfig, NEW s \in AllocationState, NEW n \in Nat, c.init <= n,
         c.init <= s.lastDistributed, NEW b \in LoopState, NEW k \in Nat, k <= CyclesElapsed(c, n),
         Reached(c, n, s, b, k - 1), OneCycle(c, n, CyclesElapsed(c, n), b, k) \in LoopState
  PROVE  Reached(c, n, s, OneCycle(c, n, CyclesElapsed(c, n), b, k), k)
<1> DEFINE current == CyclesElapsed(c, n)
           lim == Earlier(n, c.till)
           end == CycleEnd(c, n, k)
           q == OneCycle(c, n, current, b, k)
           R == RewardsOfCycle(c, k)
           d == c.cycleDuration
           x == DistributedForCycle(FromRatio(R, d), b.last, end)
<1>1. /\ current \in Nat /\ lim \in Nat /\ c.init \in Nat /\ s.lastDistributed \in Nat /\ c.till \in Nat
      /\ b.last \in Nat /\ b.rewards \in Nat /\ b.cycleRewards \in Nat /\ d \in Nat
      /\ CycleStart(c, current) <= lim /\ lim < CycleStart(c, current + 1)
      /\ current <= CyclesElapsed(c, c.till) /\ CyclesElapsed(c, c.till) \in Nat
  BY CurrentCycle, ConfigFields, CyclesFacts DEF AllocationState, LoopState
<1>2. /\ s.lastDistributed <= b.last /\ b.last <= lim /\ c.init <= b.last
      /\ b.cycleRewards = R
      /\ CycleStart(c, k) <= b.last /\ b.last <= CycleStart(c, k + 1)
  <2>1. (k - 1) + 1 = k /\ (k - 1) + 2 = k + 1 /\ k - 1 < current
    BY <1>1
  <2>2. s.lastDistributed <= b.last /\ b.last <= lim
    BY DEF Reached
  <2>3. b.cycleRewards = R /\ CycleStart(c, k) <= b.last /\ b.last <= CycleStart(c, k + 1)
    <3> HIDE DEF current
    <3>1. /\ b.cycleRewards = RewardsOfCycle(c, (k - 1) + 1)
          /\ CycleStart(c, (k - 1) + 1) <= b.last /\ b.last <= CycleStart(c, (k - 1) + 2)
      BY <2>1 DEF Reached, current
    <3> QED BY <2>1, <3>1
  <2>4. c.init <= b.last
    <3> HIDE DEF lim
    <3> QED BY <1>1, <2>2
  <2> QED BY <2>2, <2>3, <2>4
<1>3. /\ CycleStart(c, k) \in Nat /\ CycleStart(c, k + 1) \in Nat /\ CycleStart(c, k + 2) \in Nat
      /\ CycleStart(c, k + 1) <= CycleStart(c, k + 2)
      /\ k < current => CycleStart(c, k + 1) <= CycleStart(c, current)
      /\ CycleStart(c, current) \in Nat /\ CycleStart(c, current + 1) \in Nat
  <2>1. k + 1 \in Nat /\ k + 2 \in Nat /\ k + 2 = (k + 1) + 1 /\ current + 1 \in Nat
        /\ (k < current => k + 1 <= current)
    BY <1>1
  <2> HIDE DEF current
  <2>2. CycleStart(c, k) \in Nat /\ CycleStart(c, current) \in Nat /\ CycleStart(c, current + 1) \in Nat
    BY <1>1, <2>1, CycleStarts
  <2>3. CycleStart(c, k + 1) \in Nat /\ CycleStart(c, k + 2) \in Nat
    BY <2>1, CycleStarts
  <2>4. CycleStart(c, (k + 1) + 1) = CycleStart(c, k + 1) + d
    BY <2>1, CycleStarts
  <2>5. CycleStart(c, k + 1) <= CycleStart(c, k + 2)
    <3> HIDE DEF d
    <3> QED BY <1>1, <2>1, <2>3, <2>4
  <2>6. k < current => CycleStart(c, k + 1) <= CycleStart(c, current)
    BY <1>1, <2>1, CycleStarts
  <2> QED BY <2>2, <2>3, <2>5, <2>6
<1>4. end = Earlier(lim, CycleStart(c, k + 1))
  <2>1. end = Earlier(n, Earlier(c.till, CycleStart(c, k + 1)))
    BY DEF CycleEnd
  <2> DEFINE e == CycleStart(c, k + 1)
  <2>2. e \in Nat
    BY <1>3
  <2> HIDE DEF e
  <2>3. Earlier(n, Earlier(c.till, e)) = Earlier(Earlier(n, c.till), e)
    BY <1>1, <2>2 DEF Earlier
  <2> QED BY <2>1, <2>3 DEF e
<1>5. /\ end \in Nat /\ b.last <= end /\ end <= CycleStart(c, k + 1) /\ end <= lim
      /\ k < current => end = CycleStart(c, k + 1)
      /\ k = current => end = lim
  <2> DEFINE e == CycleStart(c, k + 1)
             f == CycleStart(c, current)
             h == CycleStart(c, current + 1)
  <2>1. /\ e \in Nat /\ f \in Nat /\ h \in Nat /\ b.last <= e /\ f <= lim /\ lim < h
        /\ (k < current => e <= f) /\ (k = current => e = h) /\ end = Earlier(lim, e)
    BY <1>1, <1>2, <1>3, <1>4
  <2> HIDE DEF e, f, h, end, lim, current
  <2>2. end \in Nat /\ b.last <= end /\ end <= e /\ end <= lim
    BY <1>1, <1>2, <2>1 DEF Earlier
  <2>3. (k < current => end = e) /\ (k = current => end = lim)
    BY <1>1, <2>1 DEF Earlier
  <2> QED BY <2>2, <2>3 DEF e
<1>6. Later(b.last, c.init) = b.last
  BY <1>1, <1>2 DEF Later
<1>7. /\ q.rewards = b.rewards + x /\ q.last = end
      /\ q.cycleRewards = CycleRewards(R, c.increase, k = current)
  BY <1>2, <1>6 DEF OneCycle
<1>8. /\ k < current => q.cycleRewards = RewardsOfCycle(c, k + 1)
      /\ k = current => q.cycleRewards = RewardsOfCycle(c, current)
  <2>1. RewardsOfCycle(c, k + 1) = R + Times(c.increase, R)
    BY RewardsNext
  <2>2. (k < current) => ~(k = current)
    BY <1>1
  <2> QED BY <1>7, <2>1, <2>2 DEF CycleRewards
<1> DEFINE A == DueUntil(c, b.last)
           B == DueUntil(c, end)
           S == DueUntil(c, s.lastDistributed)
<1>9. /\ x \in Nat /\ A \in Nat /\ B \in Nat /\ x * d + A <= B /\ (R % d = 0 => x * d + A = B)
  <2> HIDE DEF end
  <2> QED BY <1>1, <1>2, <1>3, <1>5, SpanDistributed
<1>10. NoRounding(c) => R % d = 0
  <2>1. k \in 0 .. CyclesElapsed(c, c.till)
    BY <1>1
  <2> QED BY <2>1 DEF NoRounding
<1>11. S \in Nat
  BY <1>1, DueNext
<1>12. b.rewards * d + S <= A /\ (NoRounding(c) => b.rewards * d + S = A)
  BY DEF Reached
<1>13. q.rewards * d + S <= B /\ (NoRounding(c) => q.rewards * d + S = B)
  <2> HIDE DEF x, d, A, B, S, R, q
  <2> DEFINE y == x * d
             z == b.rewards * d
             w == q.rewards * d
             exact == NoRounding(c)
  <2>1. w = z + y /\ y \in Nat /\ z \in Nat
    <3>1. (b.rewards + x) * d = b.rewards * d + x * d /\ x * d \in Nat /\ b.rewards * d \in Nat
      BY <1>1, <1>9, SMTT(30)
    <3> QED BY <1>7, <3>1
  <2>2. y + A <= B /\ z + S <= A /\ (exact => y + A = B) /\ (exact => z + S = A)
    BY <1>9, <1>10, <1>12
  <2> HIDE DEF y, z, w, exact
  <2>3. w + S <= B /\ (exact => w + S = B)
    BY <1>9, <1>11, <2>1, <2>2
  <2> QED BY <2>3 DEF w, exact
<1>14. s.lastDistributed <= end
  <2> HIDE DEF end, lim
  <2> QED BY <1>1, <1>2, <1>5
<1>15. k < current => CycleStart(c, k + 1) <= end /\ end <= CycleStart(c, k + 2)
  <2> HIDE DEF end, current
  <2> QED BY <1>3, <1>5
<1> HIDE DEF end, lim, x, d, R, A, q
<1> QED BY <1>5, <1>7, <1>8, <1>13, <1>14, <1>15 DEF Reached, current, lim, q, B, S, d

\* An allocation that has released p is where its schedule has it, at the time
\* of its last distribution, and goes on at the rate of the cycle it is in.
OnTrack(c, s, p, at) ==
  /\ c.init <= s.lastDistributed /\ s.lastDistributed <= c.till
  /\ s.lastDistributed <= Later(at, c.init)
  /\ s.lastDistributed # c.till =>
       /\ CycleStart(c, s.currentCycle) <= s.lastDistributed
       /\ s.lastDistributed < CycleStart(c, s.currentCycle + 1)
       /\ s.currentCycleRewards = RewardsOfCycle(c, s.currentCycle)
  /\ p * c.cycleDuration <= DueUntil(c, s.lastDistributed)
  /\ NoRounding(c) => p * c.cycleDuration = DueUntil(c, s.lastDistributed)

\* However many cycles a distribution covers, it leaves the allocation on track.
LEMMA DistributionOnTrack ==
  ASSUME NEW c \in GoodConfig, NEW s \in AllocationState, NEW n \in Nat, c.init <= n,
         s.currentCycle <= CyclesElapsed(c, n), s.lastDistributed # c.till,
         NEW p \in Nat, OnTrack(c, s, p, n)
  PROVE  OnTrack(c, Distribution(c, s, n).state, p + Distribution(c, s, n).rewards, n)
<1> DEFINE current == CyclesElapsed(c, n)
           lim == Earlier(n, c.till)
           first == s.currentCycle
           lo == first - 1
           d == c.cycleDuration
           S == DueUntil(c, s.lastDistributed)
<1>1. /\ current \in Nat /\ lim \in Nat /\ c.init \in Nat /\ s.lastDistributed \in Nat /\ c.till \in Nat
      /\ first \in Nat /\ s.currentCycleRewards \in Nat /\ d \in Nat
      /\ CycleStart(c, current) <= lim /\ lim < CycleStart(c, current + 1)
      /\ c.init <= lim /\ lim <= c.till /\ lim <= n
  <2>1. c.init \in Nat /\ c.till \in Nat /\ c.cycleDuration \in Nat /\ lim <= c.till /\ lim <= n
    BY ConfigFields DEF Earlier
  <2> QED BY <2>1, CurrentCycle, CyclesFacts DEF AllocationState
<1>2. /\ c.init <= s.lastDistributed /\ s.lastDistributed <= lim
      /\ CycleStart(c, first) <= s.lastDistributed /\ s.lastDistributed < CycleStart(c, first + 1)
      /\ s.currentCycleRewards = RewardsOfCycle(c, first)
      /\ p * d <= S /\ (NoRounding(c) => p * d = S)
  <2>1. c.init <= s.lastDistributed /\ s.lastDistributed <= c.till /\ s.lastDistributed <= Later(n, c.init)
    BY DEF OnTrack
  <2>2. s.lastDistributed <= lim
    BY <1>1, <2>1 DEF Earlier, Later
  <2> QED BY <2>1, <2>2 DEF OnTrack
<1>3. S \in Nat
  BY <1>1, <1>2, DueNext
<1>4. PICK g : IsRun(c, s, n, g)
  BY DistributionIs
<1>5. g = [k \in lo .. current |-> IF k = lo THEN FirstState(s) ELSE OneCycle(c, n, current, g[k - 1], k)]
      /\ (\A k \in lo .. current : g[k] \in LoopState)
      /\ Distribution(c, s, n) = DistributionOf(c, n, g)
  BY <1>4 DEF IsRun, IsDistribution
<1>6. lo \in Int /\ current \in Int /\ lo + 1 = first /\ lo + 2 = first + 1 /\ lo < current
  BY <1>1
<1> DEFINE T == {k \in lo .. current : Reached(c, n, s, g[k], k)}
<1>7. lo \in T
  <2>1. g[lo] = FirstState(s)
    <3> HIDE DEF lo, current
    <3> QED BY <1>5, <1>6
  <2> DEFINE b == g[lo]
  <2>2. b.rewards = 0 /\ b.cycleRewards = RewardsOfCycle(c, first) /\ b.last = s.lastDistributed
    BY <1>2, <2>1 DEF FirstState
  <2>3. 0 * d = 0
    <3> HIDE DEF d
    <3> QED BY <1>1, SMTT(30)
  <2>4. b.rewards * d + S = S
    <3> HIDE DEF S
    <3> QED BY <1>3, <2>2, <2>3
  <2>5. CycleStart(c, lo + 1) <= b.last /\ b.last <= CycleStart(c, lo + 2)
        /\ b.cycleRewards = RewardsOfCycle(c, lo + 1)
    <3>1. CycleStart(c, first + 1) \in Nat
      <4>1. first + 1 \in Nat
        BY <1>1
      <4> HIDE DEF first
      <4> QED BY <4>1, CycleStarts
    <3> HIDE DEF b
    <3> QED BY <1>1, <1>2, <1>6, <2>2, <3>1
  <2>6. s.lastDistributed <= b.last /\ b.last <= lim
    <3> HIDE DEF b, lim
    <3> QED BY <1>1, <1>2, <2>2
  <2>7. S = DueUntil(c, b.last) /\ S <= S
    BY <1>3, <2>2
  <2>8. ~(lo = current)
    BY <1>6
  <2> HIDE DEF b, lo, S
  <2>9. Reached(c, n, s, b, lo)
    BY <2>4, <2>5, <2>6, <2>7, <2>8 DEF Reached, S
  <2> QED BY <1>6, <2>9 DEF b
<1>8. ASSUME NEW k \in (lo + 1) .. current, k - 1 \in T PROVE k \in T
  <2> DEFINE b == g[k - 1]
  <2>1. k \in Nat /\ k <= current /\ k # lo /\ k \in lo .. current /\ k - 1 \in lo .. current
    BY <1>1, <1>6
  <2>2. g[k] = OneCycle(c, n, current, b, k)
    <3> HIDE DEF lo, current
    <3> QED BY <1>5, <2>1
  <2>3. b \in LoopState /\ g[k] \in LoopState /\ Reached(c, n, s, b, k - 1)
    BY <1>5, <1>8, <2>1
  <2> HIDE DEF b
  <2>4. Reached(c, n, s, OneCycle(c, n, current, b, k), k)
    BY <1>1, <1>2, <2>1, <2>2, <2>3, CycleReached
  <2> QED BY <2>1, <2>2, <2>4
<1>9. Reached(c, n, s, g[current], current) /\ g[current] \in LoopState
  <2>1. current \in lo .. current
    BY <1>6
  <2> HIDE DEF T, lo, current
  <2>2. \A k \in (lo + 1) .. current : k - 1 \in T => k \in T
    BY <1>8
  <2>3. current \in T
    BY <1>6, <1>7, <2>1, <2>2, UpTo
  <2> QED BY <1>5, <2>1, <2>3 DEF T
<1> DEFINE b == g[current]
           q == Distribution(c, s, n)
           B == DueUntil(c, b.last)
<1>10. /\ q.rewards = b.rewards /\ q.state.currentCycle = current /\ q.state.lastDistributed = b.last
       /\ b.last # c.till => q.state.currentCycleRewards = b.cycleRewards
       /\ b.rewards \in Nat
  BY <1>5, <1>9 DEF DistributionOf, LoopState
<1>11. b.last = lim /\ b.cycleRewards = RewardsOfCycle(c, current)
       /\ b.rewards * d + S <= B /\ (NoRounding(c) => b.rewards * d + S = B)
  BY <1>9 DEF Reached
<1>12. B \in Nat
  BY <1>1, <1>11, DueNext
<1> HIDE DEF q, b
<1>13. (p + q.rewards) * d <= B /\ (NoRounding(c) => (p + q.rewards) * d = B)
  <2> HIDE DEF d, S, B
  <2> DEFINE y == p * d
             z == b.rewards * d
             w == (p + q.rewards) * d
             exact == NoRounding(c)
  <2>1. w = y + z /\ y \in Nat /\ z \in Nat
    <3>1. (p + b.rewards) * d = p * d + b.rewards * d /\ p * d \in Nat /\ b.rewards * d \in Nat
      BY <1>1, <1>10, SMTT(30)
    <3> QED BY <1>10, <3>1
  <2>2. y <= S /\ z + S <= B /\ (exact => y = S) /\ (exact => z + S = B)
    BY <1>2, <1>11
  <2> HIDE DEF y, z, w, exact
  <2>3. w <= B /\ (exact => w = B)
    BY <1>3, <1>12, <2>1, <2>2
  <2> QED BY <2>3 DEF w, exact
<1>14. lim <= Later(n, c.init)
  <2> HIDE DEF lim
  <2> QED BY <1>1 DEF Later
<1> HIDE DEF lim, d, B, current
<1> QED BY <1>1, <1>10, <1>11, <1>13, <1>14 DEF OnTrack, q, B, d

(***************************************************************************)
(* The staking contract: indexes and what they owe.                        *)
(***************************************************************************)

OpenRecord == [index : Nat, previous : Nat]
AllocatedRecord == [index : Nat, config : GoodConfig, state : AllocationState]
StakerRecord == [index : Nat, pending : Nat]

\* A token's record; that of an allocated token is at a cycle that has begun.
RecordOK(t, r) ==
  IF t \in NonAllocated THEN r \in OpenRecord
  ELSE r \in AllocatedRecord /\ r.state.currentCycle <= CyclesElapsed(r.config, now)

\* What each user is owed of a token with record r, with the infos and shares
\* given, in atoms; and what each was paid of it.
OwedTable(t, r, infos, shares) ==
  [u \in Users |-> infos[u][t].pending * DecimalOne + (r.index - infos[u][t].index) * shares[u]]
PaidTable(t, payments) == [u \in Users |-> payments[u][t]]
OwedOf(t, r, infos, shares) == SumFunctionOnSet(OwedTable(t, r, infos, shares), Users)
PaidOf(t, payments) == SumFunctionOnSet(PaidTable(t, payments), Users)

\* RewardsCovered for one token: b is the contract's balance of it, c what has
\* been paid of it, and p what has been released.
Covered(t, r, infos, shares, b, c, p) ==
  IF t \in NonAllocated
  THEN OwedOf(t, r, infos, shares) <= r.previous * DecimalOne /\ r.previous <= b
  ELSE OwedOf(t, r, infos, shares) + c * DecimalOne <= p * DecimalOne

SharesOK(shares) == shares \in [Users -> Nat]
InfosOK(infos) == infos \in [Users -> [RewardTokens -> StakerRecord]]
\* No index is ahead of its token's.
Behind(t, r, infos) == \A u \in Users : infos[u][t].index <= r.index

ReleasedOf(t) == IF t \in Allocated THEN released[t] ELSE 0

StakingTypeOK ==
  /\ now \in Nat /\ pool \in Nat /\ totalShare \in Nat
  /\ SharesOK(share) /\ InfosOK(info)
  /\ DOMAIN reward \subseteq RewardTokens
  /\ \A t \in DOMAIN reward : RecordOK(t, reward[t])
  /\ balance \in [RewardTokens -> Nat]
  /\ released \in [Allocated -> Nat]
  /\ claimed \in [Users -> [RewardTokens -> Nat]]

\* A token that is no reward yet has left no trace.
Untouched(t) ==
  /\ \A u \in Users : info[u][t].index = 0 /\ info[u][t].pending = 0 /\ claimed[u][t] = 0
  /\ t \in Allocated => released[t] = 0

StakingInv ==
  /\ StakingTypeOK
  /\ SharesBacked
  /\ \A t \in RewardTokens \ DOMAIN reward : Untouched(t)
  /\ \A t \in DOMAIN reward : Behind(t, reward[t], info)
  /\ \A t \in DOMAIN reward :
       Covered(t, reward[t], info, share, balance[t], PaidOf(t, claimed), ReleasedOf(t))

LEMMA TokensSplit ==
  /\ IsFiniteSet(Users) /\ DecimalOne \in Nat /\ DecimalOne > 0
  /\ \A t \in RewardTokens : t \in NonAllocated \/ (t \in Allocated /\ t \notin NonAllocated)
  /\ Amounts \subseteq Nat
BY Cw20StakingAssumption, DecimalAssumption DEF RewardTokens

LEMMA RecordIndex ==
  ASSUME NEW t, NEW r, RecordOK(t, r)
  PROVE  /\ r.index \in Nat
         /\ t \in NonAllocated => r.previous \in Nat
BY DEF RecordOK, OpenRecord, AllocatedRecord

LEMMA InfoFields ==
  ASSUME NEW infos, InfosOK(infos), NEW u \in Users, NEW t \in RewardTokens
  PROVE  infos[u][t] \in StakerRecord /\ infos[u][t].index \in Nat /\ infos[u][t].pending \in Nat
<1>1. infos[u][t] \in StakerRecord
  BY DEF InfosOK
<1> QED BY <1>1 DEF StakerRecord

\* What a user is owed is no debt.
LEMMA OwedEntry ==
  ASSUME NEW t \in RewardTokens, NEW r, r.index \in Nat, NEW infos, InfosOK(infos), Behind(t, r, infos),
         NEW shares, SharesOK(shares), NEW u \in Users
  PROVE  /\ OwedTable(t, r, infos, shares)[u]
              = infos[u][t].pending * DecimalOne + (r.index - infos[u][t].index) * shares[u]
         /\ OwedTable(t, r, infos, shares)[u] \in Nat
         /\ (r.index - infos[u][t].index) * shares[u] \in Nat
         /\ r.index - infos[u][t].index \in Nat
<1>1. OwedTable(t, r, infos, shares)[u]
        = infos[u][t].pending * DecimalOne + (r.index - infos[u][t].index) * shares[u]
  BY DEF OwedTable
<1>2. infos[u][t].index \in Nat /\ infos[u][t].pending \in Nat /\ infos[u][t].index <= r.index
  BY InfoFields DEF Behind
<1>3. shares[u] \in Nat /\ r.index - infos[u][t].index \in Nat
  BY <1>2 DEF SharesOK
<1>4. infos[u][t].pending * DecimalOne \in Nat
  BY <1>2, TokensSplit, SMTT(30)
<1>5. (r.index - infos[u][t].index) * shares[u] \in Nat
  <2> DEFINE d == r.index - infos[u][t].index
  <2>1. d \in Nat
    BY <1>3
  <2> HIDE DEF d
  <2>2. d * shares[u] \in Nat
    BY <1>3, <2>1, SMTT(30)
  <2> QED BY <2>2 DEF d
<1> QED BY <1>1, <1>3, <1>4, <1>5

LEMMA OwedNat ==
  ASSUME NEW t \in RewardTokens, NEW r, r.index \in Nat, NEW infos, InfosOK(infos), Behind(t, r, infos),
         NEW shares, SharesOK(shares)
  PROVE  OwedOf(t, r, infos, shares) \in Nat
<1>1. \A u \in Users : OwedTable(t, r, infos, shares)[u] \in Nat
  BY OwedEntry
<1> QED BY <1>1, TokensSplit, SumNat DEF OwedOf

\* An index that grows by d for every share owes d times all shares more.
LEMMA OwedGrows ==
  ASSUME NEW t \in RewardTokens, NEW r, r.index \in Nat, NEW q, NEW d \in Nat, q.index = r.index + d,
         NEW infos, InfosOK(infos), Behind(t, r, infos), NEW shares, SharesOK(shares)
  PROVE  /\ Behind(t, q, infos)
         /\ OwedOf(t, q, infos, shares) = OwedOf(t, r, infos, shares) + d * SumFunctionOnSet(shares, Users)
<1> DEFINE f == OwedTable(t, r, infos, shares)
           g == OwedTable(t, q, infos, shares)
           h == [u \in Users |-> d * shares[u]]
<1>1. Behind(t, q, infos) /\ q.index \in Nat
  <2>1. \A u \in Users : infos[u][t].index \in Nat
    BY InfoFields
  <2> QED BY <2>1 DEF Behind
<1>2. \A u \in Users : shares[u] \in Nat /\ h[u] = d * shares[u] /\ h[u] \in Nat
  <2> SUFFICES ASSUME NEW u \in Users PROVE shares[u] \in Nat /\ d * shares[u] \in Nat
    OBVIOUS
  <2>1. shares[u] \in Nat
    BY DEF SharesOK
  <2> QED BY <2>1, SMTT(30)
<1>3. \A u \in Users : f[u] \in Nat /\ g[u] \in Nat /\ f[u] = g[u] - h[u]
  <2> SUFFICES ASSUME NEW u \in Users PROVE f[u] \in Nat /\ g[u] \in Nat /\ f[u] = g[u] - h[u]
    OBVIOUS
  <2> DEFINE x == r.index - infos[u][t].index
             y == q.index - infos[u][t].index
             p == infos[u][t].pending * DecimalOne
  <2>1. f[u] = p + x * shares[u] /\ f[u] \in Nat /\ x * shares[u] \in Nat /\ x \in Nat
    BY OwedEntry
  <2>2. g[u] = p + y * shares[u] /\ g[u] \in Nat /\ y * shares[u] \in Nat /\ y \in Nat
    BY <1>1, OwedEntry
  <2>3. y = x + d
    BY InfoFields
  <2>4. infos[u][t].pending \in Nat /\ p \in Nat
    BY InfoFields, TokensSplit, SMTT(30)
  <2> HIDE DEF x, y, p, f, g
  <2>5. (x + d) * shares[u] = x * shares[u] + d * shares[u]
    BY <1>2, <2>1, SMTT(30)
  <2> QED BY <1>2, <2>1, <2>2, <2>3, <2>4, <2>5
<1>4. SumFunctionOnSet(h, Users) = d * SumFunctionOnSet(shares, Users)
  <2>1. \A u \in Users : shares[u] \in Int /\ h[u] = d * shares[u]
    BY <1>2
  <2> HIDE DEF h
  <2> QED BY <2>1, TokensSplit, SumScale
<1> HIDE DEF f, g, h
<1>5. SumFunctionOnSet(f, Users) = SumFunctionOnSet(g, Users) - SumFunctionOnSet(h, Users)
  <2>1. \A u \in Users : g[u] \in Int /\ h[u] \in Int /\ f[u] = g[u] - h[u]
    BY <1>2, <1>3
  <2> QED BY <2>1, TokensSplit, SumDifference
<1>6. SumFunctionOnSet(g, Users) \in Nat /\ SumFunctionOnSet(h, Users) \in Nat
  BY <1>2, <1>3, TokensSplit, SumNat
<1>7. SumFunctionOnSet(g, Users) = SumFunctionOnSet(f, Users) + SumFunctionOnSet(h, Users)
  BY <1>5, <1>6
<1> QED BY <1>1, <1>4, <1>7 DEF OwedOf, f, g

\* A visit of u takes the fraction of a token, and no more, from what is owed.
LEMMA OwedSettled ==
  ASSUME NEW t \in RewardTokens, NEW r, r.index \in Nat,
         NEW infos, InfosOK(infos), Behind(t, r, infos), NEW shares, SharesOK(shares),
         NEW infos2, InfosOK(infos2), NEW shares2, SharesOK(shares2), NEW u \in Users, NEW due \in Nat,
         \A v \in Users \ {u} : infos2[v][t] = infos[v][t] /\ shares2[v] = shares[v],
         infos2[u][t].index = r.index,
         due + infos2[u][t].pending = infos[u][t].pending + Times(r.index - infos[u][t].index, shares[u])
  PROVE  /\ Behind(t, r, infos2)
         /\ OwedOf(t, r, infos2, shares2) + due * DecimalOne <= OwedOf(t, r, infos, shares)
<1> DEFINE f == OwedTable(t, r, infos, shares)
           g == OwedTable(t, r, infos2, shares2)
           x == r.index - infos[u][t].index
           p == infos[u][t].pending
           q == infos2[u][t].pending
           earned == Times(x, shares[u])
<1>1. Behind(t, r, infos2)
  BY DEF Behind
<1>2. \A v \in Users : f[v] \in Nat /\ g[v] \in Nat
  BY <1>1, OwedEntry
<1>3. \A v \in Users \ {u} : g[v] = f[v]
  BY DEF OwedTable
<1>4. f[u] = p * DecimalOne + x * shares[u] /\ x \in Nat /\ x * shares[u] \in Nat
  BY OwedEntry
<1>5. g[u] = q * DecimalOne
  <2>1. g[u] = q * DecimalOne + (r.index - infos2[u][t].index) * shares2[u]
    BY <1>1, OwedEntry
  <2>2. r.index - infos2[u][t].index = 0 /\ shares2[u] \in Nat
    BY DEF SharesOK
  <2>3. 0 * shares2[u] = 0
    BY <2>2, SMTT(30)
  <2>4. q \in Nat /\ q * DecimalOne \in Nat
    BY InfoFields, TokensSplit, SMTT(30)
  <2> QED BY <2>1, <2>2, <2>3, <2>4
<1>6. shares[u] \in Nat /\ p \in Nat /\ q \in Nat
  BY InfoFields DEF SharesOK
<1>7. earned \in Nat /\ earned * DecimalOne <= x * shares[u]
  BY <1>4, <1>6, TimesFacts
<1>8. due + q = p + earned
  OBVIOUS
<1> HIDE DEF f, g, x, p, q, earned
<1>9. q * DecimalOne + due * DecimalOne = p * DecimalOne + earned * DecimalOne
  <2>1. (due + q) * DecimalOne = (p + earned) * DecimalOne
    BY <1>8
  <2>2. (due + q) * DecimalOne = due * DecimalOne + q * DecimalOne
        /\ (p + earned) * DecimalOne = p * DecimalOne + earned * DecimalOne
    BY <1>6, <1>7, TokensSplit, SMTT(30)
  <2>3. due * DecimalOne \in Nat /\ q * DecimalOne \in Nat
    BY <1>6, TokensSplit, SMTT(30)
  <2> QED BY <2>1, <2>2, <2>3
<1>10. due * DecimalOne \in Nat /\ earned * DecimalOne \in Nat /\ p * DecimalOne \in Nat
       /\ q * DecimalOne \in Nat
  BY <1>6, <1>7, TokensSplit, SMTT(30)
<1>11. g[u] + due * DecimalOne <= f[u]
  BY <1>4, <1>5, <1>7, <1>9, <1>10
<1>12. SumFunctionOnSet(g, Users) = SumFunctionOnSet(f, Users) - f[u] + g[u]
  <2>1. \A v \in Users : f[v] \in Int /\ g[v] \in Int
    BY <1>2
  <2> QED BY <1>3, <2>1, TokensSplit, SumChange
<1>13. SumFunctionOnSet(f, Users) \in Nat /\ SumFunctionOnSet(g, Users) \in Nat
  BY <1>2, TokensSplit, SumNat
<1>14. SumFunctionOnSet(g, Users) + due * DecimalOne <= SumFunctionOnSet(f, Users)
  BY <1>2, <1>10, <1>11, <1>12, <1>13
<1> QED BY <1>1, <1>14 DEF OwedOf, f, g
LEMMA DueNowFacts ==
  ASSUME now \in Nat, NEW t \in Allocated, NEW r, RecordOK(t, r)
  PROVE  /\ DueNow(r) \in Nat
         /\ r \in AllocatedRecord
         /\ ~NothingDue(r.config, r.state, now) =>
              /\ Distribution(r.config, r.state, now).rewards \in Nat
              /\ Distribution(r.config, r.state, now).state \in AllocationState
              /\ Distribution(r.config, r.state, now).state.currentCycle = CyclesElapsed(r.config, now)
<1>1. r \in AllocatedRecord /\ r.state.currentCycle <= CyclesElapsed(r.config, now)
  BY Cw20StakingAssumption DEF RecordOK
<1>2. r.config \in GoodConfig /\ r.state \in AllocationState
  BY <1>1 DEF AllocatedRecord
<1>3. /\ Distribution(r.config, r.state, now).rewards \in Nat
      /\ Distribution(r.config, r.state, now).state \in AllocationState
      /\ Distribution(r.config, r.state, now).state.currentCycle = CyclesElapsed(r.config, now)
  BY <1>1, <1>2, DistributionFacts
<1> QED BY <1>1, <1>3 DEF DueNow

Advanced(r, d, st) == [r EXCEPT !.index = @ + d, !.state = st]

LEMMA AdvancedRecord ==
  ASSUME NEW r \in AllocatedRecord, NEW d \in Nat, NEW st \in AllocationState
  PROVE  /\ Advanced(r, d, st) \in AllocatedRecord
         /\ Advanced(r, d, st).index = r.index + d
         /\ Advanced(r, d, st).state = st
         /\ Advanced(r, d, st).config = r.config
<1>1. r.index \in Nat /\ r.config \in GoodConfig
  BY DEF AllocatedRecord
<1>2. r.index + d \in Nat
  BY <1>1
<1> QED BY <1>1, <1>2 DEF AllocatedRecord, Advanced

\* What an update adds to an index, times the shares, is no more than what it
\* takes into account.
Raised(t, r, q, x) ==
  /\ RecordOK(t, q)
  /\ \E d \in Nat : q.index = r.index + d /\ d * totalShare <= x * DecimalOne
  /\ t \in NonAllocated => q.previous = r.previous + x /\ (q.previous = r.previous \/ q.previous = balance[t])
  /\ t \in Allocated => x = DueNow(r)

LEMMA NotRaised ==
  ASSUME totalShare \in Nat, NEW t, NEW r, RecordOK(t, r), t \in Allocated => DueNow(r) = 0
  PROVE  Raised(t, r, r, 0)
<1>1. r.index \in Nat /\ (t \in NonAllocated => r.previous \in Nat)
  BY RecordIndex
<1>2. 0 * totalShare = 0 /\ 0 * DecimalOne = 0
  BY TokensSplit, SMTT(30)
<1>3. r.index = r.index + 0 /\ 0 * totalShare <= 0 * DecimalOne /\ 0 \in Nat
  BY <1>1, <1>2
<1> QED BY <1>1, <1>3 DEF Raised

LEMMA UpdatedRaises ==
  ASSUME now \in Nat, totalShare \in Nat, balance \in [RewardTokens -> Nat],
         NEW t \in RewardTokens, NEW r, RecordOK(t, r),
         t \in NonAllocated /\ totalShare > 0 => balance[t] >= r.previous
  PROVE  \E x \in Nat : Raised(t, r, Updated(t, r), x)
<1>1. CASE totalShare = 0
  <2>1. Updated(t, r) = r /\ (t \in Allocated => DueNow(r) = 0)
    BY <1>1 DEF Updated, DueNow
  <2> QED BY <2>1, NotRaised
<1>2. CASE totalShare > 0 /\ t \in NonAllocated
  <2> DEFINE x == balance[t] - r.previous
             d == FromRatio(x, totalShare)
             q == [index |-> r.index + d, previous |-> balance[t]]
  <2>1. r \in OpenRecord /\ balance[t] \in Nat /\ r.index \in Nat /\ r.previous \in Nat /\ x \in Nat
    BY <1>2, RecordIndex DEF RecordOK
  <2>2. d \in Nat /\ totalShare * d <= x * DecimalOne
    BY <1>2, <2>1, RatioFacts
  <2>3. Updated(t, r) = q
    BY <1>2 DEF Updated
  <2>4. d * totalShare = totalShare * d
    BY <2>2, SMTT(30)
  <2>5. q.index = r.index + d /\ q.previous = balance[t] /\ q.previous = r.previous + x
        /\ q \in OpenRecord /\ t \notin Allocated
    BY <1>2, <2>1, <2>2, Cw20StakingAssumption DEF OpenRecord
  <2> HIDE DEF x, d, q
  <2>6. Raised(t, r, q, x)
    BY <1>2, <2>2, <2>4, <2>5 DEF Raised, RecordOK
  <2> QED BY <2>1, <2>3, <2>6
<1>3. CASE totalShare > 0 /\ t \in Allocated
  <2>0. t \notin NonAllocated
    BY <1>3, Cw20StakingAssumption
  <2>1. CASE NothingDue(r.config, r.state, now)
    <3>1. Updated(t, r) = r /\ DueNow(r) = 0
      BY <1>3, <2>0, <2>1 DEF Updated, DueNow
    <3> QED BY <3>1, NotRaised
  <2>2. CASE ~NothingDue(r.config, r.state, now)
    <3> DEFINE x == DueNow(r)
               d == FromRatio(x, totalShare)
               st == Distribution(r.config, r.state, now).state
               q == Advanced(r, d, st)
    <3>1. /\ x \in Nat /\ r \in AllocatedRecord /\ st \in AllocationState
          /\ st.currentCycle = CyclesElapsed(r.config, now)
      BY <1>3, <2>2, DueNowFacts
    <3>2. d \in Nat /\ totalShare * d <= x * DecimalOne
      BY <1>3, <3>1, RatioFacts
    <3>3. Updated(t, r) = q
      BY <1>3, <2>0, <2>2 DEF Updated, Advanced
    <3>4. d * totalShare = totalShare * d
      BY <3>2, SMTT(30)
    <3>5. q \in AllocatedRecord /\ q.index = r.index + d /\ q.state = st /\ q.config = r.config
      <4>1. r \in AllocatedRecord /\ d \in Nat /\ st \in AllocationState
        BY <3>1, <3>2
      <4> HIDE DEF x, d, st
      <4> QED BY <4>1, AdvancedRecord
    <3>6. CyclesElapsed(r.config, now) \in Nat
      BY <3>1, CyclesFacts DEF AllocatedRecord
    <3> HIDE DEF d, st, q
    <3>7. RecordOK(t, q)
      BY <2>0, <3>1, <3>5, <3>6 DEF RecordOK
    <3>8. Raised(t, r, q, x)
      <4> HIDE DEF x
      <4>1. x = DueNow(r)
        BY DEF x
      <4> QED BY <2>0, <3>2, <3>4, <3>5, <3>7, <4>1 DEF Raised
    <3> QED BY <3>1, <3>3, <3>8
  <2> QED BY <2>1, <2>2
<1> QED BY <1>1, <1>2, <1>3, TokensSplit

\* An update keeps what is owed covered.
LEMMA RaisedCovers ==
  ASSUME StakingTypeOK, totalShare = SumFunctionOnSet(share, Users),
         NEW t \in RewardTokens, NEW r, RecordOK(t, r), NEW q, NEW x \in Nat, Raised(t, r, q, x),
         Behind(t, r, info), NEW c \in Nat, NEW p \in Nat,
         Covered(t, r, info, share, balance[t], c, p)
  PROVE  /\ RecordOK(t, q) /\ Behind(t, q, info) /\ r.index <= q.index
         /\ Covered(t, q, info, share, balance[t], c, p + x)
<1>1. PICK d \in Nat : q.index = r.index + d /\ d * totalShare <= x * DecimalOne
  BY DEF Raised
<1>2. r.index \in Nat /\ InfosOK(info) /\ SharesOK(share) /\ totalShare \in Nat /\ balance[t] \in Nat
  BY RecordIndex DEF StakingTypeOK
<1> DEFINE D == DecimalOne
           o == OwedOf(t, r, info, share)
           o2 == OwedOf(t, q, info, share)
<1>3. Behind(t, q, info) /\ o2 = o + d * totalShare
  BY <1>1, <1>2, OwedGrows
<1>4. o \in Nat /\ o2 \in Nat
  <2>1. q.index \in Nat
    BY <1>1, <1>2
  <2> QED BY <1>2, <1>3, <2>1, OwedNat
<1>5. d * totalShare \in Nat /\ x * D \in Nat /\ c * D \in Nat /\ p * D \in Nat
      /\ (p + x) * D = p * D + x * D
  BY <1>2, TokensSplit, SMTT(30)
<1> HIDE DEF o, o2
<1>6. CASE t \in NonAllocated
  <2>1. r.previous \in Nat /\ q.previous = r.previous + x
        /\ (q.previous = r.previous \/ q.previous = balance[t])
        /\ o <= r.previous * D /\ r.previous <= balance[t]
    BY <1>6, RecordIndex DEF Raised, Covered, o
  <2>2. (r.previous + x) * D = r.previous * D + x * D /\ r.previous * D \in Nat
    BY <2>1, TokensSplit, SMTT(30)
  <2>3. o2 <= q.previous * D /\ q.previous <= balance[t]
    BY <1>1, <1>2, <1>3, <1>4, <1>5, <2>1, <2>2
  <2>4. Covered(t, q, info, share, balance[t], c, p + x)
    BY <1>6, <2>3 DEF Covered, o2
  <2> QED BY <1>1, <1>2, <1>3, <2>4 DEF Raised
<1>7. CASE t \notin NonAllocated
  <2>1. o + c * D <= p * D
    BY <1>7 DEF Covered, o
  <2>2. o2 + c * D <= (p + x) * D
    BY <1>1, <1>3, <1>4, <1>5, <2>1
  <2>3. Covered(t, q, info, share, balance[t], c, p + x)
    BY <1>7, <2>2 DEF Covered, o2
  <2> QED BY <1>1, <1>2, <1>3, <2>3 DEF Raised
<1> QED BY <1>6, <1>7
\* Whole tokens of t that u can claim when its index is at i.
EarnedOf(t, i, infos, shares, u) == infos[u][t].pending + Times(i - infos[u][t].index, shares[u])

LEMMA EarnedFacts ==
  ASSUME NEW t \in RewardTokens, NEW infos, InfosOK(infos), NEW shares, SharesOK(shares), NEW u \in Users,
         NEW i \in Nat, infos[u][t].index <= i
  PROVE  /\ EarnedOf(t, i, infos, shares, u) \in Nat
         /\ \A j \in Nat : i <= j => EarnedOf(t, i, infos, shares, u) <= EarnedOf(t, j, infos, shares, u)
<1>1. /\ infos[u][t].index \in Nat /\ infos[u][t].pending \in Nat /\ shares[u] \in Nat
      /\ i - infos[u][t].index \in Nat
  BY InfoFields DEF SharesOK
<1>2. Times(i - infos[u][t].index, shares[u]) \in Nat
  BY <1>1, TimesFacts
<1>3. ASSUME NEW j \in Nat, i <= j
      PROVE  /\ Times(j - infos[u][t].index, shares[u]) \in Nat
             /\ Times(i - infos[u][t].index, shares[u]) <= Times(j - infos[u][t].index, shares[u])
  <2>1. j - infos[u][t].index \in Nat /\ i - infos[u][t].index <= j - infos[u][t].index
    BY <1>1, <1>3
  <2> QED BY <1>1, <2>1, TimesFacts
<1> QED BY <1>1, <1>2, <1>3 DEF EarnedOf

\* The records and releases R and p are those of the tokens after an update.
UpdateOK(R, p) ==
  /\ DOMAIN R = DOMAIN reward
  /\ p \in [Allocated -> Nat]
  /\ \A t \in DOMAIN reward :
       /\ RecordOK(t, R[t]) /\ Behind(t, R[t], info) /\ reward[t].index <= R[t].index
       /\ Covered(t, R[t], info, share, balance[t], PaidOf(t, claimed), IF t \in Allocated THEN p[t] ELSE 0)
  /\ \A t \in Allocated \ DOMAIN reward : p[t] = released[t]

LEMMA PaidNat ==
  ASSUME NEW payments \in [Users -> [RewardTokens -> Nat]], NEW t \in RewardTokens
  PROVE  PaidOf(t, payments) \in Nat
<1>1. \A u \in Users : PaidTable(t, payments)[u] \in Nat
  BY DEF PaidTable
<1> QED BY <1>1, TokensSplit, SumNat DEF PaidOf

LEMMA StakingSums ==
  ASSUME StakingInv
  PROVE  totalShare = SumFunctionOnSet(share, Users) /\ totalShare <= pool
BY DEF StakingInv, StakingTypeOK, SharesBacked, SharesOK, SumFunction

LEMMA TokensUpdated ==
  ASSUME StakingInv, NEW T, T \subseteq DOMAIN reward, CanUpdate(T)
  PROVE  UpdateOK(UpdatedTokens(T), ReleasedBy(T))
<1> DEFINE R == UpdatedTokens(T)
           p == ReleasedBy(T)
<1>1. /\ now \in Nat /\ totalShare \in Nat /\ balance \in [RewardTokens -> Nat]
      /\ released \in [Allocated -> Nat] /\ claimed \in [Users -> [RewardTokens -> Nat]]
      /\ DOMAIN reward \subseteq RewardTokens /\ StakingTypeOK
      /\ totalShare = SumFunctionOnSet(share, Users)
  BY StakingSums DEF StakingInv, StakingTypeOK
<1>2. ASSUME NEW t \in DOMAIN reward
      PROVE  /\ t \in RewardTokens /\ RecordOK(t, reward[t]) /\ Behind(t, reward[t], info)
             /\ Covered(t, reward[t], info, share, balance[t], PaidOf(t, claimed), ReleasedOf(t))
             /\ PaidOf(t, claimed) \in Nat /\ ReleasedOf(t) \in Nat
             /\ reward[t].index \in Nat
  <2>1. t \in RewardTokens /\ RecordOK(t, reward[t])
    BY <1>1 DEF StakingTypeOK
  <2> QED BY <1>1, <2>1, PaidNat, RecordIndex DEF StakingInv, ReleasedOf
<1>3. DOMAIN R = DOMAIN reward
      /\ \A t \in DOMAIN reward : R[t] = IF t \in T THEN Updated(t, reward[t]) ELSE reward[t]
  BY DEF UpdatedTokens
<1>4. DOMAIN p = Allocated
      /\ \A t \in Allocated :
           p[t] = released[t] + (IF t \in T \cap DOMAIN reward THEN DueNow(reward[t]) ELSE 0)
  BY DEF ReleasedBy
<1>5. p \in [Allocated -> Nat]
  <2>1. p = [t \in Allocated |-> p[t]]
    BY DEF ReleasedBy
  <2>2. \A t \in Allocated : p[t] \in Nat
    <3> SUFFICES ASSUME NEW t \in Allocated PROVE p[t] \in Nat
      OBVIOUS
    <3>1. CASE t \in T \cap DOMAIN reward
      <4>1. DueNow(reward[t]) \in Nat
        BY <1>1, <1>2, <3>1, DueNowFacts
      <4> QED BY <1>1, <1>4, <3>1, <4>1
    <3>2. CASE t \notin T \cap DOMAIN reward
      BY <1>1, <1>4, <3>2
    <3> QED BY <3>1, <3>2
  <2> HIDE DEF p
  <2> QED BY <2>1, <2>2
<1> HIDE DEF R, p
<1>6. ASSUME NEW t \in DOMAIN reward
      PROVE  /\ RecordOK(t, R[t]) /\ Behind(t, R[t], info) /\ reward[t].index <= R[t].index
             /\ Covered(t, R[t], info, share, balance[t], PaidOf(t, claimed),
                        IF t \in Allocated THEN p[t] ELSE 0)
  <2> DEFINE c == PaidOf(t, claimed)
             q == IF t \in Allocated THEN p[t] ELSE 0
  <2>1. CASE t \in T
    <3>1. PICK x \in Nat : Raised(t, reward[t], Updated(t, reward[t]), x)
      <4>1. t \in NonAllocated /\ totalShare > 0 => balance[t] >= reward[t].previous
        BY <2>1 DEF CanUpdate
      <4> QED BY <1>1, <1>2, <4>1, UpdatedRaises
    <3>2. /\ RecordOK(t, R[t]) /\ Behind(t, R[t], info) /\ reward[t].index <= R[t].index
          /\ Covered(t, R[t], info, share, balance[t], c, ReleasedOf(t) + x)
      BY <1>1, <1>2, <1>3, <2>1, <3>1, RaisedCovers
    <3>3. CASE t \in Allocated
      <4>1. q = ReleasedOf(t) + x
        BY <1>4, <2>1, <3>1, <3>3 DEF ReleasedOf, Raised
      <4> QED BY <3>2, <4>1
    <3>4. CASE t \notin Allocated
      <4>1. t \in NonAllocated
        BY <1>2, <3>4, TokensSplit
      <4>2. Covered(t, R[t], info, share, balance[t], c, q)
        BY <3>2, <4>1 DEF Covered
      <4> QED BY <3>2, <4>2
    <3> QED BY <3>3, <3>4
  <2>2. CASE t \notin T
    <3>1. R[t] = reward[t] /\ q = ReleasedOf(t)
      BY <1>1, <1>3, <1>4, <2>2 DEF ReleasedOf
    <3> QED BY <1>2, <3>1
  <2> QED BY <2>1, <2>2
<1>7. \A t \in Allocated \ DOMAIN reward : p[t] = released[t]
  BY <1>1, <1>4
<1> QED BY <1>3, <1>5, <1>6, <1>7 DEF UpdateOK, R, p

\* What u has gained, as Gained has it.
GainOf(t, R, infos, shares, payments, u) ==
  payments[u][t] + (IF t \in DOMAIN R THEN EarnedOf(t, R[t].index, infos, shares, u) ELSE 0)

LEMMA GainedIs ==
  ASSUME NEW u, NEW t
  PROVE  /\ Gained(u, t) = GainOf(t, reward, info, share, claimed, u)
         /\ Gained(u, t)' = GainOf(t, reward', info', share', claimed', u)
BY DEF Gained, GainOf, Earnings, EarnedOf

\* An update takes nothing from anybody.
LEMMA UpdateGains ==
  ASSUME StakingInv, NEW R, NEW p, UpdateOK(R, p), NEW u \in Users, NEW t \in RewardTokens
  PROVE  /\ GainOf(t, reward, info, share, claimed, u) \in Nat
         /\ GainOf(t, R, info, share, claimed, u) \in Nat
         /\ GainOf(t, reward, info, share, claimed, u) <= GainOf(t, R, info, share, claimed, u)
<1>1. claimed[u][t] \in Nat /\ InfosOK(info) /\ SharesOK(share) /\ DOMAIN R = DOMAIN reward
  BY DEF StakingInv, StakingTypeOK, UpdateOK
<1>2. CASE t \in DOMAIN reward
  <2>1. /\ reward[t].index \in Nat /\ R[t].index \in Nat /\ reward[t].index <= R[t].index
        /\ info[u][t].index <= reward[t].index /\ info[u][t].index <= R[t].index
    BY <1>2, RecordIndex DEF StakingInv, StakingTypeOK, UpdateOK, Behind
  <2>2. /\ EarnedOf(t, reward[t].index, info, share, u) \in Nat
        /\ EarnedOf(t, R[t].index, info, share, u) \in Nat
        /\ EarnedOf(t, reward[t].index, info, share, u) <= EarnedOf(t, R[t].index, info, share, u)
    BY <1>1, <2>1, EarnedFacts
  <2> QED BY <1>1, <1>2, <2>2 DEF GainOf
<1>3. CASE t \notin DOMAIN reward
  BY <1>1, <1>3 DEF GainOf
<1> QED BY <1>2, <1>3

\* After an update to the records R, a visit of u, which is paid due: the
\* records are then Q, and the rest of the state infos, shares, b and c.
Visited(u, due, R, Q, infos, shares, b, c) ==
  /\ InfosOK(infos) /\ SharesOK(shares) /\ due \in [RewardTokens -> Nat]
  /\ c \in [Users -> [RewardTokens -> Nat]]
  /\ \A v \in Users \ {u} : infos[v] = info[v] /\ shares[v] = share[v] /\ c[v] = claimed[v]
  /\ \A t \in RewardTokens :
       c[u][t] = claimed[u][t] + due[t] /\ b[t] = balance[t] - due[t] /\ due[t] <= balance[t]
  /\ \A t \in RewardTokens \ DOMAIN reward : due[t] = 0 /\ infos[u][t] = info[u][t]
  /\ DOMAIN Q = DOMAIN reward
  /\ \A t \in DOMAIN reward :
       /\ infos[u][t].index = R[t].index /\ Q[t].index = R[t].index
       /\ due[t] + infos[u][t].pending = EarnedOf(t, R[t].index, info, share, u)
       /\ t \in NonAllocated => Q[t].previous = R[t].previous - due[t]

LEMMA PaidOne ==
  ASSUME NEW c \in [Users -> [RewardTokens -> Nat]], NEW d \in [Users -> [RewardTokens -> Nat]],
         NEW u \in Users, \A v \in Users \ {u} : d[v] = c[v], NEW t \in RewardTokens, NEW due \in Nat,
         d[u][t] = c[u][t] + due
  PROVE  PaidOf(t, d) = PaidOf(t, c) + due
<1> DEFINE f == PaidTable(t, c)
           g == PaidTable(t, d)
<1>1. \A v \in Users : f[v] = c[v][t] /\ g[v] = d[v][t] /\ f[v] \in Nat /\ g[v] \in Nat
  BY DEF PaidTable
<1> HIDE DEF f, g
<1>2. SumFunctionOnSet(g, Users) = SumFunctionOnSet(f, Users) - f[u] + g[u]
  <2>1. \A v \in Users : f[v] \in Int /\ g[v] \in Int
    BY <1>1
  <2>2. \A v \in Users \ {u} : g[v] = f[v]
    BY <1>1
  <2> QED BY <2>1, <2>2, TokensSplit, SumChange
<1>3. SumFunctionOnSet(f, Users) \in Nat
  BY <1>1, TokensSplit, SumNat
<1> QED BY <1>1, <1>2, <1>3 DEF PaidOf, f, g

LEMMA VisitCovers ==
  ASSUME StakingInv, NEW R, NEW p, UpdateOK(R, p), NEW u \in Users, NEW due, NEW Q, NEW infos, NEW shares,
         NEW b, NEW c, Visited(u, due, R, Q, infos, shares, b, c), NEW t \in DOMAIN reward
  PROVE  /\ Behind(t, Q[t], infos)
         /\ Covered(t, Q[t], infos, shares, b[t], PaidOf(t, c), IF t \in Allocated THEN p[t] ELSE 0)
<1> DEFINE r == R[t]
           x == due[t]
           P == IF t \in Allocated THEN p[t] ELSE 0
           paidNow == PaidOf(t, claimed)
           owed == OwedOf(t, r, info, share)
           owed2 == OwedOf(t, r, infos, shares)
<1>1. /\ t \in RewardTokens /\ InfosOK(info) /\ SharesOK(share) /\ balance[t] \in Nat
      /\ claimed \in [Users -> [RewardTokens -> Nat]]
  BY DEF StakingInv, StakingTypeOK
<1>2. RecordOK(t, r) /\ Behind(t, r, info) /\ Covered(t, r, info, share, balance[t], paidNow, P) /\ P \in Nat
  BY <1>1 DEF UpdateOK
<1>3. r.index \in Nat /\ (t \in NonAllocated => r.previous \in Nat)
  BY <1>2, RecordIndex
<1>4. /\ InfosOK(infos) /\ SharesOK(shares) /\ x \in Nat /\ x <= balance[t] /\ b[t] = balance[t] - x
      /\ Q[t].index = r.index /\ (t \in NonAllocated => Q[t].previous = r.previous - x)
  BY <1>1 DEF Visited
<1>5. Behind(t, r, infos) /\ owed2 + x * DecimalOne <= owed
  <2>1. \A v \in Users \ {u} : infos[v][t] = info[v][t] /\ shares[v] = share[v]
    BY DEF Visited
  <2>2. infos[u][t].index = r.index
    BY DEF Visited
  <2>3. x + infos[u][t].pending = info[u][t].pending + Times(r.index - info[u][t].index, share[u])
    BY DEF Visited, EarnedOf
  <2> HIDE DEF r, x
  <2> QED BY <1>1, <1>2, <1>3, <1>4, <2>1, <2>2, <2>3, OwedSettled
<1>6. PaidOf(t, c) = paidNow + x
  <2>1. /\ c \in [Users -> [RewardTokens -> Nat]] /\ \A v \in Users \ {u} : c[v] = claimed[v]
        /\ c[u][t] = claimed[u][t] + x
    BY <1>1 DEF Visited
  <2> QED BY <1>1, <1>4, <2>1, PaidOne
<1>7. OwedOf(t, Q[t], infos, shares) = owed2 /\ Behind(t, Q[t], infos)
  BY <1>4, <1>5 DEF OwedOf, OwedTable, Behind
<1>8. owed \in Nat /\ owed2 \in Nat /\ paidNow \in Nat
  BY <1>1, <1>2, <1>3, <1>4, <1>5, OwedNat, PaidNat
<1> HIDE DEF owed, owed2, paidNow, r, x, P
<1>9. /\ x * DecimalOne \in Nat /\ P * DecimalOne \in Nat /\ paidNow * DecimalOne \in Nat
      /\ (paidNow + x) * DecimalOne = paidNow * DecimalOne + x * DecimalOne
  BY <1>2, <1>4, <1>8, TokensSplit, SMTT(30)
<1>10. CASE t \in NonAllocated
  <2>1. owed <= r.previous * DecimalOne /\ r.previous <= balance[t]
    BY <1>2, <1>10 DEF Covered, owed
  <2>2. /\ (r.previous - x) * DecimalOne = r.previous * DecimalOne - x * DecimalOne
        /\ r.previous * DecimalOne \in Nat
    BY <1>3, <1>4, <1>10, TokensSplit, SMTT(30)
  <2>3. owed2 <= Q[t].previous * DecimalOne /\ Q[t].previous <= b[t]
    BY <1>1, <1>3, <1>4, <1>5, <1>8, <1>9, <1>10, <2>1, <2>2
  <2>4. Covered(t, Q[t], infos, shares, b[t], PaidOf(t, c), P)
    BY <1>7, <1>10, <2>3 DEF Covered
  <2> QED BY <1>7, <2>4 DEF P
<1>11. CASE t \notin NonAllocated
  <2>1. owed + paidNow * DecimalOne <= P * DecimalOne
    BY <1>2, <1>11 DEF Covered, owed
  <2>2. owed2 + PaidOf(t, c) * DecimalOne <= P * DecimalOne
    BY <1>5, <1>6, <1>8, <1>9, <2>1
  <2>3. Covered(t, Q[t], infos, shares, b[t], PaidOf(t, c), P)
    BY <1>7, <1>11, <2>2 DEF Covered
  <2> QED BY <1>7, <2>3 DEF P
<1> QED BY <1>10, <1>11

LEMMA VisitGains ==
  ASSUME StakingInv, NEW R, NEW p, UpdateOK(R, p), NEW u \in Users, NEW due, NEW Q, NEW infos, NEW shares,
         NEW b, NEW c, Visited(u, due, R, Q, infos, shares, b, c), NEW v \in Users, NEW t \in RewardTokens
  PROVE  GainOf(t, reward, info, share, claimed, v) <= GainOf(t, Q, infos, shares, c, v)
<1>1. /\ GainOf(t, reward, info, share, claimed, v) <= GainOf(t, R, info, share, claimed, v)
      /\ GainOf(t, reward, info, share, claimed, v) \in Nat /\ GainOf(t, R, info, share, claimed, v) \in Nat
  BY UpdateGains
<1>2. DOMAIN R = DOMAIN reward /\ DOMAIN Q = DOMAIN reward
  BY DEF UpdateOK, Visited
<1>3. GainOf(t, Q, infos, shares, c, v) = GainOf(t, R, info, share, claimed, v)
  <2>1. CASE v # u
    <3>1. infos[v] = info[v] /\ shares[v] = share[v] /\ c[v] = claimed[v]
      BY <2>1 DEF Visited
    <3>2. t \in DOMAIN reward => Q[t].index = R[t].index
      BY DEF Visited
    <3> QED BY <1>2, <3>1, <3>2 DEF GainOf, EarnedOf
  <2>2. CASE v = u /\ t \notin DOMAIN reward
    <3>1. c[u][t] = claimed[u][t] + due[t] /\ due[t] = 0 /\ claimed[u][t] \in Nat
      BY <2>2 DEF Visited, StakingInv, StakingTypeOK
    <3> QED BY <1>2, <2>2, <3>1 DEF GainOf
  <2>3. CASE v = u /\ t \in DOMAIN reward
    <3> DEFINE e == EarnedOf(t, R[t].index, info, share, u)
               q == infos[u][t].pending
               x == due[t]
    <3>1. c[u][t] = claimed[u][t] + x /\ x + q = e /\ Q[t].index = R[t].index /\ infos[u][t].index = R[t].index
          /\ claimed[u][t] \in Nat /\ x \in Nat /\ InfosOK(infos) /\ SharesOK(shares)
      BY <2>3 DEF Visited, StakingInv, StakingTypeOK
    <3>2. R[t].index \in Nat
      BY <2>3, RecordIndex DEF UpdateOK
    <3>3. shares[u] \in Nat /\ q \in Nat
      BY <3>1, InfoFields DEF SharesOK
    <3>4. EarnedOf(t, Q[t].index, infos, shares, u) = q
      <4>1. Times(Q[t].index - infos[u][t].index, shares[u]) = 0
        <5>1. Q[t].index - infos[u][t].index = 0
          BY <3>1, <3>2
        <5>2. 0 \in Nat /\ Times(0, shares[u]) = 0
          BY <3>3, TimesFacts
        <5> QED BY <5>1, <5>2
      <4> QED BY <3>3, <4>1 DEF EarnedOf
    <3>5. GainOf(t, Q, infos, shares, c, u) = c[u][t] + q
      BY <1>2, <2>3, <3>4 DEF GainOf
    <3>6. GainOf(t, R, info, share, claimed, u) = claimed[u][t] + e
      BY <1>2, <2>3 DEF GainOf
    <3> HIDE DEF e, q, x
    <3>7. e \in Nat
      BY <3>1, <3>3
    <3> QED BY <2>3, <3>1, <3>3, <3>5, <3>6, <3>7
  <2> QED BY <2>1, <2>2, <2>3
<1> QED BY <1>1, <1>3

\* A step of the staking contract keeps its invariant if it keeps the parts.
LEMMA StakingParts ==
  ASSUME StakingInv, now' \in Nat, pool' \in Nat, totalShare' \in Nat, SharesOK(share'), InfosOK(info'), DOMAIN reward' = DOMAIN reward,
         \A t \in DOMAIN reward : RecordOK(t, reward[t])', balance' \in [RewardTokens -> Nat],
         released' \in [Allocated -> Nat], claimed' \in [Users -> [RewardTokens -> Nat]],
         totalShare' = SumFunctionOnSet(share', Users), totalShare' <= pool',
         \A t \in RewardTokens \ DOMAIN reward : Untouched(t)',
         \A t \in DOMAIN reward : Behind(t, reward'[t], info'),
         \A t \in DOMAIN reward :
           Covered(t, reward'[t], info', share', balance'[t], PaidOf(t, claimed'),
                   IF t \in Allocated THEN released'[t] ELSE 0)
  PROVE  StakingInv'
<1>2. StakingTypeOK'
  BY DEF StakingTypeOK, StakingInv
<1>3. SharesBacked'
  BY DEF SharesBacked, SumFunction, SharesOK
<1>4. \A t \in DOMAIN reward' :
        Covered(t, reward'[t], info', share', balance'[t], PaidOf(t, claimed'), ReleasedOf(t)')
  BY DEF ReleasedOf
<1> QED BY <1>2, <1>3, <1>4 DEF StakingInv

LEMMA VisitKeeps ==
  ASSUME StakingInv, NEW R, NEW p, UpdateOK(R, p), NEW u \in Users, NEW due,
         Visited(u, due, R, reward', info', share', balance', claimed'), released' = p, now' = now,
         pool' \in Nat, totalShare' \in Nat, totalShare' = SumFunctionOnSet(share', Users),
         totalShare' <= pool', balance' \in [RewardTokens -> Nat],
         \A t \in DOMAIN reward : RecordOK(t, reward'[t])
  PROVE  StakingInv' /\ NothingLost
<1>1. /\ InfosOK(info') /\ SharesOK(share') /\ DOMAIN reward' = DOMAIN reward /\ now \in Nat
      /\ claimed' \in [Users -> [RewardTokens -> Nat]] /\ released' \in [Allocated -> Nat]
      /\ DOMAIN reward \subseteq RewardTokens
  BY DEF Visited, UpdateOK, StakingInv, StakingTypeOK
<1>2. ASSUME NEW t \in DOMAIN reward
      PROVE  /\ Behind(t, reward'[t], info')
             /\ Covered(t, reward'[t], info', share', balance'[t], PaidOf(t, claimed'),
                        IF t \in Allocated THEN released'[t] ELSE 0)
  BY VisitCovers
<1>3. ASSUME NEW t \in RewardTokens \ DOMAIN reward PROVE Untouched(t)'
  <2>1. Untouched(t)
    BY DEF StakingInv
  <2>2. \A v \in Users : info'[v][t] = info[v][t] /\ claimed'[v][t] = claimed[v][t]
    <3> SUFFICES ASSUME NEW v \in Users PROVE info'[v][t] = info[v][t] /\ claimed'[v][t] = claimed[v][t]
      OBVIOUS
    <3>1. CASE v = u
      <4>1. claimed[u][t] = 0 /\ claimed'[u][t] = claimed[u][t] + due[t] /\ due[t] = 0
        BY <2>1 DEF Visited, Untouched
      <4> QED BY <3>1, <4>1 DEF Visited
    <3>2. CASE v # u
      BY <3>2 DEF Visited
    <3> QED BY <3>1, <3>2
  <2>3. t \in Allocated => released'[t] = released[t]
    BY DEF UpdateOK
  <2> QED BY <2>1, <2>2, <2>3 DEF Untouched
<1>4. \A t \in DOMAIN reward : RecordOK(t, reward[t])'
  BY DEF RecordOK
<1>5. StakingInv'
  BY <1>1, <1>2, <1>3, <1>4, StakingParts
<1>6. NothingLost
  BY VisitGains, GainedIs DEF NothingLost
<1> QED BY <1>5, <1>6

\* A visit that pays nothing.
LEMMA SettleKeeps ==
  ASSUME StakingInv, NEW u \in Users, UpdateFor(u), UNCHANGED <<now, balance, claimed>>, SharesOK(share'),
         \A v \in Users \ {u} : share'[v] = share[v], pool' \in Nat, totalShare' \in Nat,
         totalShare' = SumFunctionOnSet(share', Users), totalShare' <= pool'
  PROVE  StakingInv' /\ NothingLost
<1> DEFINE R == UpdatedTokens(DOMAIN reward)
           p == ReleasedBy(DOMAIN reward)
           due == [t \in RewardTokens |-> 0]
<1>1. CanUpdate(DOMAIN reward) /\ reward' = R /\ info' = [info EXCEPT ![u] = Settled(u, R)] /\ released' = p
  BY DEF UpdateFor
<1>2. UpdateOK(R, p)
  BY <1>1, TokensUpdated
<1> HIDE DEF R, p
<1>3. /\ InfosOK(info) /\ SharesOK(share) /\ DOMAIN reward \subseteq RewardTokens /\ DOMAIN R = DOMAIN reward
      /\ balance \in [RewardTokens -> Nat] /\ claimed \in [Users -> [RewardTokens -> Nat]]
  BY <1>2 DEF StakingInv, StakingTypeOK, UpdateOK
<1> DEFINE S == Settled(u, R)
<1>4. ASSUME NEW t \in DOMAIN reward
      PROVE  /\ S[t] = [index |-> R[t].index, pending |-> EarnedOf(t, R[t].index, info, share, u)]
             /\ S[t] \in StakerRecord
             /\ S[t].index = R[t].index /\ S[t].pending = EarnedOf(t, R[t].index, info, share, u)
             /\ S[t].pending \in Nat
  <2>1. S[t] = [index |-> R[t].index, pending |-> EarnedOf(t, R[t].index, info, share, u)]
    BY <1>3 DEF Settled, Earnings, EarnedOf
  <2>2. RecordOK(t, R[t]) /\ Behind(t, R[t], info)
    BY <1>2 DEF UpdateOK
  <2>3. R[t].index \in Nat /\ info[u][t].index <= R[t].index
    BY <2>2, RecordIndex DEF Behind
  <2>4. EarnedOf(t, R[t].index, info, share, u) \in Nat
    BY <1>3, <2>3, EarnedFacts
  <2> HIDE DEF S
  <2> QED BY <2>1, <2>3, <2>4 DEF StakerRecord
<1>5. \A t \in RewardTokens \ DOMAIN reward : S[t] = info[u][t]
  BY <1>3 DEF Settled
<1>6. S \in [RewardTokens -> StakerRecord]
  <2>1. S = [t \in RewardTokens |-> S[t]]
    BY DEF Settled
  <2>2. \A t \in RewardTokens : S[t] \in StakerRecord
    BY <1>3, <1>4, <1>5, InfoFields, ZenonT(60)
  <2> HIDE DEF S
  <2> QED BY <2>1, <2>2
<1> HIDE DEF S
<1>7. InfosOK(info') /\ info'[u] = S /\ \A v \in Users \ {u} : info'[v] = info[v]
  BY <1>1, <1>3, <1>6 DEF InfosOK, S
<1>8. due \in [RewardTokens -> Nat] /\ \A t \in RewardTokens : due[t] = 0
  OBVIOUS
<1> HIDE DEF due
<1>9. \A t \in RewardTokens :
        claimed'[u][t] = claimed[u][t] + due[t] /\ balance'[t] = balance[t] - due[t] /\ due[t] <= balance[t]
  BY <1>3, <1>8
<1>10. ASSUME NEW t \in DOMAIN reward
       PROVE  /\ info'[u][t].index = R[t].index /\ reward'[t].index = R[t].index
              /\ due[t] + info'[u][t].pending = EarnedOf(t, R[t].index, info, share, u)
              /\ t \in NonAllocated => reward'[t].previous = R[t].previous - due[t]
  <2>1. t \in NonAllocated => R[t].previous \in Nat
    BY <1>2, RecordIndex DEF UpdateOK
  <2>2. info'[u][t].index = R[t].index /\ reward'[t].index = R[t].index
    BY <1>1, <1>4, <1>7
  <2>3. info'[u][t].pending = EarnedOf(t, R[t].index, info, share, u) /\ info'[u][t].pending \in Nat
    BY <1>4, <1>7
  <2>4. due[t] = 0
    BY <1>3, <1>8
  <2>5. t \in NonAllocated => reward'[t].previous = R[t].previous - due[t]
    BY <1>1, <2>1, <2>4
  <2> QED BY <2>2, <2>3, <2>4, <2>5
<1>11. Visited(u, due, R, reward', info', share', balance', claimed')
  BY <1>1, <1>3, <1>5, <1>7, <1>8, <1>9, <1>10 DEF Visited
<1>12. \A t \in DOMAIN reward : RecordOK(t, reward'[t])
  BY <1>1, <1>2 DEF UpdateOK
<1> QED BY <1>1, <1>2, <1>3, <1>11, <1>12, VisitKeeps

LEMMA ShareChanged ==
  ASSUME StakingInv, NEW u \in Users, NEW n \in Nat, share' = [share EXCEPT ![u] = n]
  PROVE  /\ SharesOK(share') /\ \A v \in Users \ {u} : share'[v] = share[v]
         /\ SumFunctionOnSet(share', Users) = totalShare - share[u] + n
         /\ share[u] \in Nat /\ share[u] <= totalShare
<1>1. SharesOK(share) /\ totalShare = SumFunctionOnSet(share, Users)
  BY StakingSums DEF StakingInv, StakingTypeOK
<1>2. \A v \in Users : share[v] \in Nat /\ share'[v] \in Nat
  BY <1>1 DEF SharesOK
<1>3. \A v \in Users \ {u} : share'[v] = share[v]
  BY <1>1 DEF SharesOK
<1>4. SumFunctionOnSet(share', Users) = SumFunctionOnSet(share, Users) - share[u] + share'[u]
  <2> DEFINE f == share
             g == share'
  <2>1. \A v \in Users : f[v] \in Int /\ g[v] \in Int
    BY <1>2
  <2>2. \A v \in Users \ {u} : g[v] = f[v]
    BY <1>3
  <2> HIDE DEF f, g
  <2>3. SumFunctionOnSet(g, Users) = SumFunctionOnSet(f, Users) - f[u] + g[u]
    BY <2>1, <2>2, TokensSplit, SumChange
  <2> QED BY <2>3 DEF f, g
<1>5. share[u] <= SumFunctionOnSet(share, Users)
  BY <1>2, TokensSplit, SumNat
<1>6. SharesOK(share') /\ share'[u] = n
  BY <1>1 DEF SharesOK
<1> QED BY <1>1, <1>2, <1>3, <1>4, <1>5, <1>6

LEMMA StakeTokensKeeps ==
  ASSUME StakingInv, NEW u \in Users, NEW amount \in Amounts, StakeTokens(u, amount)
  PROVE  /\ StakingInv' /\ NothingLost
         /\ pool * totalShare' <= pool' * totalShare \/ totalShare = 0
<1> DEFINE new == IF pool = 0 \/ totalShare = 0 THEN amount ELSE (amount * totalShare) \div pool
<1>1. /\ pool \in Nat /\ totalShare \in Nat /\ totalShare <= pool /\ amount \in Nat
      /\ SharesOK(share)
  BY StakingSums, TokensSplit DEF StakingInv, StakingTypeOK
<1>2. new \in Nat /\ new <= amount /\ (totalShare > 0 => pool * new <= amount * totalShare)
  <2>1. CASE pool = 0 \/ totalShare = 0
    BY <1>1, <2>1
  <2>2. CASE pool > 0 /\ totalShare > 0
    <3>1. amount * totalShare \in Nat /\ amount * totalShare <= pool * amount
      BY <1>1, SMTT(30)
    <3>2. /\ (amount * totalShare) \div pool \in Nat
          /\ pool * ((amount * totalShare) \div pool) <= amount * totalShare
      BY <1>1, <2>2, <3>1, DivFacts
    <3>3. (amount * totalShare) \div pool <= amount
      BY <1>1, <2>2, <3>1, DivBound
    <3>4. new = (amount * totalShare) \div pool
      BY <2>2
    <3> HIDE DEF new
    <3> QED BY <3>2, <3>3, <3>4
  <2> HIDE DEF new
  <2> QED BY <1>1, <2>1, <2>2
<1>3. /\ UpdateFor(u) /\ share' = [share EXCEPT ![u] = share[u] + new] /\ totalShare' = totalShare + new
      /\ pool' = pool + amount /\ UNCHANGED <<now, balance, claimed>>
  BY <1>1 DEF StakeTokens
<1> HIDE DEF new
<1>4. share[u] + new \in Nat /\ share[u] \in Nat
  BY <1>1, <1>2 DEF SharesOK
<1>5. /\ SharesOK(share') /\ \A v \in Users \ {u} : share'[v] = share[v]
      /\ SumFunctionOnSet(share', Users) = totalShare - share[u] + (share[u] + new)
  BY <1>3, <1>4, ShareChanged
<1>6. pool' \in Nat /\ totalShare' \in Nat /\ totalShare' <= pool' /\ totalShare' = SumFunctionOnSet(share', Users)
  BY <1>1, <1>2, <1>3, <1>4, <1>5
<1>7. StakingInv' /\ NothingLost
  BY <1>3, <1>5, <1>6, SettleKeeps
<1>8. totalShare > 0 => pool * totalShare' <= pool' * totalShare
  <2>1. /\ pool * (totalShare + new) = pool * totalShare + pool * new
        /\ (pool + amount) * totalShare = pool * totalShare + amount * totalShare
        /\ pool * totalShare \in Nat /\ pool * new \in Nat /\ amount * totalShare \in Nat
    BY <1>1, <1>2, SMTT(30)
  <2> QED BY <1>2, <1>3, <2>1
<1> QED BY <1>1, <1>7, <1>8

LEMMA UnstakeKeeps ==
  ASSUME StakingInv, NEW u \in Users, NEW shares \in Nat, NEW amount \in Nat, Unstake(u, shares, amount),
         totalShare - shares <= pool - amount
  PROVE  StakingInv' /\ NothingLost
<1>1. pool \in Nat /\ totalShare \in Nat /\ SharesOK(share) /\ share[u] \in Nat
  BY DEF StakingInv, StakingTypeOK, SharesOK
<1>2. /\ UpdateFor(u) /\ shares <= share[u] /\ amount <= pool
      /\ share' = [share EXCEPT ![u] = share[u] - shares]
      /\ totalShare' = totalShare - shares /\ pool' = pool - amount /\ UNCHANGED <<now, balance, claimed>>
  BY DEF Unstake
<1>3. share[u] - shares \in Nat
  BY <1>1, <1>2
<1>4. /\ SharesOK(share') /\ \A v \in Users \ {u} : share'[v] = share[v]
      /\ SumFunctionOnSet(share', Users) = totalShare - share[u] + (share[u] - shares)
      /\ share[u] <= totalShare
  BY <1>2, <1>3, ShareChanged
<1>5. pool' \in Nat /\ totalShare' \in Nat /\ totalShare' <= pool' /\ totalShare' = SumFunctionOnSet(share', Users)
  BY <1>1, <1>2, <1>4
<1> QED BY <1>2, <1>4, <1>5, SettleKeeps

LEMMA UnstakeTokensKeeps ==
  ASSUME StakingInv, NEW u \in Users, NEW amount \in Amounts, UnstakeTokens(u, amount)
  PROVE  StakingInv' /\ NothingLost
<1> DEFINE q == (amount * totalShare) \div pool
           shares == Later(q, 1)
<1>1. /\ pool \in Nat /\ pool > 0 /\ totalShare \in Nat /\ totalShare <= pool /\ amount \in Nat
      /\ Unstake(u, shares, amount) /\ amount <= pool
  BY StakingSums, TokensSplit DEF StakingInv, StakingTypeOK, UnstakeTokens, Unstake
<1>2. amount * totalShare \in Nat
  BY <1>1, SMTT(30)
<1>3. q \in Nat /\ amount * totalShare < pool * q + pool
  BY <1>1, <1>2, DivFacts
<1> HIDE DEF q
<1>4. shares \in Nat /\ q <= shares
  BY <1>3 DEF Later
<1> HIDE DEF shares
<1>5. amount - q <= pool - totalShare
  <2> SUFFICES ASSUME amount - q >= pool - totalShare + 1 PROVE FALSE
    BY <1>1, <1>3
  <2> DEFINE x == amount - q
             y == pool - totalShare
  <2>1. x \in Int /\ y \in Nat /\ x >= y + 1
    BY <1>1, <1>3
  <2>2. pool * x = pool * amount - pool * q
    BY <1>1, <1>3, SMTT(30)
  <2>3. amount * y = amount * pool - amount * totalShare /\ amount * pool = pool * amount
    BY <1>1, SMTT(30)
  <2> HIDE DEF x, y
  <2>4. pool * x >= pool * (y + 1) /\ pool * (y + 1) = pool * y + pool
    BY <1>1, <2>1, SMTT(30)
  <2>5. amount * y <= pool * y /\ amount * y \in Nat /\ pool * y \in Nat
    BY <1>1, <2>1, SMTT(30)
  <2>6. pool * amount \in Nat /\ pool * q \in Nat
    BY <1>1, <1>3, SMTT(30)
  <2> QED BY <1>1, <1>2, <1>3, <2>2, <2>3, <2>4, <2>5, <2>6
<1>6. totalShare - shares <= pool - amount
  BY <1>1, <1>3, <1>4, <1>5
<1> QED BY <1>1, <1>4, <1>6, UnstakeKeeps

LEMMA UnstakeAllKeeps ==
  ASSUME StakingInv, NEW u \in Users, UnstakeAll(u)
  PROVE  /\ StakingInv' /\ NothingLost
         /\ pool * totalShare' <= pool' * totalShare
<1> DEFINE n == share[u]
           amount == (n * pool) \div totalShare
<1>1. /\ pool \in Nat /\ totalShare \in Nat /\ totalShare > 0 /\ totalShare <= pool
      /\ Unstake(u, n, amount) /\ amount <= pool
  BY StakingSums DEF StakingInv, StakingTypeOK, UnstakeAll, Unstake
<1>2. n \in Nat /\ n <= totalShare
  <2>1. \A v \in Users : share[v] \in Nat
    BY DEF StakingInv, StakingTypeOK, SharesOK
  <2> QED BY <2>1, StakingSums, TokensSplit, SumNat
<1>3. totalShare' = totalShare - n /\ pool' = pool - amount
  BY <1>1 DEF Unstake
<1> HIDE DEF n
<1>4. n * pool \in Nat
  BY <1>1, <1>2, SMTT(30)
<1>5. amount \in Nat /\ totalShare * amount <= n * pool
  BY <1>1, <1>4, DivFacts
<1> HIDE DEF amount
<1>6. /\ pool * (totalShare - n) = pool * totalShare - n * pool
      /\ (pool - amount) * totalShare = pool * totalShare - totalShare * amount
      /\ pool * totalShare \in Nat /\ totalShare * amount \in Nat
  BY <1>1, <1>2, <1>5, SMTT(30)
<1>7. pool * (totalShare - n) <= (pool - amount) * totalShare
  BY <1>4, <1>5, <1>6
<1>8. totalShare - n <= pool - amount
  <2> DEFINE x == totalShare - n
             y == pool - amount
  <2>1. x \in Nat /\ y \in Nat /\ pool * x <= y * totalShare
    BY <1>1, <1>2, <1>5, <1>7
  <2> HIDE DEF x, y
  <2> SUFFICES ASSUME x >= y + 1 PROVE FALSE
    BY <2>1 DEF x, y
  <2>2. pool * x >= totalShare * x
    BY <1>1, <2>1, SMTT(30)
  <2>3. totalShare * x >= totalShare * (y + 1) /\ totalShare * (y + 1) = y * totalShare + totalShare
    BY <1>1, <2>1, SMTT(30)
  <2>4. pool * x \in Nat /\ y * totalShare \in Nat /\ totalShare * x \in Nat
    BY <1>1, <2>1, SMTT(30)
  <2> QED BY <1>1, <2>1, <2>2, <2>3, <2>4
<1>9. StakingInv' /\ NothingLost
  BY <1>1, <1>2, <1>5, <1>8, UnstakeKeeps
<1> QED BY <1>3, <1>7, <1>9

LEMMA ClaimRewardsKeeps ==
  ASSUME StakingInv, NEW u \in Users, ClaimRewards(u)
  PROVE  StakingInv' /\ NothingLost
<1> DEFINE T == DOMAIN reward
           R == UpdatedTokens(T)
           p == ReleasedBy(T)
           owed(t) == PendingRewards(u, t)
           due == [t \in RewardTokens |-> IF t \in T THEN owed(t) ELSE 0]
           Paid == [t \in RewardTokens |->
                      IF t \in T THEN [index |-> R[t].index, pending |-> 0] ELSE info[u][t]]
           Sum == [t \in RewardTokens |-> claimed[u][t] + (IF t \in T THEN owed(t) ELSE 0)]
<1>1. /\ CanUpdate(T) /\ released' = p /\ UNCHANGED <<now, pool, totalShare, share>>
      /\ \A t \in T : owed(t) <= balance[t]
      /\ \A t \in T \cap NonAllocated : owed(t) <= R[t].previous
      /\ reward' = [t \in T |-> IF t \in NonAllocated THEN [R[t] EXCEPT !.previous = @ - owed(t)] ELSE R[t]]
      /\ info' = [info EXCEPT ![u] = Paid]
      /\ balance' = [t \in RewardTokens |-> balance[t] - (IF t \in T THEN owed(t) ELSE 0)]
      /\ claimed' = [claimed EXCEPT ![u] = Sum]
  BY DEF ClaimRewards
<1>2. UpdateOK(R, p)
  BY <1>1, TokensUpdated
<1>3. ASSUME NEW t \in T PROVE owed(t) = EarnedOf(t, R[t].index, info, share, u)
  BY <1>3 DEF PendingRewards, Earnings, EarnedOf, UpdatedTokens
<1> HIDE DEF R, p, owed
<1>4. /\ InfosOK(info) /\ SharesOK(share) /\ T \subseteq RewardTokens /\ DOMAIN R = T
      /\ balance \in [RewardTokens -> Nat] /\ claimed \in [Users -> [RewardTokens -> Nat]]
  BY <1>2 DEF StakingInv, StakingTypeOK, UpdateOK
<1>5. ASSUME NEW t \in T
      PROVE  /\ R[t].index \in Nat /\ owed(t) \in Nat /\ RecordOK(t, R[t])
             /\ t \in NonAllocated => R[t].previous \in Nat
  <2>1. RecordOK(t, R[t]) /\ Behind(t, R[t], info)
    BY <1>2 DEF UpdateOK
  <2>2. R[t].index \in Nat /\ info[u][t].index <= R[t].index /\ (t \in NonAllocated => R[t].previous \in Nat)
    BY <2>1, RecordIndex DEF Behind
  <2>3. EarnedOf(t, R[t].index, info, share, u) \in Nat
    BY <1>4, <2>2, EarnedFacts
  <2> QED BY <1>3, <2>1, <2>2, <2>3
<1>6. due \in [RewardTokens -> Nat] /\ \A t \in RewardTokens : due[t] = IF t \in T THEN owed(t) ELSE 0
  BY <1>5
<1>7. \A t \in T :
        LET q == [R[t] EXCEPT !.previous = @ - owed(t)]
        IN  t \in NonAllocated =>
              /\ q \in OpenRecord /\ q.index = R[t].index /\ q.previous = R[t].previous - owed(t)
  <2> SUFFICES ASSUME NEW t \in T, t \in NonAllocated
               PROVE  LET q == [R[t] EXCEPT !.previous = @ - owed(t)]
                      IN  q \in OpenRecord /\ q.index = R[t].index /\ q.previous = R[t].previous - owed(t)
    OBVIOUS
  <2>1. R[t] \in OpenRecord
    BY <1>5 DEF RecordOK
  <2>2. R[t].previous - owed(t) \in Nat
    BY <1>1, <1>5
  <2> QED BY <2>1, <2>2 DEF OpenRecord
<1>8. ASSUME NEW t \in T
      PROVE  /\ RecordOK(t, reward'[t]) /\ reward'[t].index = R[t].index
             /\ t \in NonAllocated => reward'[t].previous = R[t].previous - due[t]
  <2>1. CASE t \in NonAllocated
    <3>1. reward'[t] = [R[t] EXCEPT !.previous = @ - owed(t)]
      BY <1>1, <2>1
    <3>2. reward'[t] \in OpenRecord /\ reward'[t].index = R[t].index /\ reward'[t].previous = R[t].previous - owed(t)
      BY <1>7, <2>1, <3>1
    <3>3. due[t] = owed(t)
      BY <1>4, <1>6
    <3> QED BY <2>1, <3>2, <3>3 DEF RecordOK
  <2>2. CASE t \notin NonAllocated
    BY <1>1, <1>5, <2>2
  <2> QED BY <2>1, <2>2
<1>9. /\ \A t \in RewardTokens : Paid[t] = IF t \in T THEN [index |-> R[t].index, pending |-> 0] ELSE info[u][t]
      /\ Paid \in [RewardTokens -> StakerRecord]
  <2>1. \A t \in T : [index |-> R[t].index, pending |-> 0] \in StakerRecord
    BY <1>5 DEF StakerRecord
  <2> QED BY <1>4, <2>1, InfoFields
<1>10. Sum \in [RewardTokens -> Nat] /\ \A t \in RewardTokens : Sum[t] = claimed[u][t] + due[t]
  <2> SUFFICES ASSUME NEW t \in RewardTokens PROVE Sum[t] \in Nat /\ Sum[t] = claimed[u][t] + due[t]
    OBVIOUS
  <2>1. Sum[t] = claimed[u][t] + due[t] /\ due[t] \in Nat
    BY <1>6
  <2>2. claimed[u][t] \in Nat
    BY <1>4
  <2> HIDE DEF Sum, due
  <2> QED BY <2>1, <2>2
<1> HIDE DEF Paid, Sum, due
<1>11. /\ InfosOK(info') /\ info'[u] = Paid /\ \A v \in Users \ {u} : info'[v] = info[v]
  BY <1>1, <1>4, <1>9 DEF InfosOK
<1>12. /\ claimed' \in [Users -> [RewardTokens -> Nat]] /\ claimed'[u] = Sum
       /\ \A v \in Users \ {u} : claimed'[v] = claimed[v]
  BY <1>1, <1>4, <1>10
<1>13. ASSUME NEW t \in RewardTokens
       PROVE  /\ balance'[t] = balance[t] - due[t] /\ due[t] <= balance[t] /\ due[t] \in Nat
              /\ balance[t] \in Nat
  <2>1. balance'[t] = balance[t] - (IF t \in T THEN owed(t) ELSE 0) /\ balance[t] \in Nat
    BY <1>1, <1>4
  <2> QED BY <1>1, <1>5, <1>6, <2>1
<1>14. balance' \in [RewardTokens -> Nat]
  <2>1. balance' = [t \in RewardTokens |-> balance'[t]]
    BY <1>1
  <2>2. \A t \in RewardTokens : balance'[t] \in Nat
    BY <1>13
  <2> QED BY <2>1, <2>2
<1>15. ASSUME NEW t \in T
       PROVE  /\ info'[u][t].index = R[t].index
              /\ due[t] + info'[u][t].pending = EarnedOf(t, R[t].index, info, share, u)
  <2>1. Paid[t] = [index |-> R[t].index, pending |-> 0] /\ due[t] = owed(t)
    BY <1>4, <1>6, <1>9
  <2>2. info'[u][t].index = R[t].index /\ info'[u][t].pending = 0
    BY <1>11, <2>1
  <2> QED BY <1>3, <1>5, <2>1, <2>2
<1>16. Visited(u, due, R, reward', info', share', balance', claimed')
  <2>1. \A t \in RewardTokens \ T : due[t] = 0 /\ info'[u][t] = info[u][t]
    BY <1>6, <1>9, <1>11
  <2>2. \A t \in RewardTokens : claimed'[u][t] = claimed[u][t] + due[t]
    BY <1>10, <1>12
  <2>3. SharesOK(share') /\ (\A v \in Users \ {u} : share'[v] = share[v]) /\ DOMAIN reward' = T
    BY <1>1, <1>4
  <2> QED BY <1>6, <1>8, <1>11, <1>12, <1>13, <1>15, <2>1, <2>2, <2>3 DEF Visited
<1>17. /\ pool' \in Nat /\ totalShare' \in Nat /\ totalShare' <= pool' /\ totalShare' = SumFunctionOnSet(share', Users)
  BY <1>1, StakingSums DEF StakingInv, StakingTypeOK
<1> QED BY <1>1, <1>2, <1>8, <1>14, <1>16, <1>17, VisitKeeps

LEMMA UpdateIndexesKeeps ==
  ASSUME StakingInv, NEW T, UpdateGlobalIndexes(T)
  PROVE  StakingInv' /\ NothingLost
<1>1. /\ UpdateOK(reward', released')
      /\ UNCHANGED <<now, pool, totalShare, share, info, balance, claimed>>
  BY TokensUpdated DEF UpdateGlobalIndexes
<1>2. /\ StakingTypeOK /\ DOMAIN reward \subseteq RewardTokens /\ DOMAIN reward' = DOMAIN reward
      /\ released' \in [Allocated -> Nat]
  BY <1>1 DEF StakingInv, StakingTypeOK, UpdateOK
<1>3. \A t \in DOMAIN reward : RecordOK(t, reward[t])'
  BY <1>1 DEF UpdateOK, RecordOK
<1>4. ASSUME NEW t \in DOMAIN reward
      PROVE  /\ Behind(t, reward'[t], info')
             /\ Covered(t, reward'[t], info', share', balance'[t], PaidOf(t, claimed'),
                        IF t \in Allocated THEN released'[t] ELSE 0)
  BY <1>1 DEF UpdateOK
<1>5. ASSUME NEW t \in RewardTokens \ DOMAIN reward PROVE Untouched(t)'
  BY <1>1 DEF StakingInv, Untouched, UpdateOK
<1>6. totalShare' = SumFunctionOnSet(share', Users) /\ totalShare' <= pool'
  BY <1>1, StakingSums
<1>7. StakingInv'
  BY <1>1, <1>2, <1>3, <1>4, <1>5, <1>6, StakingParts DEF StakingTypeOK
<1>8. NothingLost
  <2> SUFFICES ASSUME NEW v \in Users, NEW t \in RewardTokens PROVE Gained(v, t) <= Gained(v, t)'
    BY DEF NothingLost
  <2>1. GainOf(t, reward, info, share, claimed, v) <= GainOf(t, reward', info, share, claimed, v)
    BY <1>1, UpdateGains
  <2> QED BY <1>1, <2>1, GainedIs
<1> QED BY <1>7, <1>8

\* Time that passes, and tokens that come from outside, owe nobody less.
LEMMA ArrivalsKeep ==
  ASSUME StakingInv, now' = now \/ now' = now + 1, pool' \in Nat, pool <= pool',
         balance' \in [RewardTokens -> Nat], \A t \in RewardTokens : balance[t] <= balance'[t],
         UNCHANGED <<totalShare, share, reward, info, history>>
  PROVE  StakingInv' /\ NothingLost
<1>1. /\ StakingTypeOK /\ DOMAIN reward \subseteq RewardTokens /\ now \in Nat /\ pool \in Nat
      /\ totalShare \in Nat /\ balance \in [RewardTokens -> Nat]
      /\ UNCHANGED <<released, claimed>>
  BY DEF StakingInv, StakingTypeOK, history
<1>2. \A t \in DOMAIN reward : RecordOK(t, reward[t])'
  <2> SUFFICES ASSUME NEW t \in DOMAIN reward PROVE RecordOK(t, reward[t])'
    OBVIOUS
  <2>1. RecordOK(t, reward[t])
    BY <1>1 DEF StakingTypeOK
  <2>2. reward'[t] = reward[t]
    OBVIOUS
  <2> DEFINE r == reward[t]
  <2>3. RecordOK(t, r) /\ r.state = reward[t].state /\ reward[t]' = r
    BY <2>1
  <2>4. CASE t \in NonAllocated
    BY <2>1, <2>4 DEF RecordOK
  <2>5. CASE t \notin NonAllocated
    <3>1. r \in AllocatedRecord /\ r.state.currentCycle <= CyclesElapsed(r.config, now)
      BY <2>1, <2>5 DEF RecordOK
    <3>2. r.config \in GoodConfig /\ r.state.currentCycle \in Nat
      BY <3>1 DEF AllocatedRecord, AllocationState
    <3>3. /\ CyclesElapsed(r.config, now) \in Nat /\ CyclesElapsed(r.config, now + 1) \in Nat
          /\ CyclesElapsed(r.config, now) <= CyclesElapsed(r.config, now + 1)
      <4>1. now + 1 \in Nat
        BY <1>1
      <4> HIDE DEF r
      <4> QED BY <1>1, <3>2, <4>1, CyclesFacts
    <3>4. r.state.currentCycle <= CyclesElapsed(r.config, now')
      <4> HIDE DEF r
      <4> QED BY <3>1, <3>2, <3>3
    <3> QED BY <2>2, <2>5, <3>1, <3>4 DEF RecordOK
  <2> QED BY <2>4, <2>5
<1>3. ASSUME NEW t \in DOMAIN reward
      PROVE  /\ Behind(t, reward'[t], info')
             /\ Covered(t, reward'[t], info', share', balance'[t], PaidOf(t, claimed'),
                        IF t \in Allocated THEN released'[t] ELSE 0)
  <2>1. /\ Behind(t, reward[t], info) /\ RecordOK(t, reward[t])
        /\ Covered(t, reward[t], info, share, balance[t], PaidOf(t, claimed), ReleasedOf(t))
    BY <1>1 DEF StakingInv, StakingTypeOK
  <2>2. balance[t] \in Nat /\ balance'[t] \in Nat /\ balance[t] <= balance'[t]
    BY <1>1
  <2>3. t \in NonAllocated => reward[t].previous \in Nat
    BY <2>1, RecordIndex
  <2>4. Covered(t, reward[t], info, share, balance'[t], PaidOf(t, claimed), ReleasedOf(t))
    BY <2>1, <2>2, <2>3 DEF Covered
  <2> QED BY <1>1, <2>1, <2>4 DEF ReleasedOf
<1>4. ASSUME NEW t \in RewardTokens \ DOMAIN reward PROVE Untouched(t)'
  BY <1>1 DEF StakingInv, Untouched
<1>5. totalShare' = SumFunctionOnSet(share', Users) /\ totalShare' <= pool'
  BY <1>1, StakingSums
<1>6. StakingInv'
  BY <1>1, <1>2, <1>3, <1>4, <1>5, StakingParts DEF StakingTypeOK
<1>7. NothingLost
  <2> SUFFICES ASSUME NEW v \in Users, NEW t \in RewardTokens PROVE Gained(v, t) <= Gained(v, t)'
    BY DEF NothingLost
  <2>1. Gained(v, t)' = Gained(v, t)
    BY <1>1 DEF Gained, Earnings
  <2>2. Gained(v, t) \in Nat
    <3>1. claimed[v][t] \in Nat /\ InfosOK(info) /\ SharesOK(share)
      BY <1>1 DEF StakingTypeOK
    <3>2. CASE t \in DOMAIN reward
      <4>1. reward[t].index \in Nat /\ info[v][t].index <= reward[t].index
        BY <1>1, <3>2, RecordIndex DEF StakingInv, StakingTypeOK, Behind
      <4>2. EarnedOf(t, reward[t].index, info, share, v) \in Nat
        BY <3>1, <4>1, EarnedFacts
      <4> QED BY <3>1, <3>2, <4>2, GainedIs DEF GainOf
    <3>3. CASE t \notin DOMAIN reward
      BY <3>1, <3>3 DEF Gained
    <3> QED BY <3>2, <3>3
  <2> QED BY <2>1, <2>2
<1> QED BY <1>6, <1>7

LEMMA TickKeeps == StakingInv /\ Tick => StakingInv' /\ NothingLost
<1> SUFFICES ASSUME StakingInv, Tick PROVE StakingInv' /\ NothingLost
  OBVIOUS
<1>1. pool \in Nat /\ balance \in [RewardTokens -> Nat]
  BY DEF StakingInv, StakingTypeOK
<1> QED BY <1>1, ArrivalsKeep DEF Tick

LEMMA SendToPoolKeeps ==
  ASSUME StakingInv, NEW amount \in Amounts, SendToPool(amount) PROVE StakingInv' /\ NothingLost
<1>1. pool \in Nat /\ balance \in [RewardTokens -> Nat] /\ amount \in Nat
  BY TokensSplit DEF StakingInv, StakingTypeOK
<1>2. pool' \in Nat /\ pool <= pool' /\ UNCHANGED <<now, totalShare, share, reward, info, balance, history>>
  BY <1>1 DEF SendToPool
<1> QED BY <1>1, <1>2, ArrivalsKeep

LEMMA FundKeeps ==
  ASSUME StakingInv, NEW t \in RewardTokens, NEW amount \in Amounts, Fund(t, amount)
  PROVE  StakingInv' /\ NothingLost
<1>1. pool \in Nat /\ balance \in [RewardTokens -> Nat] /\ amount \in Nat
  BY TokensSplit DEF StakingInv, StakingTypeOK
<1>2. /\ balance' = [balance EXCEPT ![t] = balance[t] + amount]
      /\ UNCHANGED <<now, pool, totalShare, share, reward, info, history>>
  BY <1>1 DEF Fund
<1>3. balance[t] + amount \in Nat /\ balance[t] \in Nat
  BY <1>1
<1>4. balance' \in [RewardTokens -> Nat] /\ \A s \in RewardTokens : balance[s] <= balance'[s]
  BY <1>1, <1>2, <1>3
<1> QED BY <1>1, <1>2, <1>4, ArrivalsKeep

\* A token's record before anything was given out.
LEMMA FreshFacts ==
  ASSUME now \in Nat, NEW t \in RewardTokens, NEW c \in AllocationConfigs,
         NEW at, t \in Allocated => ValidAllocation(c, at)
  PROVE  RecordOK(t, Fresh(t, c)) /\ Fresh(t, c).index = 0 /\ (t \in NonAllocated => Fresh(t, c).previous = 0)
<1>1. CASE t \in NonAllocated
  <2>1. Fresh(t, c) = [index |-> 0, previous |-> 0]
    BY <1>1 DEF Fresh
  <2> QED BY <1>1, <2>1 DEF RecordOK, OpenRecord
<1>2. CASE t \notin NonAllocated
  <2>1. t \in Allocated /\ Fresh(t, c) = [index |-> 0, config |-> c, state |-> InitialAllocation(c)]
    BY <1>2, TokensSplit DEF Fresh
  <2>2. c \in GoodConfig
    BY <2>1, Cw20StakingAssumption DEF GoodConfig, ValidAllocation
  <2>3. /\ InitialAllocation(c) \in AllocationState /\ InitialAllocation(c).currentCycle = 0
        /\ CyclesElapsed(c, now) \in Nat
    BY <2>2, ConfigFields, CyclesFacts DEF InitialAllocation, AllocationState
  <2> HIDE DEF GoodConfig
  <2>4. /\ Fresh(t, c) \in AllocatedRecord /\ Fresh(t, c).index = 0 /\ Fresh(t, c).config = c
        /\ Fresh(t, c).state.currentCycle = 0
    BY <2>1, <2>2, <2>3 DEF AllocatedRecord
  <2> QED BY <1>2, <2>3, <2>4 DEF RecordOK
<1> QED BY <1>1, <1>2

\* It owes nobody anything.
LEMMA FreshCovered ==
  ASSUME NEW t \in RewardTokens, NEW r, r.index = 0, t \in NonAllocated => r.previous = 0,
         NEW infos, \A u \in Users : infos[u][t].index = 0 /\ infos[u][t].pending = 0,
         NEW shares, SharesOK(shares), NEW b \in Nat
  PROVE  Behind(t, r, infos) /\ Covered(t, r, infos, shares, b, 0, 0)
<1>1. \A u \in Users : OwedTable(t, r, infos, shares)[u] = 0
  <2> SUFFICES ASSUME NEW u \in Users PROVE OwedTable(t, r, infos, shares)[u] = 0
    OBVIOUS
  <2>1. OwedTable(t, r, infos, shares)[u] = infos[u][t].pending * DecimalOne + (r.index - infos[u][t].index) * shares[u]
    BY DEF OwedTable
  <2>2. infos[u][t].pending = 0 /\ r.index - infos[u][t].index = 0 /\ shares[u] \in Nat
    BY DEF SharesOK
  <2>3. 0 * DecimalOne = 0 /\ 0 * shares[u] = 0
    BY <2>2, TokensSplit, SMTT(30)
  <2> QED BY <2>1, <2>2, <2>3
<1>2. OwedOf(t, r, infos, shares) = 0
  BY <1>1, TokensSplit, SumZero DEF OwedOf
<1>3. 0 * DecimalOne = 0
  BY TokensSplit, SMTT(30)
<1> QED BY <1>2, <1>3 DEF Behind, Covered

LEMMA AddRewardTokenKeeps ==
  ASSUME StakingInv, NEW t \in RewardTokens, NEW c \in AllocationConfigs, AddRewardToken(t, c)
  PROVE  StakingInv' /\ NothingLost
<1> DEFINE r == Fresh(t, c)
           q == Updated(t, r)
<1>1. /\ t \notin DOMAIN reward /\ (t \in Allocated => ValidAllocation(c, now))
      /\ reward' = [s \in DOMAIN reward \cup {t} |-> IF s = t THEN q ELSE reward[s]]
      /\ released' = [a \in Allocated |-> released[a] + (IF a = t THEN DueNow(r) ELSE 0)]
      /\ UNCHANGED <<now, pool, totalShare, share, info, balance, claimed>>
  BY DEF AddRewardToken
<1>2. /\ StakingTypeOK /\ DOMAIN reward \subseteq RewardTokens /\ now \in Nat /\ pool \in Nat
      /\ totalShare \in Nat /\ balance \in [RewardTokens -> Nat] /\ released \in [Allocated -> Nat]
      /\ SharesOK(share) /\ InfosOK(info) /\ claimed \in [Users -> [RewardTokens -> Nat]]
      /\ totalShare = SumFunctionOnSet(share, Users) /\ totalShare <= pool
  BY StakingSums DEF StakingInv, StakingTypeOK
<1>3. RecordOK(t, r) /\ r.index = 0 /\ (t \in NonAllocated => r.previous = 0)
  BY <1>1, <1>2, FreshFacts
<1>4. Untouched(t)
  BY <1>1 DEF StakingInv
<1> HIDE DEF r
<1>5. PaidOf(t, claimed) = 0
  <2>1. \A u \in Users : PaidTable(t, claimed)[u] = 0
    BY <1>4 DEF PaidTable, Untouched
  <2> QED BY <2>1, TokensSplit, SumZero DEF PaidOf
<1>6. balance[t] \in Nat
  BY <1>2
<1>7. Behind(t, r, info) /\ Covered(t, r, info, share, balance[t], 0, 0)
  BY <1>2, <1>3, <1>4, <1>6, FreshCovered DEF Untouched
<1>8. PICK x \in Nat : Raised(t, r, q, x)
  BY <1>2, <1>3, <1>6, UpdatedRaises
<1> HIDE DEF q
<1>9. RecordOK(t, q) /\ Behind(t, q, info) /\ Covered(t, q, info, share, balance[t], 0, 0 + x)
  <2>1. 0 \in Nat
    OBVIOUS
  <2> QED BY <1>2, <1>3, <1>7, <1>8, <2>1, RaisedCovers
<1>10. t \in Allocated => x = DueNow(r)
  BY <1>8 DEF Raised
<1>11. /\ released' \in [Allocated -> Nat] /\ (t \in Allocated => released'[t] = x)
       /\ \A a \in Allocated \ {t} : released'[a] = released[a]
  <2>1. \A a \in Allocated : released'[a] = released[a] + (IF a = t THEN DueNow(r) ELSE 0)
    BY <1>1
  <2>2. t \in Allocated => released[t] = 0
    BY <1>4 DEF Untouched
  <2>3. \A a \in Allocated : released'[a] \in Nat
    BY <1>2, <1>8, <1>10, <2>1
  <2>4. released' = [a \in Allocated |-> released'[a]]
    BY <1>1
  <2>5. released' \in [Allocated -> Nat]
    BY <2>3, <2>4
  <2>6. t \in Allocated => released'[t] = x
    BY <1>8, <1>10, <2>1, <2>2
  <2> QED BY <1>2, <2>1, <2>5, <2>6
<1>12. \A s \in DOMAIN reward' :
         (s = t /\ reward'[s] = q) \/ (s \in DOMAIN reward /\ s # t /\ reward'[s] = reward[s])
  BY <1>1
<1>13. DOMAIN reward' = DOMAIN reward \cup {t} /\ reward'[t] = q
  <2>1. DOMAIN reward' = DOMAIN reward \cup {t}
    BY <1>1
  <2>2. reward'[t] = q
    BY <1>1
  <2> QED BY <2>1, <2>2
<1>14. StakingTypeOK'
  <2>1. \A s \in DOMAIN reward' : RecordOK(s, reward[s])'
    BY <1>1, <1>2, <1>9, <1>12 DEF RecordOK, StakingTypeOK
  <2> QED BY <1>1, <1>2, <1>11, <1>13, <2>1 DEF StakingTypeOK
<1>15. SharesBacked'
  BY <1>1, <1>2 DEF SharesBacked, SumFunction, SharesOK
<1>16. \A s \in RewardTokens \ DOMAIN reward' : Untouched(s)'
  BY <1>1, <1>11, <1>13 DEF StakingInv, Untouched
<1>17. ASSUME NEW s \in DOMAIN reward'
       PROVE  /\ Behind(s, reward'[s], info')
              /\ Covered(s, reward'[s], info', share', balance'[s], PaidOf(s, claimed'), ReleasedOf(s)')
  <2>1. CASE s = t
    <3>1. t \in NonAllocated \/ (t \in Allocated /\ t \notin NonAllocated)
      BY TokensSplit
    <3>2. Covered(t, q, info, share, balance[t], 0, IF t \in Allocated THEN released'[t] ELSE 0)
      BY <1>8, <1>9, <1>11, <3>1 DEF Covered
    <3> QED BY <1>1, <1>5, <1>9, <1>13, <2>1, <3>2 DEF ReleasedOf
  <2>2. CASE s # t
    <3>1. s \in DOMAIN reward /\ reward'[s] = reward[s] /\ ReleasedOf(s)' = ReleasedOf(s)
      BY <1>11, <1>12, <2>2 DEF ReleasedOf
    <3> QED BY <1>1, <3>1 DEF StakingInv
  <2> QED BY <2>1, <2>2
<1>18. StakingInv'
  BY <1>14, <1>15, <1>16, <1>17 DEF StakingInv
<1>19. NothingLost
  <2> SUFFICES ASSUME NEW v \in Users, NEW s \in RewardTokens PROVE Gained(v, s) <= Gained(v, s)'
    BY DEF NothingLost
  <2>1. CASE s = t
    <3>1. EarnedOf(t, q.index, info, share, v) \in Nat
      <4>1. q.index \in Nat /\ info[v][t].index <= q.index
        BY <1>9, RecordIndex DEF Behind
      <4> QED BY <1>2, <4>1, EarnedFacts
    <3>2. /\ GainOf(s, reward, info, share, claimed, v) = claimed[v][t] + 0
          /\ GainOf(s, reward', info', share', claimed', v) = claimed[v][t] + EarnedOf(t, q.index, info, share, v)
          /\ claimed[v][t] \in Nat
      BY <1>1, <1>2, <1>13, <2>1 DEF GainOf
    <3> QED BY <3>1, <3>2, GainedIs
  <2>2. CASE s # t
    <3>1. GainOf(s, reward, info, share, claimed, v) = GainOf(s, reward', info', share', claimed', v)
      BY <1>1, <1>12, <1>13, <2>2 DEF GainOf
    <3>2. GainOf(s, reward, info, share, claimed, v) \in Nat
      <4>1. claimed[v][s] \in Nat
        BY <1>2
      <4>2. CASE s \in DOMAIN reward
        <5>1. reward[s].index \in Nat /\ info[v][s].index <= reward[s].index
          BY <1>2, <4>2, RecordIndex DEF StakingInv, StakingTypeOK, Behind
        <5>2. EarnedOf(s, reward[s].index, info, share, v) \in Nat
          BY <1>2, <5>1, EarnedFacts
        <5> QED BY <4>1, <4>2, <5>2 DEF GainOf
      <4>3. CASE s \notin DOMAIN reward
        BY <4>1, <4>3 DEF GainOf
      <4> QED BY <4>2, <4>3
    <3> QED BY <3>1, <3>2, GainedIs
  <2> QED BY <2>1, <2>2
<1> QED BY <1>18, <1>19

LEMMA StakingInitial == Init => StakingInv
<1> SUFFICES ASSUME Init PROVE StakingInv
  OBVIOUS
<1>1. PICK c \in [InitialTokens -> AllocationConfigs] :
        /\ \A t \in InitialTokens \cap Allocated : ValidAllocation(c[t], 0)
        /\ reward = [t \in InitialTokens |-> Fresh(t, c[t])]
  BY DEF Init
<1>2. /\ now = 0 /\ pool = 0 /\ totalShare = 0 /\ share = [u \in Users |-> 0]
      /\ info = [u \in Users |-> [t \in RewardTokens |-> [index |-> 0, pending |-> 0]]]
      /\ balance = [t \in RewardTokens |-> 0] /\ released = [t \in Allocated |-> 0]
      /\ claimed = [u \in Users |-> [t \in RewardTokens |-> 0]]
  BY DEF Init
<1>3. InitialTokens \subseteq RewardTokens /\ DOMAIN reward = InitialTokens
  BY <1>1, Cw20StakingAssumption
<1>4. SharesOK(share) /\ InfosOK(info)
  BY <1>2 DEF SharesOK, InfosOK, StakerRecord
<1>5. ASSUME NEW t \in InitialTokens
      PROVE  /\ RecordOK(t, reward[t]) /\ reward[t].index = 0
             /\ t \in NonAllocated => reward[t].previous = 0
  <2>1. /\ t \in RewardTokens /\ c[t] \in AllocationConfigs /\ (t \in Allocated => ValidAllocation(c[t], 0))
        /\ reward[t] = Fresh(t, c[t]) /\ now \in Nat
    BY <1>1, <1>2, <1>3
  <2> QED BY <2>1, FreshFacts
<1>6. StakingTypeOK
  BY <1>2, <1>3, <1>4, <1>5 DEF StakingTypeOK
<1>7. SharesBacked
  <2>1. SumFunctionOnSet(share, Users) = 0
    BY <1>2, TokensSplit, SumZero
  <2> QED BY <1>2, <2>1 DEF SharesBacked, SumFunction
<1>8. \A t \in RewardTokens : Untouched(t)
  BY <1>2 DEF Untouched
<1>9. ASSUME NEW t \in InitialTokens
      PROVE  /\ Behind(t, reward[t], info)
             /\ Covered(t, reward[t], info, share, balance[t], PaidOf(t, claimed), ReleasedOf(t))
  <2>1. PaidOf(t, claimed) = 0
    <3>1. \A u \in Users : PaidTable(t, claimed)[u] = 0
      BY <1>2, <1>3 DEF PaidTable
    <3> QED BY <3>1, TokensSplit, SumZero DEF PaidOf
  <2>2. ReleasedOf(t) = 0 /\ balance[t] = 0 /\ t \in RewardTokens
    BY <1>2, <1>3 DEF ReleasedOf
  <2>3. \A u \in Users : info[u][t].index = 0 /\ info[u][t].pending = 0
    BY <1>8, <2>2 DEF Untouched
  <2> QED BY <1>4, <1>5, <2>1, <2>2, <2>3, FreshCovered
<1> QED BY <1>3, <1>6, <1>7, <1>8, <1>9 DEF StakingInv

LEMMA StakingKeeps == StakingInv /\ Next => StakingInv' /\ NothingLost
<1> SUFFICES ASSUME StakingInv, Next PROVE StakingInv' /\ NothingLost
  OBVIOUS
<1>1. CASE Tick
  BY <1>1, TickKeeps
<1>2. CASE \E amount \in Amounts : SendToPool(amount)
  BY <1>2, SendToPoolKeeps
<1>3. CASE \E amount \in Amounts, t \in RewardTokens : Fund(t, amount)
  BY <1>3, FundKeeps
<1>4. CASE \E amount \in Amounts, u \in Users : StakeTokens(u, amount)
  BY <1>4, StakeTokensKeeps
<1>5. CASE \E amount \in Amounts, u \in Users : UnstakeTokens(u, amount)
  BY <1>5, UnstakeTokensKeeps
<1>6. CASE \E u \in Users : UnstakeAll(u)
  BY <1>6, UnstakeAllKeeps
<1>7. CASE \E u \in Users : ClaimRewards(u)
  BY <1>7, ClaimRewardsKeeps
<1>8. CASE \E t \in RewardTokens, c \in AllocationConfigs : AddRewardToken(t, c)
  BY <1>8, AddRewardTokenKeeps
<1>9. CASE \E T \in SUBSET RewardTokens : UpdateGlobalIndexes(T)
  BY <1>9, UpdateIndexesKeeps
<1> QED BY <1>1, <1>2, <1>3, <1>4, <1>5, <1>6, <1>7, <1>8, <1>9 DEF Next

LEMMA StakingUnchanged == StakingInv /\ UNCHANGED vars => StakingInv'
<1> SUFFICES ASSUME StakingInv, UNCHANGED vars PROVE StakingInv'
  OBVIOUS
<1>1. UNCHANGED <<now, pool, totalShare, share, reward, info, balance, history>>
  BY DEF vars, history
<1>2. pool \in Nat /\ balance \in [RewardTokens -> Nat]
  BY DEF StakingInv, StakingTypeOK
<1> QED BY <1>1, <1>2, ArrivalsKeep

LEMMA StakingFrame == AdosNext => Next \/ UNCHANGED vars
BY DEF AdosNext, OnlyChange

LEMMA StakingCovers == StakingInv => RewardsCovered
<1> SUFFICES ASSUME StakingInv, NEW t \in DOMAIN reward
             PROVE  LET owed == SumFunction([u \in Users |-> Owed(u, t)])
                    IN  IF t \in NonAllocated
                        THEN owed <= reward[t].previous * DecimalOne /\ reward[t].previous <= balance[t]
                        ELSE owed + TotalClaimed(t) * DecimalOne <= released[t] * DecimalOne
  BY DEF RewardsCovered
<1>1. SumFunction([u \in Users |-> Owed(u, t)]) = OwedOf(t, reward[t], info, share)
  BY DEF SumFunction, Owed, OwedOf, OwedTable
<1>2. TotalClaimed(t) = PaidOf(t, claimed)
  BY DEF TotalClaimed, SumFunction, PaidOf, PaidTable
<1>3. Covered(t, reward[t], info, share, balance[t], PaidOf(t, claimed), ReleasedOf(t))
  BY DEF StakingInv
<1>4. t \notin NonAllocated => ReleasedOf(t) = released[t]
  <2>1. t \in RewardTokens
    BY DEF StakingInv, StakingTypeOK
  <2> QED BY <2>1, TokensSplit DEF ReleasedOf
<1> QED BY <1>1, <1>2, <1>3, <1>4 DEF Covered

LEMMA StakingUndiluted == StakingInv => Undiluted
<1> SUFFICES ASSUME StakingInv,
                    \E u \in Users : UnstakeAll(u) \/ \E amount \in Amounts : StakeTokens(u, amount)
             PROVE  ~(totalShare > 0 /\ pool * totalShare' > pool' * totalShare)
  BY DEF Undiluted
<1>1. StakingInv' /\ (pool * totalShare' <= pool' * totalShare \/ totalShare = 0)
  BY StakeTokensKeeps, UnstakeAllKeeps
<1>2. pool \in Nat /\ totalShare \in Nat /\ pool' \in Nat /\ totalShare' \in Nat
  BY <1>1 DEF StakingInv, StakingTypeOK
<1>3. \A a, b, c, d \in Nat : a * b <= c * d => ~(a * b > c * d)
  OBVIOUS
<1>4. pool * totalShare' <= pool' * totalShare => ~(pool * totalShare' > pool' * totalShare)
  BY <1>2, <1>3
<1>5. totalShare = 0 => ~(totalShare > 0)
  BY <1>2
<1> QED BY <1>1, <1>4, <1>5, Zenon
(***************************************************************************)
(* The staking contract: the schedule is kept by whatever is called.       *)
(***************************************************************************)

TokenOnTrack(t) == OnTrack(reward[t].config, reward[t].state, released[t], now)
ScheduleInv == \A t \in DOMAIN reward \cap Allocated : TokenOnTrack(t)

\* It does not matter how late it is.
LEMMA OnTrackLater ==
  ASSUME NEW c \in GoodConfig, NEW s \in AllocationState, NEW p, NEW n \in Nat, NEW m \in Nat, n <= m,
         OnTrack(c, s, p, n)
  PROVE  OnTrack(c, s, p, m)
<1>1. c.init \in Nat /\ s.lastDistributed \in Nat
  BY ConfigFields DEF AllocationState
<1>2. s.lastDistributed <= Later(n, c.init)
  BY DEF OnTrack
<1>3. s.lastDistributed <= Later(m, c.init)
  BY <1>1, <1>2 DEF Later
<1> QED BY <1>3 DEF OnTrack

\* An update of an allocated token, beside what it releases.
LEMMA UpdatedOnTrack ==
  ASSUME now \in Nat, totalShare \in Nat, NEW t \in Allocated, NEW r, RecordOK(t, r), NEW p \in Nat,
         OnTrack(r.config, r.state, p, now)
  PROVE  /\ Updated(t, r).config = r.config
         /\ OnTrack(Updated(t, r).config, Updated(t, r).state, p + DueNow(r), now)
<1>0. t \notin NonAllocated /\ p + 0 = p
  BY Cw20StakingAssumption
<1>1. CASE totalShare = 0
  <2>1. Updated(t, r) = r /\ DueNow(r) = 0
    BY <1>1 DEF Updated, DueNow
  <2> QED BY <1>0, <2>1
<1>2. CASE totalShare # 0 /\ NothingDue(r.config, r.state, now)
  <2>1. Updated(t, r) = r /\ DueNow(r) = 0
    BY <1>0, <1>2 DEF Updated, DueNow
  <2> QED BY <1>0, <2>1
<1>3. CASE totalShare # 0 /\ ~NothingDue(r.config, r.state, now)
  <2> DEFINE c == r.config
             s == r.state
             x == DueNow(r)
             d == FromRatio(x, totalShare)
             st == Distribution(c, s, now).state
             q == Advanced(r, d, st)
  <2>1. x \in Nat /\ r \in AllocatedRecord /\ st \in AllocationState
    BY <1>3, DueNowFacts
  <2>2. x = Distribution(c, s, now).rewards
    BY <1>3 DEF DueNow
  <2>3. Updated(t, r) = q
    BY <1>0, <1>3 DEF Updated, Advanced
  <2>4. d \in Nat
    BY <1>3, <2>1, RatioFacts
  <2>5. c \in GoodConfig /\ s \in AllocationState /\ s.currentCycle <= CyclesElapsed(c, now)
    BY <1>0, <2>1 DEF AllocatedRecord, RecordOK
  <2>6. c.init <= now /\ s.lastDistributed # c.till
    BY <1>3, <2>5, ConfigFields DEF NothingDue
  <2>7. OnTrack(c, st, p + Distribution(c, s, now).rewards, now)
    <3>1. OnTrack(c, s, p, now)
      OBVIOUS
    <3> HIDE DEF c, s
    <3>2. OnTrack(c, Distribution(c, s, now).state, p + Distribution(c, s, now).rewards, now)
      BY <2>5, <2>6, <3>1, DistributionOnTrack
    <3> QED BY <3>2
  <2>8. q.state = st /\ q.config = c
    <3> HIDE DEF d, st, x
    <3> QED BY <2>1, <2>4, AdvancedRecord
  <2> HIDE DEF q, st, x
  <2> QED BY <2>2, <2>3, <2>7, <2>8 DEF x
<1> QED BY <1>1, <1>2, <1>3

\* What a handler leaves of the allocated tokens: each as it was, or updated.
LEMMA TokensOnTrack ==
  ASSUME StakingInv, ScheduleInv, NEW T, now' = now, DOMAIN reward' = DOMAIN reward,
         released' = ReleasedBy(T),
         \A t \in DOMAIN reward \cap Allocated : reward'[t] = UpdatedTokens(T)[t]
  PROVE  ScheduleInv'
<1> SUFFICES ASSUME NEW t \in DOMAIN reward \cap Allocated PROVE TokenOnTrack(t)'
  BY DEF ScheduleInv
<1>1. /\ now \in Nat /\ totalShare \in Nat /\ released[t] \in Nat /\ RecordOK(t, reward[t])
      /\ OnTrack(reward[t].config, reward[t].state, released[t], now)
  BY DEF StakingInv, StakingTypeOK, ScheduleInv, TokenOnTrack
<1>2. /\ released'[t] = released[t] + (IF t \in T THEN DueNow(reward[t]) ELSE 0)
      /\ reward'[t] = IF t \in T THEN Updated(t, reward[t]) ELSE reward[t]
  BY DEF ReleasedBy, UpdatedTokens
<1>3. CASE t \in T
  <2>1. OnTrack(Updated(t, reward[t]).config, Updated(t, reward[t]).state, released[t] + DueNow(reward[t]), now)
    BY <1>1, UpdatedOnTrack
  <2> QED BY <1>2, <1>3, <2>1 DEF TokenOnTrack
<1>4. CASE t \notin T
  <2>1. released[t] + 0 = released[t]
    BY <1>1
  <2> QED BY <1>1, <1>2, <1>4, <2>1 DEF TokenOnTrack
<1> QED BY <1>3, <1>4

\* An allocation that begins is on track: nothing is due and nothing released.
LEMMA FreshOnTrack ==
  ASSUME NEW n \in Nat, NEW t \in Allocated, NEW c \in AllocationConfigs, NEW at, ValidAllocation(c, at)
  PROVE  OnTrack(Fresh(t, c).config, Fresh(t, c).state, 0, n)
<1>1. c \in GoodConfig
  BY Cw20StakingAssumption DEF GoodConfig, ValidAllocation
<1>2. t \notin NonAllocated
  BY Cw20StakingAssumption
<1>3. Fresh(t, c).config = c /\ Fresh(t, c).state = InitialAllocation(c)
  BY <1>2 DEF Fresh
<1>4. /\ c.init \in Nat /\ c.till \in Nat /\ c.init < c.till /\ c.cycleDuration \in Nat /\ c.cycleDuration > 0
      /\ DueUntil(c, c.init) = 0
  BY <1>1, ConfigFields, DueNext
<1>5. 0 * c.cycleDuration = 0
  <2> DEFINE d == c.cycleDuration
  <2>1. d \in Nat
    BY <1>4
  <2> HIDE DEF d
  <2>2. 0 * d = 0
    BY <2>1, SMTT(30)
  <2> QED BY <2>2 DEF d
<1>6. /\ CycleStart(c, 0) = c.init /\ CycleStart(c, 0 + 1) = c.init + c.cycleDuration
      /\ c.cycleRewards = RewardsOfCycle(c, 0)
  <2> DEFINE zero == 0
  <2>1. zero \in Nat
    OBVIOUS
  <2> HIDE DEF zero
  <2>2. CycleStart(c, 0) = c.init /\ CycleStart(c, zero + 1) = CycleStart(c, zero) + c.cycleDuration
        /\ RewardsOfCycle(c, 0) = c.cycleRewards
    BY <1>1, <2>1, CycleStarts, RewardsNext
  <2> QED BY <2>2 DEF zero
<1> DEFINE s == InitialAllocation(c)
<1>7. s.currentCycle = 0 /\ s.currentCycleRewards = c.cycleRewards /\ s.lastDistributed = c.init
  BY DEF InitialAllocation
<1> HIDE DEF s
<1>8. c.init <= c.init + c.cycleDuration /\ c.init < c.init + c.cycleDuration /\ c.init <= Later(n, c.init)
  BY <1>4 DEF Later
<1>9. OnTrack(c, s, 0, n)
  BY <1>4, <1>5, <1>6, <1>7, <1>8 DEF OnTrack
<1> QED BY <1>3, <1>9 DEF s

LEMMA AddedOnTrack ==
  ASSUME StakingInv, ScheduleInv, NEW t \in RewardTokens, NEW c \in AllocationConfigs, AddRewardToken(t, c)
  PROVE  ScheduleInv'
<1> DEFINE r == Fresh(t, c)
<1>1. /\ t \notin DOMAIN reward /\ (t \in Allocated => ValidAllocation(c, now)) /\ now' = now
      /\ reward' = [s \in DOMAIN reward \cup {t} |-> IF s = t THEN Updated(t, r) ELSE reward[s]]
      /\ released' = [a \in Allocated |-> released[a] + (IF a = t THEN DueNow(r) ELSE 0)]
  BY DEF AddRewardToken
<1>2. now \in Nat /\ totalShare \in Nat /\ released \in [Allocated -> Nat] /\ Untouched(t)
  BY <1>1 DEF StakingInv, StakingTypeOK
<1>3. RecordOK(t, r)
  BY <1>1, <1>2, FreshFacts
<1>4. ASSUME t \in Allocated PROVE OnTrack(r.config, r.state, 0, now)
  BY <1>1, <1>2, <1>4, FreshOnTrack
<1> HIDE DEF r
<1> SUFFICES ASSUME NEW s \in DOMAIN reward' \cap Allocated PROVE TokenOnTrack(s)'
  BY DEF ScheduleInv
<1>5. released'[s] = released[s] + (IF s = t THEN DueNow(r) ELSE 0)
  BY <1>1
<1>6. CASE s = t
  <2>1. released[s] = 0 /\ reward'[s] = Updated(t, r) /\ 0 \in Nat
    BY <1>1, <1>2, <1>6 DEF Untouched
  <2>2. OnTrack(Updated(t, r).config, Updated(t, r).state, 0 + DueNow(r), now)
    BY <1>2, <1>3, <1>4, <1>6, <2>1, UpdatedOnTrack
  <2> QED BY <1>1, <1>5, <1>6, <2>1, <2>2 DEF TokenOnTrack
<1>7. CASE s # t
  <2>1. s \in DOMAIN reward /\ reward'[s] = reward[s]
    BY <1>1, <1>7
  <2>2. released'[s] = released[s]
    BY <1>2, <1>5, <1>7
  <2> QED BY <1>1, <2>1, <2>2 DEF ScheduleInv, TokenOnTrack
<1> QED BY <1>6, <1>7

LEMMA ScheduleUnmoved ==
  ASSUME StakingInv, ScheduleInv, StakingInv', UNCHANGED <<reward, released>>, now <= now'
  PROVE  ScheduleInv'
<1> SUFFICES ASSUME NEW t \in DOMAIN reward \cap Allocated PROVE TokenOnTrack(t)'
  BY DEF ScheduleInv
<1>1. now \in Nat /\ now' \in Nat /\ RecordOK(t, reward[t]) /\ t \notin NonAllocated
  BY Cw20StakingAssumption DEF StakingInv, StakingTypeOK
<1>2. reward[t].config \in GoodConfig /\ reward[t].state \in AllocationState
  BY <1>1 DEF RecordOK, AllocatedRecord
<1>3. OnTrack(reward[t].config, reward[t].state, released[t], now)
  BY DEF ScheduleInv, TokenOnTrack
<1>4. OnTrack(reward[t].config, reward[t].state, released[t], now')
  BY <1>1, <1>2, <1>3, OnTrackLater
<1> QED BY <1>4 DEF TokenOnTrack

LEMMA ScheduleInitial == Init => ScheduleInv
<1> SUFFICES ASSUME Init, NEW t \in DOMAIN reward \cap Allocated PROVE TokenOnTrack(t)
  BY DEF ScheduleInv
<1>1. PICK c \in [InitialTokens -> AllocationConfigs] :
        /\ \A s \in InitialTokens \cap Allocated : ValidAllocation(c[s], 0)
        /\ reward = [s \in InitialTokens |-> Fresh(s, c[s])]
  BY DEF Init
<1>2. t \in InitialTokens /\ ValidAllocation(c[t], 0) /\ reward[t] = Fresh(t, c[t])
      /\ c[t] \in AllocationConfigs
  BY <1>1
<1>3. now = 0 /\ now \in Nat /\ released[t] = 0
  BY DEF Init
<1>4. OnTrack(Fresh(t, c[t]).config, Fresh(t, c[t]).state, 0, now)
  BY <1>2, <1>3, FreshOnTrack
<1> QED BY <1>2, <1>3, <1>4 DEF TokenOnTrack

LEMMA ScheduleKeeps == StakingInv /\ ScheduleInv /\ Next => ScheduleInv'
<1> SUFFICES ASSUME StakingInv, ScheduleInv, Next PROVE ScheduleInv'
  OBVIOUS
<1>0. StakingInv' /\ now \in Nat
  BY StakingKeeps DEF StakingInv, StakingTypeOK
<1> DEFINE D == DOMAIN reward
<1>1. CASE Tick \/ \E amount \in Amounts : SendToPool(amount) \/ \E t \in RewardTokens : Fund(t, amount)
  <2>1. CASE Tick
    BY <1>0, <2>1, ScheduleUnmoved DEF Tick, history
  <2>2. CASE \E amount \in Amounts : SendToPool(amount) \/ \E t \in RewardTokens : Fund(t, amount)
    <3>1. UNCHANGED <<now, reward, history>>
      BY <2>2 DEF SendToPool, Fund
    <3>2. UNCHANGED <<reward, released>> /\ now <= now'
      BY <1>0, <3>1 DEF history
    <3> QED BY <1>0, <3>2, ScheduleUnmoved
  <2> QED BY <1>1, <2>1, <2>2
<1>2. ASSUME NEW u \in Users, UpdateFor(u), now' = now PROVE ScheduleInv'
  <2>1. reward' = UpdatedTokens(D) /\ released' = ReleasedBy(D)
    BY <1>2 DEF UpdateFor
  <2>2. DOMAIN reward' = D
    BY <2>1 DEF UpdatedTokens
  <2> QED BY <1>2, <2>1, <2>2, TokensOnTrack
<1>3. CASE \E amount \in Amounts, u \in Users : StakeTokens(u, amount) \/ UnstakeTokens(u, amount)
  BY <1>2, <1>3 DEF StakeTokens, UnstakeTokens, Unstake
<1>4. CASE \E u \in Users : UnstakeAll(u)
  BY <1>2, <1>4 DEF UnstakeAll, Unstake
<1>5. CASE \E u \in Users : ClaimRewards(u)
  <2>1. PICK u \in Users : ClaimRewards(u)
    BY <1>5
  <2>2. released' = ReleasedBy(D) /\ now' = now /\ DOMAIN reward' = D
        /\ \A t \in D : t \notin NonAllocated => reward'[t] = UpdatedTokens(D)[t]
    BY <2>1 DEF ClaimRewards
  <2>3. \A t \in D \cap Allocated : reward'[t] = UpdatedTokens(D)[t]
    BY <2>2, Cw20StakingAssumption
  <2> QED BY <2>2, <2>3, TokensOnTrack
<1>6. CASE \E t \in RewardTokens, c \in AllocationConfigs : AddRewardToken(t, c)
  BY <1>6, AddedOnTrack
<1>7. CASE \E T \in SUBSET RewardTokens : UpdateGlobalIndexes(T)
  <2>1. PICK T : UpdateGlobalIndexes(T)
    BY <1>7
  <2>2. reward' = UpdatedTokens(T) /\ released' = ReleasedBy(T) /\ now' = now
    BY <2>1 DEF UpdateGlobalIndexes
  <2>3. DOMAIN reward' = D
    BY <2>2 DEF UpdatedTokens
  <2> QED BY <2>2, <2>3, TokensOnTrack
<1> QED BY <1>1, <1>3, <1>4, <1>5, <1>6, <1>7 DEF Next

LEMMA ScheduleUnchanged == StakingInv /\ ScheduleInv /\ UNCHANGED vars => ScheduleInv'
<1> SUFFICES ASSUME StakingInv, ScheduleInv, UNCHANGED vars PROVE ScheduleInv'
  OBVIOUS
<1>1. UNCHANGED <<now, reward, history>>
  BY DEF vars, history
<1>2. StakingInv' /\ now \in Nat
  BY StakingUnchanged DEF StakingInv, StakingTypeOK
<1>3. UNCHANGED <<reward, released>> /\ now <= now'
  BY <1>1, <1>2 DEF history
<1> QED BY <1>2, <1>3, ScheduleUnmoved

LEMMA ScheduleOn == ScheduleInv => OnSchedule
BY DEF ScheduleInv, TokenOnTrack, OnTrack, OnSchedule

(***************************************************************************)
(* The token.                                                              *)
(***************************************************************************)
TokenInv ==
  /\ tokens \in [Holders -> Nat]
  /\ supply = SumFunctionOnSet(tokens, Holders)
  /\ price \in Nat
  /\ rates \in RateLists
  /\ \A k \in DOMAIN values : values[k] \in PrimitiveValues

LEMMA HolderFacts ==
  /\ IsFiniteSet(Holders) /\ Actors \subseteq Holders /\ TokenAmounts \subseteq Nat
  /\ TokenOwner \in Holders
<1>1. IsFiniteSet(Actors \cup Contracts)
  BY CommonAssumption, FS_Union
<1> QED BY <1>1, Cw20Assumption, FS_Subset DEF Holders

\* Balances that sum to n.
Balanced(n) == {b \in [Holders -> Nat] : SumFunctionOnSet(b, Holders) = n}

LEMMA BalanceChanged ==
  ASSUME NEW b \in [Holders -> Nat], NEW h \in Holders, NEW m \in Nat,
         NEW d \in [Holders -> Nat], d[h] = m, \A g \in Holders \ {h} : d[g] = b[g]
  PROVE  /\ SumFunctionOnSet(d, Holders) = SumFunctionOnSet(b, Holders) - b[h] + m
         /\ SumFunctionOnSet(b, Holders) \in Nat
<1>1. \A g \in Holders : b[g] \in Int /\ d[g] \in Int
  OBVIOUS
<1>2. SumFunctionOnSet(d, Holders) = SumFunctionOnSet(b, Holders) - b[h] + d[h]
  BY <1>1, HolderFacts, SumChange
<1>3. SumFunctionOnSet(b, Holders) \in Nat
  <2>1. \A g \in Holders : b[g] \in Nat
    OBVIOUS
  <2> QED BY <2>1, HolderFacts, SumNat
<1> QED BY <1>2, <1>3

LEMMA MovedKeeps ==
  ASSUME NEW b \in [Holders -> Nat], NEW from \in Holders, NEW to \in Holders, NEW n \in Nat, n <= b[from]
  PROVE  /\ Moved(b, from, to, n) \in [Holders -> Nat]
         /\ SumFunctionOnSet(Moved(b, from, to, n), Holders) = SumFunctionOnSet(b, Holders)
<1> DEFINE c == [b EXCEPT ![from] = b[from] - n]
           d == [c EXCEPT ![to] = c[to] + n]
<1>1. b[from] - n \in Nat /\ b[from] \in Nat
  OBVIOUS
<1>2. /\ c \in [Holders -> Nat]
      /\ SumFunctionOnSet(c, Holders) = SumFunctionOnSet(b, Holders) - b[from] + (b[from] - n)
      /\ SumFunctionOnSet(b, Holders) \in Nat
  <2>1. c \in [Holders -> Nat] /\ c[from] = b[from] - n /\ \A g \in Holders \ {from} : c[g] = b[g]
    BY <1>1
  <2> HIDE DEF c
  <2> QED BY <1>1, <2>1, BalanceChanged
<1>3. d = Moved(b, from, to, n)
  BY DEF Moved
<1> HIDE DEF c
<1>4. c[to] + n \in Nat /\ c[to] \in Nat
  BY <1>2
<1>5. d \in [Holders -> Nat] /\ SumFunctionOnSet(d, Holders) = SumFunctionOnSet(c, Holders) - c[to] + (c[to] + n)
  <2>1. d \in [Holders -> Nat] /\ d[to] = c[to] + n /\ \A g \in Holders \ {to} : d[g] = c[g]
    BY <1>2, <1>4
  <2> HIDE DEF d
  <2> QED BY <1>2, <1>4, <2>1, BalanceChanged
<1> HIDE DEF d
<1> QED BY <1>1, <1>2, <1>3, <1>4, <1>5

Payment == [to : Holders, fee : Nat]

RateRecord == [kind : {"flat", "percent", "external"}, n : Nat, additive : BOOLEAN, to : Seq(Actors \cup Contracts)]

LEMMA RateIsRecord ==
  ASSUME TokenInv, NEW i \in DOMAIN rates
  PROVE  /\ rates[i] \in RateRecord /\ rates[i].to \in Seq(Actors \cup Contracts)
         /\ \A j \in DOMAIN rates[i].to : rates[i].to[j] \in Holders
<1>1. rates \in Seq(RateRecord) /\ rates \in RateLists
  BY RatesAssumption DEF TokenInv, RateRecord
<1>2. rates[i] \in RateRecord
  BY <1>1
<1> QED BY <1>1, <1>2, Cw20Assumption DEF RateRecord, Holders

\* A percentage that charges no remainder takes no less than its exact part.
LEMMA InverseBound ==
  ASSUME NEW p \in Nat, NEW n \in Nat, NEW m \in Nat, NEW fee \in Nat, p > 0, n > 0,
         m <= (fee * ((p * p) \div n)) \div p
  PROVE  m * n <= fee * p
<1> DEFINE square == p * p
           inverse == square \div n
           back == fee * inverse
           reversed == back \div p
<1>1. square \in Nat
  BY SMTT(30)
<1>2. inverse \in Nat /\ n * inverse <= square
  <2> HIDE DEF square
  <2> QED BY <1>1, DivFacts
<1>3. back \in Nat
  <2> HIDE DEF inverse
  <2> QED BY <1>2, SMTT(30)
<1>4. reversed \in Nat /\ p * reversed <= back
  <2> HIDE DEF back
  <2> QED BY <1>3, DivFacts
<1>5. m <= reversed
  OBVIOUS
<1>6. p * m <= fee * inverse /\ n * inverse <= p * p
  <2>1. p * m <= p * reversed
    <3> HIDE DEF reversed
    <3> QED BY <1>4, <1>5, SMTT(30)
  <2> DEFINE x == p * m
             y == p * reversed
             z == fee * inverse
  <2>2. x \in Int /\ y \in Int /\ z \in Int /\ x <= y /\ y <= z
    <3>1. y \in Int
      <4> HIDE DEF reversed
      <4> QED BY <1>4, SMTT(30)
    <3>2. x \in Int
      BY SMTT(30)
    <3> QED BY <1>3, <1>4, <2>1, <3>1, <3>2
  <2>3. x <= z
    <3> HIDE DEF x, y, z
    <3> QED BY <2>2
  <2> QED BY <1>2, <2>3
<1> HIDE DEF square, inverse, back, reversed
<1>7. (p * m) * n <= (fee * inverse) * n /\ fee * (n * inverse) <= fee * (p * p)
  <2>1. \A a, b, c \in Nat : a <= b => a * c <= b * c /\ c * a <= c * b
    BY SMTT(30)
  <2>2. p * m \in Nat /\ fee * inverse \in Nat /\ n * inverse \in Nat /\ p * p \in Nat
    BY <1>2, SMTT(30)
  <2> QED BY <1>6, <2>1, <2>2
<1>8. (fee * inverse) * n = fee * (n * inverse) /\ (p * m) * n = p * (m * n) /\ fee * (p * p) = p * (fee * p)
  BY <1>2, SMTT(30)
<1>9. m * n \in Nat /\ fee * p \in Nat /\ fee * (n * inverse) \in Nat
  BY <1>2, SMTT(30)
<1> DEFINE u == m * n
           v == fee * p
<1>10. p * u <= p * v /\ u \in Nat /\ v \in Nat
  <2>1. p * (m * n) \in Int /\ p * (fee * p) \in Int
    BY <1>9, SMTT(30)
  <2> DEFINE x == p * (m * n)
             y == fee * (n * inverse)
             z == p * (fee * p)
  <2>2. x <= y /\ y <= z /\ x \in Int /\ y \in Int /\ z \in Int
    BY <1>7, <1>8, <1>9, <2>1
  <2>3. x <= z
    <3> HIDE DEF x, y, z
    <3> QED BY <2>2
  <2> QED BY <1>9, <2>3
<1>11. u <= v
  <2> HIDE DEF u, v
  <2>1. \A a, b \in Nat : p * a <= p * b => a <= b
    BY SMTT(30)
  <2> QED BY <1>10, <2>1
<1> QED BY <1>11

\* A fee is a whole number of tokens; a percentage rounds up to one.
LEMMA FeeFacts ==
  ASSUME TokenInv, NEW amount \in Nat, NEW i \in DOMAIN rates, RateValid(rates[i])
  PROVE  /\ FeeOf(i, amount) \in Nat
         /\ RateValue(rates[i]).kind = "percent" =>
              /\ amount * RateValue(rates[i]).n <= FeeOf(i, amount) * PercentOne
              /\ FeeOf(i, amount) * PercentOne <= amount * RateValue(rates[i]).n + PercentOne
<1> DEFINE r == rates[i]
           v == RateValue(r)
<1>1. r.n \in Nat /\ r.kind \in {"flat", "percent", "external"}
  <2>1. r \in RateRecord
    BY RateIsRecord
  <2> QED BY <2>1 DEF RateRecord
<1>3. v.n \in Nat /\ v.kind \in {"flat", "percent"} /\ v.n > 0
  <2>1. CASE r.kind = "external"
    <3>1. r.n \in DOMAIN values
      BY <2>1 DEF RateValid, HasValue
    <3>2. values[r.n].n \in Nat
      BY <3>1, PrimitiveAssumption DEF TokenInv
    <3> QED BY <2>1, <3>2 DEF RateValue, RateValid
  <2>2. CASE r.kind # "external"
    BY <1>1, <2>2 DEF RateValue, RateValid
  <2> QED BY <2>1, <2>2
<1> HIDE DEF v
<1>4. PercentOne \in Nat /\ PercentOne > 0
  BY CommonAssumption
<1>5. ASSUME NEW m \in Nat, NEW k \in Nat PROVE Portion(m, k) \in Nat
  <2>1. m * k \in Nat
    BY SMTT(30)
  <2> QED BY <1>4, <2>1, DivFacts DEF Portion
<1>6. (PercentOne * PercentOne) \div v.n \in Nat
  <2>1. PercentOne * PercentOne \in Nat
    BY <1>4, SMTT(30)
  <2> QED BY <1>3, <2>1, DivFacts
<1>7. /\ CalculateFee(v, amount) \in Nat
      /\ v.kind = "percent" => /\ amount * v.n <= CalculateFee(v, amount) * PercentOne
                               /\ CalculateFee(v, amount) * PercentOne <= amount * v.n + PercentOne
  <2> DEFINE fee == Portion(amount, v.n)
             reversed == Portion(fee, (PercentOne * PercentOne) \div v.n)
  <2>1. fee \in Nat /\ reversed \in Nat
    BY <1>3, <1>5, <1>6
  <2>2. CalculateFee(v, amount)
          = CASE v.kind = "flat" -> v.n
              [] v.kind = "percent" /\ amount > reversed -> fee + 1
              [] v.kind = "percent" /\ amount <= reversed -> fee
    BY DEF CalculateFee
  <2> DEFINE exact == amount * v.n
  <2>3. exact \in Nat
    BY <1>3, SMTT(30)
  <2>4. PercentOne * fee <= exact /\ exact < PercentOne * fee + PercentOne
    <3> HIDE DEF exact
    <3>1. fee = exact \div PercentOne
      BY DEF Portion, exact
    <3> QED BY <1>4, <2>3, <3>1, DivFacts
  <2>5. amount <= reversed => exact <= fee * PercentOne
    <3> HIDE DEF fee
    <3>1. reversed = (fee * ((PercentOne * PercentOne) \div v.n)) \div PercentOne
      BY DEF Portion
    <3> HIDE DEF reversed
    <3> QED BY <1>3, <1>4, <2>1, <3>1, InverseBound
  <2> HIDE DEF fee, reversed
  <2>6. /\ fee * PercentOne = PercentOne * fee /\ PercentOne * fee \in Nat
        /\ (fee + 1) * PercentOne = PercentOne * fee + PercentOne
    BY <1>4, <2>1, SMTT(30)
  <2> DEFINE low == PercentOne * fee
             charged == CalculateFee(v, amount) * PercentOne
  <2>7. low \in Nat /\ low <= exact /\ exact < low + PercentOne
    BY <2>4, <2>6
  <2>8. CASE v.kind = "flat"
    BY <1>3, <2>2, <2>8
  <2>9. CASE v.kind = "percent" /\ amount > reversed
    <3>1. CalculateFee(v, amount) = fee + 1
      BY <2>1, <2>2, <2>9
    <3>2. charged = low + PercentOne
      BY <2>6, <3>1
    <3>3. exact <= charged /\ charged <= exact + PercentOne
      <4> HIDE DEF low, exact, charged
      <4> QED BY <1>4, <2>3, <2>7, <3>2
    <3> QED BY <2>1, <3>1, <3>3
  <2>10. CASE v.kind = "percent" /\ amount <= reversed
    <3>1. CalculateFee(v, amount) = fee /\ charged = low
      BY <1>3, <2>1, <2>2, <2>6, <2>10
    <3>2. exact <= low
      BY <2>5, <2>6, <2>10
    <3>3. exact <= charged /\ charged <= exact + PercentOne
      <4> HIDE DEF low, exact, charged
      <4> QED BY <1>4, <2>3, <2>7, <3>1, <3>2
    <3> QED BY <2>1, <3>1, <3>3
  <2> QED BY <1>3, <2>1, <2>8, <2>9, <2>10
<1> QED BY <1>7 DEF FeeOf, v

\* The payments of one rate.
FeesOf(i, amount) == [j \in DOMAIN rates[i].to |-> [to |-> rates[i].to[j], fee |-> FeeOf(i, amount)]]
IsFeeList(amount, g) ==
  g = [i \in 0 .. Len(rates) |-> IF i = 0 THEN << >> ELSE g[i - 1] \o FeesOf(i, amount)]

LEMMA FeesOfType ==
  ASSUME TokenInv, NEW amount \in Nat, \A i \in DOMAIN rates : RateValid(rates[i]),
         NEW i \in 1 .. Len(rates)
  PROVE  FeesOf(i, amount) \in Seq(Payment)
<1>1. i \in DOMAIN rates
  <2>1. rates \in Seq(RateRecord)
    BY RatesAssumption DEF TokenInv, RateRecord
  <2> QED BY <2>1
<1>2. rates[i].to \in Seq(Actors \cup Contracts) /\ \A j \in DOMAIN rates[i].to : rates[i].to[j] \in Holders
  BY <1>1, RateIsRecord
<1>3. FeeOf(i, amount) \in Nat
  BY <1>1, FeeFacts
<1>5. \A j \in 1 .. Len(rates[i].to) : [to |-> rates[i].to[j], fee |-> FeeOf(i, amount)] \in Payment
  BY <1>2, <1>3 DEF Payment
<1>6. DOMAIN rates[i].to = 1 .. Len(rates[i].to) /\ Len(rates[i].to) \in Nat
  BY <1>2
<1> QED BY <1>5, <1>6 DEF FeesOf

LEMMA FeePaymentsType ==
  ASSUME TokenInv, NEW amount \in Nat, \A i \in DOMAIN rates : RateValid(rates[i])
  PROVE  FeePayments(amount) \in Seq(Payment)
<1> DEFINE hi == Len(rates)
           g == CHOOSE f : IsFeeList(amount, f)
           body == [x \in Seq(Payment) \X (0 .. hi) |-> x[1] \o FeesOf(x[2], amount)]
<1>1. hi \in Nat /\ 0 \in Int /\ hi \in Int /\ 0 <= hi
  BY RatesAssumption DEF TokenInv
<1>2. << >> \in Seq(Payment)
  OBVIOUS
<1>3. \A b \in Seq(Payment), i \in 1 .. hi : b \o FeesOf(i, amount) \in Seq(Payment)
  BY FeesOfType
<1> HIDE DEF hi
<1>4. \E f : IsFeeList(amount, f)
  <2>1. PICK h : IsLoop(h, 0, hi, << >>, body)
    <3> HIDE DEF body
    <3> QED BY <1>1, LoopExists
  <2>2. h = [k \in 0 .. hi |-> IF k = 0 THEN << >> ELSE body[<<h[k - 1], k>>]]
    BY <2>1 DEF IsLoop
  <2>3. h[0] \in Seq(Payment)
    BY <1>1, <1>2, <2>2
  <2>4. \A k \in (0 + 1) .. hi : h[k - 1] \in Seq(Payment) => h[k] = h[k - 1] \o FeesOf(k, amount)
    <3> SUFFICES ASSUME NEW k \in (0 + 1) .. hi, h[k - 1] \in Seq(Payment)
                 PROVE  h[k] = h[k - 1] \o FeesOf(k, amount)
      OBVIOUS
    <3>1. k \in 0 .. hi /\ k # 0
      BY <1>1
    <3>2. h[k] = body[<<h[k - 1], k>>]
      <4> HIDE DEF body
      <4> QED BY <2>2, <3>1
    <3>3. <<h[k - 1], k>> \in Seq(Payment) \X (0 .. hi)
      BY <3>1
    <3> QED BY <3>2, <3>3
  <2> HIDE DEF body
  <2>5. \A k \in 0 .. hi : h[k] \in Seq(Payment)
    <3>1. \A k \in (0 + 1) .. hi : h[k - 1] \in Seq(Payment) => h[k] \in Seq(Payment)
      <4> SUFFICES ASSUME NEW k \in (0 + 1) .. hi, h[k - 1] \in Seq(Payment) PROVE h[k] \in Seq(Payment)
        OBVIOUS
      <4>1. k \in 1 .. hi
        BY <1>1
      <4> QED BY <1>3, <2>4, <4>1
    <3> QED BY <1>1, <2>3, <3>1, LoopInvariant
  <2>6. \A k \in 0 .. hi : h[k] = IF k = 0 THEN << >> ELSE h[k - 1] \o FeesOf(k, amount)
    <3> SUFFICES ASSUME NEW k \in 0 .. hi
                 PROVE  h[k] = IF k = 0 THEN << >> ELSE h[k - 1] \o FeesOf(k, amount)
      OBVIOUS
    <3>1. CASE k = 0
      BY <2>2, <3>1
    <3>2. CASE k # 0
      <4>1. k \in (0 + 1) .. hi /\ k - 1 \in 0 .. hi
        BY <1>1, <3>2
      <4> QED BY <2>4, <2>5, <3>2, <4>1
    <3> QED BY <3>1, <3>2
  <2>7. DOMAIN h = 0 .. hi /\ h = [k \in DOMAIN h |-> h[k]]
    BY <2>2
  <2>8. h = [k \in 0 .. hi |-> IF k = 0 THEN << >> ELSE h[k - 1] \o FeesOf(k, amount)]
    BY <2>6, <2>7
  <2> QED BY <2>8 DEF IsFeeList, hi
<1>5. g = [k \in 0 .. hi |-> IF k = 0 THEN << >> ELSE g[k - 1] \o FeesOf(k, amount)]
  <2>1. IsFeeList(amount, g)
    BY <1>4
  <2> HIDE DEF g
  <2> QED BY <2>1 DEF IsFeeList, hi
<1>6. FeePayments(amount) = g[hi]
  BY DEF FeePayments, IsFeeList, FeesOf, hi
<1>7. g[hi] \in Seq(Payment)
  <2> HIDE DEF g
  <2>1. g[0] \in Seq(Payment)
    BY <1>1, <1>2, <1>5
  <2>2. \A k \in (0 + 1) .. hi : g[k - 1] \in Seq(Payment) => g[k] \in Seq(Payment)
    <3> SUFFICES ASSUME NEW k \in (0 + 1) .. hi, g[k - 1] \in Seq(Payment) PROVE g[k] \in Seq(Payment)
      OBVIOUS
    <3>1. k \in 1 .. hi /\ k \in 0 .. hi /\ k # 0
      BY <1>1
    <3> QED BY <1>3, <1>5, <3>1
  <2>3. \A k \in 0 .. hi : g[k] \in Seq(Payment)
    BY <1>1, <2>1, <2>2, LoopInvariant
  <2> QED BY <1>1, <2>3
<1> QED BY <1>6, <1>7

\* The balances while the fees leave.
IsAfterFees(s, list, g) ==
  g = [k \in 0 .. Len(list) |-> IF k = 0 THEN tokens ELSE Moved(g[k - 1], s, list[k].to, list[k].fee)]

LEMMA AfterFeesIs ==
  ASSUME TokenInv, NEW s \in Holders, NEW list \in Seq(Payment)
  PROVE  IsAfterFees(s, list, AfterFees(s, list))
<1> DEFINE hi == Len(list)
           B == [Holders -> Int]
           body == [x \in B \X (0 .. hi) |-> Moved(x[1], s, list[x[2]].to, list[x[2]].fee)]
           g == CHOOSE f : IsAfterFees(s, list, f)
<1>1. hi \in Nat /\ 0 \in Int /\ hi \in Int /\ 0 <= hi /\ \A k \in 1 .. hi : list[k] \in Payment
  OBVIOUS
<1>2. tokens \in B
  BY DEF TokenInv
<1>3. \A b \in B, k \in 1 .. hi : Moved(b, s, list[k].to, list[k].fee) \in B
  <2> SUFFICES ASSUME NEW b \in B, NEW k \in 1 .. hi PROVE Moved(b, s, list[k].to, list[k].fee) \in B
    OBVIOUS
  <2>1. list[k].to \in Holders /\ list[k].fee \in Nat
    BY <1>1 DEF Payment
  <2> QED BY <2>1 DEF Moved
<1> HIDE DEF hi, B
<1>4. \E f : IsAfterFees(s, list, f)
  <2>1. PICK h : IsLoop(h, 0, hi, tokens, body)
    <3> HIDE DEF body
    <3> QED BY <1>1, LoopExists
  <2>2. h = [k \in 0 .. hi |-> IF k = 0 THEN tokens ELSE body[<<h[k - 1], k>>]]
    BY <2>1 DEF IsLoop
  <2>3. h[0] \in B
    BY <1>1, <1>2, <2>2
  <2>4. \A k \in (0 + 1) .. hi : h[k - 1] \in B => h[k] = Moved(h[k - 1], s, list[k].to, list[k].fee)
    <3> SUFFICES ASSUME NEW k \in (0 + 1) .. hi, h[k - 1] \in B
                 PROVE  h[k] = Moved(h[k - 1], s, list[k].to, list[k].fee)
      OBVIOUS
    <3>1. k \in 0 .. hi /\ k # 0
      BY <1>1
    <3>2. h[k] = body[<<h[k - 1], k>>]
      <4> HIDE DEF body
      <4> QED BY <2>2, <3>1
    <3>3. <<h[k - 1], k>> \in B \X (0 .. hi)
      BY <3>1
    <3> QED BY <3>2, <3>3
  <2> HIDE DEF body
  <2>5. \A k \in 0 .. hi : h[k] \in B
    <3>1. \A k \in (0 + 1) .. hi : h[k - 1] \in B => h[k] \in B
      <4> SUFFICES ASSUME NEW k \in (0 + 1) .. hi, h[k - 1] \in B PROVE h[k] \in B
        OBVIOUS
      <4>1. k \in 1 .. hi
        BY <1>1
      <4> QED BY <1>3, <2>4, <4>1
    <3> QED BY <1>1, <2>3, <3>1, LoopInvariant
  <2>6. \A k \in 0 .. hi : h[k] = IF k = 0 THEN tokens ELSE Moved(h[k - 1], s, list[k].to, list[k].fee)
    <3> SUFFICES ASSUME NEW k \in 0 .. hi
                 PROVE  h[k] = IF k = 0 THEN tokens ELSE Moved(h[k - 1], s, list[k].to, list[k].fee)
      OBVIOUS
    <3>1. CASE k = 0
      BY <2>2, <3>1
    <3>2. CASE k # 0
      <4>1. k \in (0 + 1) .. hi /\ k - 1 \in 0 .. hi
        BY <1>1, <3>2
      <4> QED BY <2>4, <2>5, <3>2, <4>1
    <3> QED BY <3>1, <3>2
  <2>7. DOMAIN h = 0 .. hi /\ h = [k \in DOMAIN h |-> h[k]]
    BY <2>2
  <2>8. h = [k \in 0 .. hi |-> IF k = 0 THEN tokens ELSE Moved(h[k - 1], s, list[k].to, list[k].fee)]
    BY <2>6, <2>7
  <2> QED BY <2>8 DEF IsAfterFees, hi
<1>5. IsAfterFees(s, list, g)
  BY <1>4
<1>6. AfterFees(s, list) = g
  BY DEF AfterFees, IsAfterFees
<1> QED BY <1>5, <1>6

\* Fees that the sender has leave the sum as it is.
LEMMA AfterFeesKeep ==
  ASSUME TokenInv, NEW s \in Holders, NEW list \in Seq(Payment),
         \A k \in DOMAIN list : list[k].fee <= AfterFees(s, list)[k - 1][s]
  PROVE  AfterFees(s, list)[Len(list)] \in Balanced(supply)
<1> DEFINE hi == Len(list)
           g == AfterFees(s, list)
           B == Balanced(supply)
<1>1. g = [k \in 0 .. hi |-> IF k = 0 THEN tokens ELSE Moved(g[k - 1], s, list[k].to, list[k].fee)]
  BY AfterFeesIs DEF IsAfterFees
<1>2. /\ hi \in Nat /\ 0 \in Int /\ hi \in Int /\ DOMAIN list = 1 .. hi
      /\ \A k \in 1 .. hi : list[k].to \in Holders /\ list[k].fee \in Nat
  <2>1. hi \in Nat /\ DOMAIN list = 1 .. hi /\ \A k \in 1 .. hi : list[k] \in Payment
    OBVIOUS
  <2>2. \A x \in Payment : x.to \in Holders /\ x.fee \in Nat
    BY DEF Payment
  <2> HIDE DEF hi
  <2> QED BY <2>1, <2>2
<1>3. \A k \in 1 .. hi : list[k].fee <= g[k - 1][s]
  BY <1>2
<1> HIDE DEF g, hi
<1>4. g[0] \in B
  BY <1>1, <1>2 DEF TokenInv, Balanced
<1>5. \A k \in (0 + 1) .. hi : g[k - 1] \in B => g[k] \in B
  <2> SUFFICES ASSUME NEW k \in (0 + 1) .. hi, g[k - 1] \in B PROVE g[k] \in B
    OBVIOUS
  <2> DEFINE b == g[k - 1]
             to == list[k].to
             n == list[k].fee
  <2>1. k \in 1 .. hi /\ k \in 0 .. hi /\ k # 0
    BY <1>2
  <2>2. g[k] = Moved(b, s, to, n)
    BY <1>1, <2>1
  <2>3. b \in [Holders -> Nat] /\ SumFunctionOnSet(b, Holders) = supply
    BY DEF Balanced
  <2>4. to \in Holders /\ n \in Nat /\ n <= b[s]
    BY <1>2, <1>3, <2>1
  <2> HIDE DEF b, to, n
  <2>5. g[k] \in [Holders -> Nat] /\ SumFunctionOnSet(g[k], Holders) = supply
    BY <2>2, <2>3, <2>4, MovedKeeps
  <2> QED BY <2>5 DEF Balanced
<1> HIDE DEF B
<1>6. \A k \in 0 .. hi : g[k] \in B
  BY <1>2, <1>4, <1>5, LoopInvariant
<1>7. hi \in 0 .. hi
  BY <1>2
<1> QED BY <1>6, <1>7 DEF g, hi, B

\* Balances with the sum of the supply are all there is to the invariant.
LEMMA TokensKept ==
  ASSUME TokenInv, tokens' \in Balanced(supply'), price' = price \/ price' \in Prices, UNCHANGED <<rates, values>>
  PROVE  TokenInv'
BY Cw20Assumption DEF TokenInv, Balanced, Holders

LEMMA TransferFacts ==
  ASSUME TokenInv, NEW s \in Actors, NEW to \in Holders, NEW amount \in TokenAmounts,
         Transfer(s, to, amount)
  PROVE  /\ s \in Holders /\ amount \in Nat
         /\ Payments(amount) \in Seq(Payment) /\ Remaining(amount) \in Nat
         /\ AfterFees(s, Payments(amount))[Len(Payments(amount))] \in Balanced(supply)
         /\ tokens' \in Balanced(supply')
<1> DEFINE list == Payments(amount)
           after == AfterFees(s, list)
           n == Remaining(amount)
           b == after[Len(list)]
<1>1. /\ HasModule("rates") => CanDeduct(amount)
      /\ \A k \in DOMAIN list : list[k].fee <= after[k - 1][s]
      /\ 0 < n /\ n <= b[s] /\ tokens' = Moved(b, s, to, n) /\ UNCHANGED <<supply, price>>
  BY DEF Transfer
<1>2. s \in Holders /\ amount \in Nat
  BY HolderFacts
<1>3. list \in Seq(Payment)
  <2>1. CASE HasModule("rates")
    <3>1. \A i \in DOMAIN rates : RateValid(rates[i])
      BY <1>1, <2>1 DEF CanDeduct
    <3> QED BY <1>2, <2>1, <3>1, FeePaymentsType DEF Payments
  <2>2. CASE ~HasModule("rates")
    BY <2>2 DEF Payments
  <2> QED BY <2>1, <2>2
<1>4. n \in Nat
  <2>1. CASE HasModule("rates")
    <3> DEFINE f == [i \in DOMAIN rates |-> FeeOf(i, amount) * Len(rates[i].to)]
               R == {i \in DOMAIN rates : ~rates[i].additive}
    <3>1. n = amount - SumFunctionOnSet(f, R)
      BY <2>1 DEF Remaining, LeftoverFunds
    <3>2. SumFunctionOnSet(f, R) \in Int
      <4>1. IsFiniteSet(DOMAIN rates)
        <5>1. rates \in Seq(RateRecord)
          BY RatesAssumption DEF TokenInv, RateRecord
        <5>2. DOMAIN rates = 1 .. Len(rates) /\ Len(rates) \in Nat
          BY <5>1
        <5>3. IsFiniteSet(1 .. Len(rates))
          BY <5>2, FS_Interval
        <5> QED BY <5>2, <5>3
      <4>2. IsFiniteSet(R)
        <5>1. R \subseteq DOMAIN rates
          OBVIOUS
        <5> QED BY <4>1, <5>1, FS_Subset
      <4>3. \A i \in R : f[i] \in Int
        <5> SUFFICES ASSUME NEW i \in DOMAIN rates PROVE FeeOf(i, amount) * Len(rates[i].to) \in Int
          OBVIOUS
        <5>1. RateValid(rates[i])
          BY <1>1, <2>1 DEF CanDeduct
        <5>2. FeeOf(i, amount) \in Nat /\ Len(rates[i].to) \in Nat
          BY <1>2, <5>1, FeeFacts, RateIsRecord
        <5> QED BY <5>2, SMTT(30)
      <4> HIDE DEF f, R
      <4> QED BY <4>2, <4>3, SumSplit
    <3> HIDE DEF f, R
    <3> QED BY <1>1, <1>2, <3>1, <3>2
  <2>2. CASE ~HasModule("rates")
    BY <1>2, <2>2 DEF Remaining
  <2> QED BY <2>1, <2>2
<1>5. b \in Balanced(supply)
  BY <1>1, <1>2, <1>3, AfterFeesKeep
<1> HIDE DEF list, after, n, b
<1>6. tokens' \in Balanced(supply')
  <2>1. b \in [Holders -> Nat] /\ SumFunctionOnSet(b, Holders) = supply
    BY <1>5 DEF Balanced
  <2> QED BY <1>1, <1>2, <1>4, <2>1, MovedKeeps DEF Balanced
<1> QED BY <1>2, <1>3, <1>4, <1>5, <1>6 DEF list, after, n, b

LEMMA TransferKeeps ==
  ASSUME TokenInv, NEW s \in Actors, NEW to \in Holders, NEW amount \in TokenAmounts,
         Transfer(s, to, amount), UNCHANGED <<rates, values>>
  PROVE  TokenInv'
<1>1. tokens' \in Balanced(supply')
  BY TransferFacts
<1>2. price' = price
  BY DEF Transfer
<1> QED BY <1>1, <1>2, TokensKept

\* The fees of the first k payments that h gets.
FeesUpTo(list, k, h) ==
  SumFunctionOnSet([j \in DOMAIN list |-> list[j].fee], {j \in 1 .. k : list[j].to = h})

LEMMA FeesUpToNext ==
  ASSUME NEW list \in Seq(Payment), NEW k \in 1 .. Len(list), NEW h
  PROVE  /\ FeesUpTo(list, k - 1, h) \in Int /\ FeesUpTo(list, k, h) \in Int
         /\ FeesUpTo(list, k, h) = FeesUpTo(list, k - 1, h) + (IF list[k].to = h THEN list[k].fee ELSE 0)
<1> DEFINE f == [j \in DOMAIN list |-> list[j].fee]
           S == {j \in 1 .. k : list[j].to = h}
           R == {j \in 1 .. (k - 1) : list[j].to = h}
<1>1. k \in Int /\ k >= 1 /\ Len(list) \in Nat /\ k <= Len(list) /\ DOMAIN list = 1 .. Len(list)
  OBVIOUS
<1>2. \A j \in 1 .. Len(list) : f[j] \in Nat
  <2>1. \A j \in 1 .. Len(list) : list[j] \in Payment
    OBVIOUS
  <2> QED BY <1>1, <2>1 DEF Payment
<1>3. \A j \in S : f[j] \in Int
  BY <1>1, <1>2
<1>4. f[k] = list[k].fee
  BY <1>1
<1>9. FeesUpTo(list, k, h) = SumFunctionOnSet(f, S) /\ FeesUpTo(list, k - 1, h) = SumFunctionOnSet(f, R)
  BY DEF FeesUpTo
<1> HIDE DEF f
<1>5. IsFiniteSet(1 .. k)
  BY <1>1, FS_Interval
<1>6. IsFiniteSet(S) /\ R \subseteq S
  <2>1. S \subseteq 1 .. k /\ R \subseteq S
    BY <1>1
  <2> HIDE DEF S, R
  <2> QED BY <1>5, <2>1, FS_Subset
<1>7. CASE list[k].to = h
  <2>1. k \in S /\ S \ {k} = R
    BY <1>1, <1>7
  <2> HIDE DEF S, R
  <2>2. SumFunctionOnSet(f, S) = f[k] + SumFunctionOnSet(f, R)
    <3>1. \A x \in S : SumFunctionOnSet(f, S) = f[x] + SumFunctionOnSet(f, S \ {x})
      BY <1>3, <1>6, SumSplit
    <3> QED BY <2>1, <3>1
  <2>3. SumFunctionOnSet(f, R) \in Int
    <3>1. IsFiniteSet(R) /\ \A j \in R : f[j] \in Int
      BY <1>3, <1>6, FS_Subset
    <3> QED BY <3>1, SumSplit
  <2>4. f[k] \in Int
    BY <1>3, <2>1
  <2> QED BY <1>4, <1>7, <1>9, <2>2, <2>3, <2>4
<1>8. CASE list[k].to # h
  <2>1. S = R
    BY <1>1, <1>8
  <2> HIDE DEF S, R
  <2>2. SumFunctionOnSet(f, R) \in Int
    BY <1>3, <1>6, <2>1, SumSplit
  <2> QED BY <1>8, <1>9, <2>1, <2>2
<1> QED BY <1>7, <1>8

\* Each payment goes where it should and leaves the rest alone.
LEMMA AfterFeesGive ==
  ASSUME TokenInv, NEW s \in Holders, NEW list \in Seq(Payment)
  PROVE  \A h \in Holders \ {s} :
           /\ AfterFees(s, list)[Len(list)][h] = tokens[h] + FeesUpTo(list, Len(list), h)
           /\ FeesUpTo(list, Len(list), h) \in Int
<1> DEFINE hi == Len(list)
           g == AfterFees(s, list)
           Given(k, h) == g[k][h] = tokens[h] + FeesUpTo(list, k, h) /\ FeesUpTo(list, k, h) \in Int
           T == {k \in 0 .. hi : g[k] \in [Holders -> Int] /\ \A h \in Holders \ {s} : Given(k, h)}
<1>1. g = [k \in 0 .. hi |-> IF k = 0 THEN tokens ELSE Moved(g[k - 1], s, list[k].to, list[k].fee)]
  BY AfterFeesIs DEF IsAfterFees
<1>2. /\ hi \in Nat /\ DOMAIN list = 1 .. hi
      /\ \A k \in 1 .. hi : list[k].to \in Holders /\ list[k].fee \in Nat
  <2>1. hi \in Nat /\ DOMAIN list = 1 .. hi /\ \A k \in 1 .. hi : list[k] \in Payment
    OBVIOUS
  <2>2. \A x \in Payment : x.to \in Holders /\ x.fee \in Nat
    BY DEF Payment
  <2> HIDE DEF hi
  <2> QED BY <2>1, <2>2
<1>3. \A k \in 1 .. hi, h \in Holders :
        /\ FeesUpTo(list, k - 1, h) \in Int /\ FeesUpTo(list, k, h) \in Int
        /\ FeesUpTo(list, k, h) = FeesUpTo(list, k - 1, h) + (IF list[k].to = h THEN list[k].fee ELSE 0)
  BY FeesUpToNext
<1> HIDE DEF g, hi
<1>4. 0 \in T
  <2>1. g[0] = tokens /\ tokens \in [Holders -> Nat]
    BY <1>1, <1>2 DEF TokenInv
  <2>2. ASSUME NEW h PROVE FeesUpTo(list, 0, h) = 0
    <3>1. {j \in 1 .. 0 : list[j].to = h} = {}
      OBVIOUS
    <3> QED BY <3>1, SumEmpty DEF FeesUpTo
  <2> QED BY <1>2, <2>1, <2>2
<1>5. \A k \in 1 .. hi : k - 1 \in T => k \in T
  <2> SUFFICES ASSUME NEW k \in 1 .. hi, k - 1 \in T PROVE k \in T
    OBVIOUS
  <2> DEFINE b == g[k - 1]
             to == list[k].to
             n == list[k].fee
  <2>1. k \in 0 .. hi /\ k # 0
    BY <1>2
  <2>2. g[k] = Moved(b, s, to, n)
    BY <1>1, <2>1
  <2>3. b \in [Holders -> Int] /\ \A h \in Holders \ {s} : b[h] = tokens[h] + FeesUpTo(list, k - 1, h)
    OBVIOUS
  <2>4. to \in Holders /\ n \in Nat
    BY <1>2
  <2>5. /\ g[k] \in [Holders -> Int]
        /\ \A h \in Holders \ {s} : g[k][h] = b[h] + (IF to = h THEN n ELSE 0)
    <3> HIDE DEF b, to, n
    <3> QED BY <2>2, <2>3, <2>4 DEF Moved
  <2>6. ASSUME NEW h \in Holders \ {s}
        PROVE  g[k][h] = tokens[h] + FeesUpTo(list, k, h) /\ FeesUpTo(list, k, h) \in Int
    <3>1. tokens[h] \in Int
      BY DEF TokenInv
    <3>2. /\ FeesUpTo(list, k - 1, h) \in Int /\ FeesUpTo(list, k, h) \in Int
          /\ FeesUpTo(list, k, h) = FeesUpTo(list, k - 1, h) + (IF to = h THEN n ELSE 0)
      BY <1>3
    <3> HIDE DEF b, to, n
    <3> QED BY <2>3, <2>4, <2>5, <3>1, <3>2
  <2> QED BY <2>1, <2>5, <2>6
<1> HIDE DEF T
<1>6. hi \in T
  <2>1. \A k \in 0 .. hi : k \in T
    <3>1. hi \in Int
      BY <1>2
    <3>2. \A k \in (0 + 1) .. hi : k - 1 \in T => k \in T
      BY <1>2, <1>5
    <3> QED BY <1>4, <3>1, <3>2, UpTo
  <2> QED BY <1>2, <2>1
<1> QED BY <1>6 DEF T, g, hi

LEMMA TransferPaysExactly ==
  ASSUME TokenInv, NEW s \in Actors, NEW to \in Holders, NEW amount \in TokenAmounts,
         Transfer(s, to, amount)
  PROVE  TransferExact(s, to, amount)
<1> DEFINE list == Payments(amount)
           n == Remaining(amount)
           b == AfterFees(s, list)[Len(list)]
<1>1. /\ s \in Holders /\ amount \in Nat /\ list \in Seq(Payment) /\ n \in Nat
      /\ b \in Balanced(supply) /\ tokens' \in Balanced(supply')
  BY TransferFacts
<1>2. tokens' = Moved(b, s, to, n) /\ supply' = supply /\ (HasModule("rates") => CanDeduct(amount))
  BY DEF Transfer
<1>3. HasModule("rates") =>
        \A i \in DOMAIN rates : RateValue(rates[i]).kind = "percent" =>
          /\ amount * RateValue(rates[i]).n <= FeeOf(i, amount) * PercentOne
          /\ FeeOf(i, amount) * PercentOne <= amount * RateValue(rates[i]).n + PercentOne
  BY <1>1, <1>2, FeeFacts DEF CanDeduct
<1>4. \A h \in Holders \ {s} : /\ b[h] = tokens[h] + FeesUpTo(list, Len(list), h)
                              /\ FeesUpTo(list, Len(list), h) \in Int
  <2> HIDE DEF list
  <2> QED BY <1>1, AfterFeesGive
<1>5. \A h : FeesUpTo(list, Len(list), h) =
               SumFunctionOnSet([k \in DOMAIN list |-> list[k].fee], {k \in DOMAIN list : list[k].to = h})
  <2> HIDE DEF list
  <2>1. DOMAIN list = 1 .. Len(list)
    BY <1>1
  <2> QED BY <2>1 DEF FeesUpTo
<1> HIDE DEF list, n, b
<1>6. ASSUME NEW h \in Holders \ {s}
      PROVE  tokens'[h] = tokens[h] + (IF h = to THEN n ELSE 0) + FeesUpTo(list, Len(list), h)
  <2>1. b \in [Holders -> Nat] /\ tokens[h] \in Int
    BY <1>1 DEF Balanced, TokenInv
  <2>2. tokens'[h] = b[h] + (IF h = to THEN n ELSE 0)
    BY <1>1, <1>2, <2>1 DEF Moved
  <2> QED BY <1>1, <1>4, <2>1, <2>2
<1>7. SumFunction(tokens') = SumFunction(tokens)
  BY <1>1, <1>2 DEF Balanced, TokenInv, SumFunction
<1> QED BY <1>3, <1>5, <1>6, <1>7 DEF TransferExact, list, n

LEMMA MoveKeeps ==
  ASSUME TokenInv, NEW from \in Holders, NEW to \in Holders, NEW n \in Nat, n <= tokens[from],
         tokens' = Moved(tokens, from, to, n), UNCHANGED <<supply, price, rates, values>>
  PROVE  TokenInv'
<1>1. tokens \in [Holders -> Nat] /\ SumFunctionOnSet(tokens, Holders) = supply
  BY DEF TokenInv
<1>2. tokens' \in Balanced(supply')
  BY <1>1, MovedKeeps DEF Balanced
<1> QED BY <1>2, TokensKept

LEMMA MintKeeps ==
  ASSUME TokenInv, NEW s, NEW to \in Holders, NEW n \in TokenAmounts, Mint(s, to, n), UNCHANGED <<rates, values>>
  PROVE  TokenInv'
<1>1. /\ n \in Nat /\ supply' = supply + n /\ tokens' = [tokens EXCEPT ![to] = tokens[to] + n]
      /\ price' = price /\ tokens \in [Holders -> Nat] /\ supply = SumFunctionOnSet(tokens, Holders)
  BY HolderFacts DEF Mint, TokenInv
<1>2. tokens[to] \in Nat /\ tokens[to] + n \in Nat
  BY <1>1
<1>3. /\ tokens' \in [Holders -> Nat] /\ tokens'[to] = tokens[to] + n
      /\ \A g \in Holders \ {to} : tokens'[g] = tokens[g]
  BY <1>1, <1>2
<1>4. /\ SumFunctionOnSet(tokens', Holders) = SumFunctionOnSet(tokens, Holders) - tokens[to] + (tokens[to] + n)
      /\ SumFunctionOnSet(tokens, Holders) \in Nat
  <2> DEFINE d == tokens'
  <2>1. d \in [Holders -> Nat] /\ d[to] = tokens[to] + n /\ \A g \in Holders \ {to} : d[g] = tokens[g]
    BY <1>3
  <2>2. to \in Holders /\ tokens \in [Holders -> Nat] /\ tokens[to] + n \in Nat
    BY <1>1, <1>2
  <2> HIDE DEF d
  <2>3. /\ SumFunctionOnSet(d, Holders) = SumFunctionOnSet(tokens, Holders) - tokens[to] + (tokens[to] + n)
        /\ SumFunctionOnSet(tokens, Holders) \in Nat
    BY <2>1, <2>2, BalanceChanged
  <2> QED BY <2>3 DEF d
<1>5. tokens' \in Balanced(supply')
  BY <1>1, <1>2, <1>3, <1>4 DEF Balanced
<1> QED BY <1>1, <1>5, TokensKept

LEMMA BurnTokensKeeps ==
  ASSUME TokenInv, NEW s, NEW o \in Actors, NEW n \in TokenAmounts, BurnTokens(s, o, n), UNCHANGED <<rates, values>>
  PROVE  TokenInv'
<1>1. /\ n \in Nat /\ o \in Holders /\ supply' = supply - n /\ n <= tokens[o]
      /\ tokens' = [tokens EXCEPT ![o] = tokens[o] - n]
      /\ price' = price /\ tokens \in [Holders -> Nat] /\ supply = SumFunctionOnSet(tokens, Holders)
  BY HolderFacts DEF BurnTokens, TokenInv
<1>2. tokens[o] \in Nat /\ tokens[o] - n \in Nat
  BY <1>1
<1>3. /\ tokens' \in [Holders -> Nat] /\ tokens'[o] = tokens[o] - n
      /\ \A g \in Holders \ {o} : tokens'[g] = tokens[g]
  BY <1>1, <1>2
<1>4. /\ SumFunctionOnSet(tokens', Holders) = SumFunctionOnSet(tokens, Holders) - tokens[o] + (tokens[o] - n)
      /\ SumFunctionOnSet(tokens, Holders) \in Nat
  <2> DEFINE d == tokens'
  <2>1. d \in [Holders -> Nat] /\ d[o] = tokens[o] - n /\ \A g \in Holders \ {o} : d[g] = tokens[g]
    BY <1>3
  <2>2. o \in Holders /\ tokens \in [Holders -> Nat] /\ tokens[o] - n \in Nat
    BY <1>1, <1>2
  <2> HIDE DEF d
  <2>3. /\ SumFunctionOnSet(d, Holders) = SumFunctionOnSet(tokens, Holders) - tokens[o] + (tokens[o] - n)
        /\ SumFunctionOnSet(tokens, Holders) \in Nat
    BY <2>1, <2>2, BalanceChanged
  <2> QED BY <2>3 DEF d
<1>5. tokens' \in Balanced(supply')
  BY <1>1, <1>2, <1>3, <1>4 DEF Balanced
<1> QED BY <1>1, <1>5, TokensKept

LEMMA TokenUnchanged ==
  ASSUME TokenInv, UNCHANGED <<tokens, supply>>, price' = price \/ price' \in Prices,
         rates' = rates \/ rates' \in RateLists,
         \A k \in DOMAIN values' : values'[k] \in PrimitiveValues
  PROVE  TokenInv'
BY Cw20Assumption DEF TokenInv, Holders

LEMMA TokenStepKeeps ==
  ASSUME TokenInv, TokenStep, UNCHANGED <<rates, values>> PROVE TokenInv'
<1>1. PICK s \in Actors, to \in Holders, n \in TokenAmounts :
        Transfer(s, to, n) \/ Send(s, to, n) \/ Mint(s, to, n) \/ BurnTokens(s, s, n)
  BY DEF TokenStep
<1>2. CASE Transfer(s, to, n) \/ Send(s, to, n)
  BY <1>2, TransferKeeps DEF Send
<1>3. CASE Mint(s, to, n)
  BY <1>3, MintKeeps
<1>4. CASE BurnTokens(s, s, n)
  BY <1>4, BurnTokensKeeps
<1> QED BY <1>1, <1>2, <1>3, <1>4

LEMMA AllowanceStepKeeps ==
  ASSUME TokenInv, AllowanceStep, UNCHANGED <<rates, values>> PROVE TokenInv'
<1>1. price \in Nat /\ \A k \in DOMAIN values' : values'[k] \in PrimitiveValues
  BY DEF TokenInv
<1>2. ASSUME NEW s \in Actors, NEW o \in Actors, NEW n \in TokenAmounts,
             \/ IncreaseAllowance(o, s, n) \/ DecreaseAllowance(o, s, n) \/ PurchaseAllowance(s, n)
             \/ \E spender \in Actors : IncreaseAllowancePurchase(s, o, spender, n)
      PROVE  TokenInv'
  <2>1. UNCHANGED <<tokens, supply, price>>
    BY <1>2 DEF IncreaseAllowance, DecreaseAllowance, PurchaseAllowance, IncreaseAllowancePurchase
  <2> QED BY <1>1, <2>1, TokenUnchanged
<1>3. ASSUME NEW s \in Actors, NEW o \in Actors, NEW n \in TokenAmounts, NEW to \in Holders, TransferFrom(s, o, to, n)
      PROVE  TokenInv'
  <2>1. /\ o \in Holders /\ n \in Nat /\ n <= tokens[o] /\ tokens' = Moved(tokens, o, to, n)
        /\ UNCHANGED <<supply, price>>
    BY <1>3, HolderFacts DEF TransferFrom
  <2> QED BY <2>1, MoveKeeps
<1>4. ASSUME NEW s \in Actors, NEW o \in Actors, NEW n \in TokenAmounts, BurnTokens(s, o, n)
      PROVE  TokenInv'
  BY <1>4, BurnTokensKeeps
<1>5. ASSUME NEW s \in Actors, NEW n \in TokenAmounts, TransferFromPurchase(s, n)
      PROVE  TokenInv'
  <2> DEFINE m == n \div price
  <2>1. /\ s \in Holders /\ TokenOwner \in Holders /\ n \in Nat /\ price > 0 /\ m <= tokens[TokenOwner]
        /\ tokens' = Moved(tokens, TokenOwner, s, m) /\ UNCHANGED <<supply, price>>
    BY <1>5, HolderFacts DEF TransferFromPurchase, PayUsdc
  <2>2. m \in Nat
    BY <1>1, <2>1, DivFacts
  <2> HIDE DEF m
  <2> QED BY <2>1, <2>2, MoveKeeps
<1>6. ASSUME NEW s \in Actors, NEW p \in Prices, UpdatePrice(s, p)
      PROVE  TokenInv'
  <2>1. UNCHANGED <<tokens, supply>> /\ price' \in Prices
    BY <1>6 DEF UpdatePrice
  <2> QED BY <1>1, <2>1, TokenUnchanged
<1> QED BY <1>2, <1>3, <1>4, <1>5, <1>6 DEF AllowanceStep

LEMMA TokenInitial ==
  ASSUME Cw20Init, RatesInit, PrimitiveInit
  PROVE  TokenInv
<1>1. /\ tokens = InitialBalances /\ supply = SumFunction(InitialBalances) /\ price \in Prices
      /\ rates \in RateLists /\ values = << >>
  BY DEF Cw20Init, RatesInit, PrimitiveInit
<1>2. supply = SumFunctionOnSet(tokens, Holders)
  BY <1>1 DEF SumFunction, Holders
<1>3. tokens \in [Holders -> Nat] /\ price \in Nat
  BY <1>1, Cw20Assumption DEF Holders
<1>4. \A k \in DOMAIN values : values[k] \in PrimitiveValues
  BY <1>1
<1> QED BY <1>1, <1>2, <1>3, <1>4 DEF TokenInv

LEMMA ValuesTyped ==
  ASSUME \A k \in DOMAIN values : values[k] \in PrimitiveValues, NEW keys, PrimitiveStep(keys)
  PROVE  \A k \in DOMAIN values' : values'[k] \in PrimitiveValues
<1>1. PICK s \in Actors, k \in keys : DeleteValue(s, k) \/ \E v \in PrimitiveValues : SetValue(s, k, v)
  BY DEF PrimitiveStep
<1>2. CASE DeleteValue(s, k)
  BY <1>2 DEF DeleteValue, Without, Restrict
<1>3. CASE \E v \in PrimitiveValues : SetValue(s, k, v)
  <2>1. PICK v \in PrimitiveValues : values' = [j \in DOMAIN values \cup {k} |-> IF j = k THEN v ELSE values[j]]
    BY <1>3 DEF SetValue, With
  <2>2. \A j \in DOMAIN values \cup {k} : (IF j = k THEN v ELSE values[j]) \in PrimitiveValues
    OBVIOUS
  <2> QED BY <2>1, <2>2
<1> QED BY <1>1, <1>2, <1>3

LEMMA TokenKeeps ==
  ASSUME TokenInv, AdosNext PROVE TokenInv'
<1>1. \A k \in DOMAIN values : values[k] \in PrimitiveValues
  BY DEF TokenInv
<1>2. CASE TokenStep /\ UNCHANGED <<rates, values>>
  BY <1>2, TokenStepKeeps
<1>3. CASE AllowanceStep /\ UNCHANGED <<rates, values>>
  BY <1>3, AllowanceStepKeeps
<1>4. CASE UNCHANGED cwVars /\ UNCHANGED rates /\ \E keys : PrimitiveStep(keys)
  BY <1>1, <1>4, ValuesTyped, TokenUnchanged DEF cwVars
<1>5. CASE UNCHANGED cwVars /\ UNCHANGED values /\ RatesStep
  BY <1>1, <1>5, TokenUnchanged DEF cwVars, RatesStep, UpdateRates
<1>6. CASE UNCHANGED cwVars /\ UNCHANGED values /\ UNCHANGED rates
  BY <1>1, <1>6, TokenUnchanged DEF cwVars
<1>7. \/ TokenStep /\ UNCHANGED <<rates, values>>
      \/ AllowanceStep /\ UNCHANGED <<rates, values>>
      \/ UNCHANGED cwVars /\ UNCHANGED rates /\ \E keys : PrimitiveStep(keys)
      \/ UNCHANGED cwVars /\ UNCHANGED values /\ RatesStep
      \/ UNCHANGED cwVars /\ UNCHANGED values /\ UNCHANGED rates
  BY SMTT(30) DEF AdosNext, OnlyChange
<1> QED BY <1>2, <1>3, <1>4, <1>5, <1>6, <1>7
(***************************************************************************)
(* The swapper.                                                            *)
(***************************************************************************)
Assets == Natives \cup Cw20s
AssetBooks == [Assets -> [CoinHolders -> Int]]
SwapperInv == holdings \in AssetBooks

\* A holder's balance in one asset is changed; an address that has no account
\* here changes nothing.
LEMMA BookChanged ==
  ASSUME NEW h \in AssetBooks, NEW a \in Assets, NEW g, NEW m \in Int
  PROVE  [h EXCEPT ![a][g] = m] \in AssetBooks
<1>1. h[a] \in [CoinHolders -> Int]
  BY DEF AssetBooks
<1>2. [h[a] EXCEPT ![g] = m] \in [CoinHolders -> Int]
  BY <1>1
<1> QED BY <1>2 DEF AssetBooks

LEMMA SwapperInitial == SwapperInit => SwapperInv
<1>1. \A a \in Assets : AssetWealth[a] \in [CoinHolders -> Int]
  <2> SUFFICES ASSUME NEW a \in Assets PROVE AssetWealth[a] \in [CoinHolders -> Int]
    OBVIOUS
  <2>1. AssetWealth[a] \in [CoinHolders -> Nat]
    BY SwapperAssumption DEF Assets, CoinHolders
  <2> QED BY <2>1
<1> QED BY <1>1 DEF SwapperInit, SwapperInv, AssetBooks, Assets

LEMMA SendAskedFacts ==
  ASSUME NEW h \in AssetBooks, NEW ask \in Assets, NEW out, NEW recipient \in Actors,
         SendAsked(h, ask, out, recipient)
  PROVE  SwapperInv' /\ SwapExact(ask)
<1> DEFINE all == h[ask][This]
           left == [h EXCEPT ![ask][This] = 0]
           new == left[ask][recipient] + all
<1>1. recipient \in CoinHolders /\ This \in CoinHolders /\ recipient # This
  BY CommonAssumption DEF CoinHolders
<1>2. h[ask] \in [CoinHolders -> Int] /\ all \in Int
  BY <1>1 DEF AssetBooks
<1>3. left \in AssetBooks
  <2>1. \A m \in Int : [h EXCEPT ![ask][This] = m] \in AssetBooks
    BY BookChanged
  <2> QED BY <2>1
<1>4. left[ask] \in [CoinHolders -> Int] /\ left[ask][This] = 0
  BY <1>1, <1>2, <1>3 DEF AssetBooks
<1>5. holdings' = [left EXCEPT ![ask][recipient] = new]
  BY DEF SendAsked
<1> HIDE DEF left
<1>6. new \in Int
  BY <1>1, <1>2, <1>4
<1> HIDE DEF new
<1>7. holdings' \in AssetBooks
  BY <1>3, <1>5, <1>6, BookChanged
<1>8. holdings'[ask][This] = 0
  BY <1>1, <1>3, <1>4, <1>5 DEF AssetBooks
<1> QED BY <1>7, <1>8 DEF SwapperInv, SwapExact

LEMMA GiveTyped ==
  ASSUME SwapperInv, NEW a \in Assets, NEW from \in Actors, NEW to, NEW n \in Nat
  PROVE  Give(a, from, to, n) \in AssetBooks
<1> DEFINE m == holdings[a][from] - n
           less == [holdings EXCEPT ![a][from] = m]
           k == less[a][to] + n
<1>1. holdings \in AssetBooks /\ holdings[a] \in [CoinHolders -> Int] /\ from \in CoinHolders
  BY DEF SwapperInv, AssetBooks, CoinHolders
<1>2. m \in Int
  BY <1>1
<1>3. Give(a, from, to, n) = [less EXCEPT ![a][to] = k]
  BY DEF Give
<1> HIDE DEF m
<1>4. less \in AssetBooks
  BY <1>1, <1>2, BookChanged
<1>5. less[a] \in [CoinHolders -> Int]
  BY <1>4 DEF AssetBooks
<1> HIDE DEF less
<1>6. CASE to \in CoinHolders
  <2>1. k \in Int
    BY <1>5, <1>6
  <2>2. \A x \in Int : [less EXCEPT ![a][to] = x] \in AssetBooks
    BY <1>4, BookChanged
  <2> HIDE DEF k
  <2> QED BY <1>3, <2>1, <2>2
<1>7. CASE to \notin CoinHolders
  <2>1. [less EXCEPT ![a][to] = k] = less
    BY <1>4, <1>5, <1>7 DEF AssetBooks
  <2> QED BY <1>3, <1>4, <2>1
<1> QED BY <1>6, <1>7

LEMMA ThroughImplFacts ==
  ASSUME SwapperInv, NEW s \in Actors, NEW offer \in Assets, NEW n \in Nat, NEW ask \in Assets,
         NEW out \in Nat, NEW recipient \in Actors, ThroughImpl(s, offer, n, ask, out, recipient)
  PROVE  SwapperInv' /\ SwapExact(ask)
<1> DEFINE impl == AddressOf(swapperImpl, appContract)
           h == Give(offer, s, impl, n)
           m == h[ask][impl] - out
           less == [h EXCEPT ![ask][impl] = m]
           k == less[ask][This] + out
           back == [less EXCEPT ![ask][This] = k]
<1>1. SendAsked(back, ask, out, recipient)
  BY DEF ThroughImpl
<1>2. h \in AssetBooks
  BY GiveTyped
<1> HIDE DEF h
<1>3. h[ask] \in [CoinHolders -> Int]
  BY <1>2 DEF AssetBooks
<1>4. less \in AssetBooks
  <2>1. CASE impl \in CoinHolders
    <3>1. m \in Int
      BY <1>3, <2>1
    <3> HIDE DEF m
    <3> QED BY <1>2, <3>1, BookChanged
  <2>2. CASE impl \notin CoinHolders
    <3>1. less = h
      BY <1>2, <1>3, <2>2 DEF AssetBooks
    <3> QED BY <1>2, <3>1
  <2> QED BY <2>1, <2>2
<1> HIDE DEF less
<1>5. k \in Int
  <2>1. less[ask] \in [CoinHolders -> Int] /\ This \in CoinHolders
    BY <1>4, CoinHoldersFinite DEF AssetBooks
  <2> QED BY <2>1
<1> HIDE DEF k
<1>6. back \in AssetBooks
  BY <1>4, <1>5, BookChanged
<1> HIDE DEF back
<1> QED BY <1>1, <1>6, SendAskedFacts

\* A swap for another asset, of coins or of tokens.
LEMMA SwapPaysExactly ==
  ASSUME SwapperInv, NEW offer \in Assets, NEW ask \in Assets, offer # ask, NEW s \in Actors,
         NEW recipient \in Actors, NEW n \in SwapAmounts, NEW out \in SwapAmounts,
         Swap(s, offer, n, ask, out, recipient) \/ SwapCw20(s, offer, n, ask, out, recipient)
  PROVE  SwapExact(ask)
<1>1. n \in Nat /\ out \in Nat
  BY SwapperAssumption
<1>2. ThroughImpl(s, offer, n, ask, out, recipient)
  BY DEF Swap, SwapCw20
<1> QED BY <1>1, <1>2, ThroughImplFacts

LEMMA SwapperKeeps == SwapperInv /\ SwapperStep => SwapperInv'
<1> SUFFICES ASSUME SwapperInv, SwapperStep PROVE SwapperInv'
  OBVIOUS
<1>1. PICK s \in Actors, offer \in Assets, n \in SwapAmounts :
        \/ Stray(s, offer, n)
        \/ \E ask \in Assets, out \in SwapAmounts, recipient \in Actors :
             Swap(s, offer, n, ask, out, recipient) \/ SwapCw20(s, offer, n, ask, out, recipient)
  BY DEF SwapperStep, Assets
<1>2. SwapAmounts \subseteq Nat
  BY SwapperAssumption
<1>3. CASE Stray(s, offer, n)
  BY <1>2, <1>3, GiveTyped DEF Stray, SwapperInv
<1>4. CASE \E ask \in Assets, out \in SwapAmounts, recipient \in Actors :
             Swap(s, offer, n, ask, out, recipient) \/ SwapCw20(s, offer, n, ask, out, recipient)
  <2>1. PICK ask \in Assets, out \in SwapAmounts, recipient \in Actors :
          Swap(s, offer, n, ask, out, recipient) \/ SwapCw20(s, offer, n, ask, out, recipient)
    BY <1>4
  <2>2. CASE ask = offer
    <3>1. holdings' = Give(offer, s, recipient, n)
      BY <2>1, <2>2 DEF Swap, SwapCw20
    <3> QED BY <1>2, <3>1, GiveTyped DEF SwapperInv
  <2>3. CASE ask # offer
    <3>1. ThroughImpl(s, offer, n, ask, out, recipient)
      BY <2>1, <2>3 DEF Swap, SwapCw20
    <3> QED BY <1>2, <3>1, ThroughImplFacts
  <2> QED BY <2>2, <2>3
<1> QED BY <1>1, <1>3, <1>4

LEMMA SwapperFrame == AdosNext => SwapperStep \/ UNCHANGED holdings
BY SMTT(30) DEF AdosNext, OnlyChange

(***************************************************************************)
(* The coins, and the contracts that are looked at one at a time.          *)
(***************************************************************************)
MoneyInv == CoinsOK /\ RecipientsOK /\ VaultInv /\ AirdropInv

restVars == <<ado, splitterVars, vaultVars, airdropVars>>

\* Who changes coins, and what else changes with them.
LEMMA MoneyFrame ==
  AdosNext =>
    \/ UNCHANGED <<coins, clock, restVars>>
    \/ ClockTick /\ UNCHANGED <<coins, restVars>>
    \/ GiveCoins /\ UNCHANGED <<clock, restVars>>
    \/ /\ ado = "funds" /\ UNCHANGED <<clock, restVars>>
       /\ \E s \in Actors, recipient \in Actors \cup Names, w \in WithdrawalChoices : WithdrawFunds(s, recipient, w)
    \/ ado = "splitter" /\ SplitterStep /\ UNCHANGED <<ado, clock, vaultVars, airdropVars>>
    \/ ado = "weighted" /\ WeightedStep /\ UNCHANGED <<ado, clock, vaultVars, airdropVars>>
    \/ ado = "vault" /\ VaultStep /\ UNCHANGED <<ado, clock, splitterVars, airdropVars>>
    \/ ado = "airdrop" /\ AirdropStep /\ UNCHANGED <<ado, clock, splitterVars, vaultVars>>
<1>1. \A parts : OnlyChange(parts) =>
        /\ UNCHANGED ado
        /\ "coins" \in parts \/ UNCHANGED coins
        /\ "clock" \in parts \/ UNCHANGED clock
        /\ "splitter" \in parts \/ UNCHANGED splitterVars
        /\ "vault" \in parts \/ UNCHANGED vaultVars
        /\ "airdrop" \in parts \/ UNCHANGED airdropVars
  BY DEF OnlyChange
<1> QED BY <1>1 DEF AdosNext, restVars

LEMMA GiftKeeps ==
  ASSUME MoneyInv, GiveCoins, UNCHANGED <<clock, restVars>>
  PROVE  MoneyInv'
<1>1. PICK s \in Actors, n \in Gifts : BankSend(s, This, n)
  BY DEF GiveCoins
<1>2. s \in CoinHolders /\ n \in Nat /\ CoinsOK
  BY CommonAssumption DEF CoinHolders, MoneyInv
<1>3. /\ CoinsOK' /\ \A h \in CoinHolders : h # s => coins'[h] = coins[h] + (IF h = This THEN n ELSE 0)
  BY <1>1, <1>2, SendKeepsCoins
<1>4. coins'[This] >= coins[This] /\ \A st \in Strategies : coins'[st] >= coins[st]
  BY <1>2, <1>3, VaultContracts DEF CoinsOK
<1>5. VaultInv' /\ RecipientsOK' /\ AirdropInv'
  <2>1. UNCHANGED <<ado, vaultVars, airdropVars, clock, recipients>>
    BY DEF restVars, splitterVars
  <2>2. VaultInv'
    BY <1>2, <1>3, <1>4, <2>1, VaultBesideCoins DEF MoneyInv
  <2>3. AirdropInv'
    BY <2>1, AirdropBesideClock DEF MoneyInv
  <2> QED BY <2>1, <2>2, <2>3 DEF MoneyInv, RecipientsOK
<1> QED BY <1>3, <1>5 DEF MoneyInv

LEMMA WithdrawFundsKeeps ==
  ASSUME MoneyInv, ado = "funds", NEW s, NEW recipient, NEW w \in WithdrawalChoices,
         WithdrawFunds(s, recipient, w), UNCHANGED <<clock, restVars>>
  PROVE  MoneyInv'
<1>1. w \in [kind : WithdrawalKinds, n : Nat]
  BY BaseAssumption
<1>2. /\ This \in CoinHolders /\ CoinsOK /\ coins[This] \in Nat
  BY VaultContracts DEF MoneyInv, CoinsOK
<1>3. WithdrawalAmount(w, coins[This]) \in Nat
  BY <1>1, <1>2, WithdrawalWithin DEF WithdrawFunds
<1>4. CoinsOK'
  <2>1. BankSend(This, AddressOf(recipient, appContract), WithdrawalAmount(w, coins[This]))
    BY DEF WithdrawFunds, PayRecipient
  <2> QED BY <1>2, <1>3, <2>1, SendKeepsCoins
<1>5. UNCHANGED <<ado, vaultVars, airdropVars, clock, recipients>>
  BY DEF restVars, splitterVars
<1>6. VaultInv'
  BY <1>2, <1>4, <1>5, VaultBesideCoins DEF MoneyInv
<1>7. AirdropInv'
  BY <1>5, AirdropBesideClock DEF MoneyInv
<1> QED BY <1>4, <1>5, <1>6, <1>7 DEF MoneyInv, RecipientsOK

LEMMA MoneyKeeps == MoneyInv /\ AdosNext => MoneyInv'
<1> SUFFICES ASSUME MoneyInv, AdosNext PROVE MoneyInv'
  OBVIOUS
<1>0. CoinsOK /\ RecipientsOK /\ VaultInv /\ AirdropInv
  BY DEF MoneyInv
<1>1. CASE UNCHANGED coins /\ UNCHANGED restVars /\ (ClockTick \/ UNCHANGED clock)
  <2>1. UNCHANGED <<ado, vaultVars, airdropVars, recipients, coins>>
    BY <1>1 DEF restVars, splitterVars
  <2>2. CoinsOK' /\ RecipientsOK'
    BY <1>0, <2>1 DEF CoinsOK, RecipientsOK
  <2>3. coins'[This] >= coins[This] /\ \A st \in Strategies : coins'[st] >= coins[st]
    BY <1>0, <2>1, VaultContracts DEF CoinsOK
  <2>4. VaultInv'
    BY <1>0, <2>1, <2>2, <2>3, VaultBesideCoins
  <2>5. AirdropInv'
    BY <1>0, <1>1, <2>1, AirdropBesideClock
  <2> QED BY <2>2, <2>4, <2>5 DEF MoneyInv
<1>2. CASE GiveCoins /\ UNCHANGED <<clock, restVars>>
  BY <1>2, GiftKeeps
<1>3. CASE /\ ado = "funds" /\ UNCHANGED <<clock, restVars>>
           /\ \E s \in Actors, recipient \in Actors \cup Names, w \in WithdrawalChoices : WithdrawFunds(s, recipient, w)
  BY <1>3, WithdrawFundsKeeps
<1>4. CASE /\ ado \in {"splitter", "weighted"} /\ UNCHANGED <<ado, clock, vaultVars, airdropVars>>
           /\ SplitterStep \/ WeightedStep
  <2>1. CoinsOK' /\ RecipientsOK'
    BY <1>0, <1>4, SplitterKeeps, WeightedKeeps
  <2>2. VaultInv'
    BY <1>0, <1>4, <2>1, VaultBesideCoins
  <2>3. AirdropInv'
    BY <1>0, <1>4, AirdropBesideClock
  <2> QED BY <2>1, <2>2, <2>3 DEF MoneyInv
<1>5. CASE ado = "vault" /\ VaultStep /\ UNCHANGED <<ado, clock, splitterVars, airdropVars>>
  <2>1. VaultInv' /\ CoinsOK'
    BY <1>0, <1>5, VaultKeeps
  <2>2. AirdropInv' /\ RecipientsOK'
    BY <1>0, <1>5, AirdropBesideClock DEF RecipientsOK, splitterVars
  <2> QED BY <2>1, <2>2 DEF MoneyInv
<1>6. CASE ado = "airdrop" /\ AirdropStep /\ UNCHANGED <<ado, clock, splitterVars, vaultVars>>
  <2>1. AirdropInv' /\ CoinsOK'
    BY <1>0, <1>6, AirdropKeeps
  <2>2. VaultInv'
    BY <1>0, <1>6, <2>1, VaultBesideCoins
  <2> QED BY <1>0, <1>6, <2>1, <2>2 DEF MoneyInv, RecipientsOK, splitterVars
<1> QED BY <1>1, <1>2, <1>3, <1>4, <1>5, <1>6, MoneyFrame

LEMMA MoneyInitial == AdosInit => MoneyInv
<1> SUFFICES ASSUME AdosInit PROVE MoneyInv
  OBVIOUS
<1>1. CommonInit /\ VaultInit /\ AirdropInit
  BY DEF AdosInit
<1>2. CoinsOK /\ clock = 0
  BY <1>1, CommonAssumption DEF CommonInit, CoinsOK, CoinHolders
<1>3. RecipientsOK
  <2>1. SplitterInit \/ WeightedInit \/ recipients = << >>
    BY DEF AdosInit
  <2>2. CASE SplitterInit
    BY <2>2, SplitterAssumption DEF SplitterInit, RecipientsOK
  <2>3. CASE WeightedInit
    BY <2>3, WeightedAssumption DEF WeightedInit, RecipientsOK
  <2>4. CASE recipients = << >>
    BY <2>4 DEF RecipientsOK
  <2> QED BY <2>1, <2>2, <2>3, <2>4
<1> QED BY <1>1, <1>2, <1>3, VaultInitial, AirdropInitial DEF MoneyInv
(***************************************************************************)
(* The theorems.                                                           *)
(***************************************************************************)

\* The inductive invariant, but for the limited withdrawals.
AdosInv == AppInv /\ ModulesInv /\ MoneyInv /\ TokenInv /\ SwapperInv /\ StakingInv /\ ScheduleInv

LEMMA AdosInitial == AdosInit => AdosInv /\ LimitInv
<1> SUFFICES ASSUME AdosInit PROVE AdosInv /\ LimitInv
  OBVIOUS
<1>1. /\ AppInit /\ BaseInit /\ Cw20Init /\ RatesInit /\ PrimitiveInit /\ SwapperInit /\ Init /\ LimitInit
  BY DEF AdosInit
<1> QED BY <1>1, AppInitial, ModulesInitial, MoneyInitial, TokenInitial, SwapperInitial, StakingInitial,
           ScheduleInitial, LimitInitial DEF AdosInv

LEMMA AdosStep == AdosInv /\ [AdosNext]_adosVars => AdosInv'
<1> SUFFICES ASSUME AdosInv, [AdosNext]_adosVars PROVE AdosInv'
  OBVIOUS
<1>0. AppInv /\ ModulesInv /\ MoneyInv /\ TokenInv /\ SwapperInv /\ StakingInv /\ ScheduleInv
  BY DEF AdosInv
<1>1. CASE AdosNext
  <2>1. AppInv'
    BY <1>0, <1>1, AppFrame, AppKeeps, AppUnchanged
  <2>2. ModulesInv' /\ MoneyInv' /\ TokenInv'
    BY <1>0, <1>1, ModulesKeep, MoneyKeeps, TokenKeeps
  <2>3. StakingInv'
    BY <1>0, <1>1, StakingFrame, StakingKeeps, StakingUnchanged
  <2>4. SwapperInv'
    BY <1>0, <1>1, SwapperFrame, SwapperKeeps DEF SwapperInv
  <2>5. ScheduleInv'
    <3>1. CASE Next
      BY <1>0, <3>1, ScheduleKeeps
    <3>2. CASE UNCHANGED vars
      BY <1>0, <3>2, ScheduleUnchanged
    <3> QED BY <1>1, <3>1, <3>2, StakingFrame
  <2> QED BY <2>1, <2>2, <2>3, <2>4, <2>5 DEF AdosInv
<1>2. CASE UNCHANGED adosVars
  <2>1. /\ UNCHANGED <<appVars, ownVars, moduleVars, coins, clock, cwVars, values, vars, restVars>>
        /\ UNCHANGED <<rates, holdings>>
    BY <1>2 DEF adosVars, hookVars, restVars
  <2>2. AppInv' /\ ModulesInv' /\ StakingInv' /\ ScheduleInv'
    BY <1>0, <2>1, AppUnchanged, ModulesUnchanged, StakingUnchanged, ScheduleUnchanged
  <2>3. TokenInv'
    BY <1>0, <2>1, TokenUnchanged DEF TokenInv, cwVars
  <2>4. MoneyInv'
    BY <1>0, <2>1 DEF MoneyInv, CoinsOK, RecipientsOK, VaultInv, VaultTypeOK, VaultBacked, NoVault,
         AirdropInv, AirdropTypeOK, ClaimsCounted, StageExpired, restVars, splitterVars, vaultVars, airdropVars
  <2> QED BY <1>0, <2>1, <2>2, <2>3, <2>4 DEF AdosInv, SwapperInv
<1> QED BY <1>1, <1>2

LEMMA AdosInvariant == AdosSpec => []AdosInv
<1> QED BY AdosInitial, AdosStep, PTL DEF AdosSpec

LEMMA LimitInvariant == ~MayTopUpOthers => (AdosSpec => []LimitInv)
<1> SUFFICES ASSUME ~MayTopUpOthers PROVE AdosSpec => []LimitInv
  OBVIOUS
<1>1. LimitInv /\ [AdosNext]_adosVars => LimitInv'
  <2> SUFFICES ASSUME LimitInv, [AdosNext]_adosVars PROVE LimitInv'
    OBVIOUS
  <2>1. LimitNext \/ UNCHANGED limitVars
    BY LimitFrame DEF adosVars
  <2> QED BY <2>1, LimitKeeps, LimitUnchanged
<1> QED BY <1>1, AdosInitial, PTL DEF AdosSpec

\* Every component of an app is registered under its name, whatever is added
\* to the app, renamed, or instantiated by the factory's replies.
THEOREM ComponentsResolve == AdosSpec => []NamesResolve
<1>1. AdosInv => NamesResolve
  BY DEF AdosInv, AppInv
<1> QED BY <1>1, AdosInvariant, PTL

\* Modules are registered, altered and removed in any order and stay unique in
\* their type, resolvable, and below the index the next one gets.
THEOREM ModulesStaySound == AdosSpec => []ModulesSound
<1>1. AdosInv => ModulesSound
  BY DEF AdosInv, ModulesInv
<1> QED BY <1>1, AdosInvariant, PTL

\* Unless others can deposit for a user, no sequence of deposits and withdrawals
\* takes more than the limit, or sooner than the frequency allows.
THEOREM WithdrawalsLimited == ~MayTopUpOthers => (AdosSpec => []Limited)
<1>1. LimitInv => Limited
  BY DEF LimitInv
<1> QED BY <1>1, LimitInvariant, PTL

\* The five books of the vault, the airdrop, the token, the limited withdrawals
\* and the staking pool are backed by what the contracts have.
THEOREM BooksAreBacked == ~MayTopUpOthers => (AdosSpec => []BooksBalance)
<1>1. AdosInv /\ LimitInv => BooksBalance
  <2> SUFFICES ASSUME AdosInv, LimitInv PROVE BooksBalance
    OBVIOUS
  <2>1. VaultBacked /\ ClaimsCounted
    BY DEF AdosInv, MoneyInv, VaultInv, AirdropInv
  <2>2. SupplyBacked
    BY DEF AdosInv, TokenInv, SupplyBacked, SumFunction
  <2>3. AccountsBacked /\ SharesBacked
    BY DEF AdosInv, LimitInv, StakingInv
  <2> QED BY <2>1, <2>2, <2>3 DEF BooksBalance
<1> QED BY <1>1, AdosInvariant, LimitInvariant, PTL

\* The rewards the stakers may still claim are there, in the pool's balance or
\* in what the schedule has released, whoever stakes, unstakes and claims.
THEOREM RewardsStayCovered == AdosSpec => []RewardsCovered
<1>1. AdosInv => RewardsCovered
  BY StakingCovers DEF AdosInv
<1> QED BY <1>1, AdosInvariant, PTL

\* Nobody's deposits in the vault and its strategies fall but by a withdrawal of
\* the depositor's own.
THEOREM VaultIsKept == AdosSpec => VaultKept
<1>1. AdosInv /\ AdosInv' /\ [AdosNext]_adosVars => [TakenByTheirOwners]_vaultVars
  <2> SUFFICES ASSUME AdosInv, AdosInv', [AdosNext]_adosVars PROVE TakenByTheirOwners \/ UNCHANGED vaultVars
    OBVIOUS
  <2>1. CoinsOK /\ VaultInv /\ VaultInv'
    BY DEF AdosInv, MoneyInv
  <2>2. CASE VaultStep
    BY <2>1, <2>2, VaultStepKeepsWorth
  <2>3. CASE ~VaultStep
    BY <2>3, MoneyFrame DEF adosVars, restVars
  <2> QED BY <2>2, <2>3
<1> QED BY <1>1, AdosInvariant, PTL DEF AdosSpec, VaultKept

\* A leaf of an airdrop's stage is paid once and nothing after the rest of the
\* stage was burned.
THEOREM AirdropIsFinal == AdosSpec => AirdropFinal
<1>1. AdosInv /\ [AdosNext]_adosVars => [PaidOnce]_<<stages, paid, burned>>
  <2> SUFFICES ASSUME AdosInv, [AdosNext]_adosVars PROVE PaidOnce \/ UNCHANGED <<stages, paid, burned>>
    OBVIOUS
  <2>1. CoinsOK /\ AirdropInv
    BY DEF AdosInv, MoneyInv
  <2>2. CASE AirdropStep /\ UNCHANGED clock
    BY <2>1, <2>2, AirdropKeeps
  <2>3. CASE ~(AirdropStep /\ UNCHANGED clock)
    BY <2>3, MoneyFrame DEF adosVars, restVars, airdropVars
  <2> QED BY <2>2, <2>3
<1> QED BY <1>1, AdosInvariant, PTL DEF AdosSpec, AirdropFinal

\* A split pays every recipient the part due, rounded down by less than a coin,
\* and returns the rest; a transfer pays every fee, rounded up, and delivers the
\* rest of the amount; a swap leaves nothing of the asset asked for behind.
THEOREM PaymentsAreExact == AdosSpec => PaymentsExact
<1> DEFINE SplitsExact ==
             coins' # coins /\ Splits => \A s \in Actors, amount \in SentAmounts :
               IF ado = "splitter" THEN SplitterSend(s, amount) => SplitExact(s, amount)
               ELSE WeightedSend(s, amount) => SplitExact(s, amount)
           TransfersExact ==
             tokens' # tokens /\ ado = "token" => \A s \in Actors, to \in Holders, amount \in TokenAmounts :
               Transfer(s, to, amount) => TransferExact(s, to, amount)
           SwapsExact ==
             holdings' # holdings /\ ado = "swapper" => \A offer, ask \in Natives \cup Cw20s : offer # ask =>
               \A s, recipient \in Actors, n, out \in SwapAmounts :
                 Swap(s, offer, n, ask, out, recipient) \/ SwapCw20(s, offer, n, ask, out, recipient) =>
                   SwapExact(ask)
<1>1. AdosInv => SplitsExact /\ TransfersExact /\ SwapsExact
  <2> SUFFICES ASSUME AdosInv PROVE SplitsExact /\ TransfersExact /\ SwapsExact
    OBVIOUS
  <2>1. CoinsOK /\ RecipientsOK /\ TokenInv /\ SwapperInv
    BY DEF AdosInv, MoneyInv
  <2>2. SplitsExact
    BY <2>1, SplitterPaysExactly, WeightedPaysExactly DEF Splits
  <2>3. TransfersExact
    BY <2>1, TransferPaysExactly
  <2>4. SwapsExact
    BY <2>1, SwapPaysExactly DEF Assets
  <2> QED BY <2>2, <2>3, <2>4
<1> QED BY <1>1, AdosInvariant, PTL DEF PaymentsExact

\* However rarely an allocated reward is given out, over any number of its
\* cycles at once, what it has released is what its schedule says of that time:
\* exactly where no cycle's reward rounds, and never more.
THEOREM RewardsOnSchedule == AdosSpec => []OnSchedule
<1>1. AdosInv => OnSchedule
  BY ScheduleOn DEF AdosInv
<1> QED BY <1>1, AdosInvariant, PTL

\* No step of the staking pool takes from anybody what has been earned.
THEOREM EarningsAreKept == AdosSpec => EarningsKept
<1>1. AdosInv /\ [AdosNext]_adosVars => [NothingLost]_vars
  <2> SUFFICES ASSUME AdosInv, [AdosNext]_adosVars PROVE NothingLost \/ UNCHANGED vars
    OBVIOUS
  <2>1. StakingInv
    BY DEF AdosInv
  <2>2. Next \/ UNCHANGED vars
    BY StakingFrame DEF adosVars
  <2> QED BY <2>1, <2>2, StakingKeeps
<1> QED BY <1>1, AdosInvariant, PTL DEF AdosSpec, EarningsKept

\* A stake, or the withdrawal of a whole one, leaves the others' shares worth
\* what they were or more: the divisions round in favour of the pool.
THEOREM SharesUndiluted == AdosSpec => NoDilution
<1>1. AdosInv => Undiluted
  BY StakingUndiluted DEF AdosInv
<1> QED BY <1>1, AdosInvariant, PTL DEF NoDilution
=============================================================================
