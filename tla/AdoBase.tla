------------------------------- MODULE AdoBase ------------------------------
(***************************************************************************)
(* packages/ado-base, on which every contract (an ADO) is built: owner and *)
(* operators, the app the contract belongs to, the modules its hooks go    *)
(* to, addresses cached from the primitive contract, withdrawal of what    *)
(* the contract holds, and migration.                                      *)
(***************************************************************************)
EXTENDS Primitive

CONSTANTS
  AdoTypes,         \* ado_type of the instantiation
  InitialModules,   \* what its list of modules may be
  ModuleChoices,    \* modules registered later: records of type, address, mutable
  OperatorChoices,  \* lists of operators that owners may choose
  WithdrawalChoices,
  PageSizes,        \* limits of RefreshAddresses
  Versions,         \* of the contract's code
  BaseVersion,      \* of packages/ado-base
  MaxModules        \* bound on module_idx, for model checking

ASSUME BaseAssumption ==
  /\ InitialModules \subseteq
       Seq([type : STRING, address : Actors \cup Contracts \cup Names, mutable : BOOLEAN])
  /\ WithdrawalChoices \subseteq [kind : WithdrawalKinds, n : Nat]
  /\ MaxModules \in Nat

VARIABLES
  owner, operators,
  appContract,
  adoType,
  modules,          \* module_info, by index
  moduleIdx,        \* module_idx
  cached,           \* cached_addresses
  contractVersion,  \* of cw2
  adoVersion        \* version

ownVars == <<owner, operators, appContract>>
moduleVars == <<adoType, modules, moduleIdx>>
versionVars == <<contractVersion, adoVersion>>

MayManage(s) == s = owner \/ s \in operators

\* Bug: modules are only compared with the ones before them in the list.
ModulesValidMutant(ms) ==
  /\ \A i, j \in DOMAIN ms :
       i = j + 1 /\ ms[i].type # "rates" => ms[i].type # ms[j].type
  /\ adoType = "cw20" => \A i \in DOMAIN ms : ms[i].type # "auction"

\* validate_modules: one module of a type, but for rates.
ModulesValid(ms) ==
  /\ \A i, j \in DOMAIN ms : ms[i].type = ms[j].type /\ ms[i].type # "rates" => i = j
  /\ adoType = "cw20" => \A i \in DOMAIN ms : ms[i].type # "auction"

BaseInit ==
  /\ owner \in Actors /\ operators = {} /\ appContract = NoApp
  /\ adoType \in AdoTypes
  /\ modules \in InitialModules /\ ModulesValid(modules)
  /\ moduleIdx = Len(modules) + 1
  /\ cached = << >>
  /\ contractVersion \in Versions /\ adoVersion = contractVersion

UpdateOwner(s, new) ==
  /\ s = owner
  /\ owner' = new
  /\ UNCHANGED <<operators, appContract>>

UpdateOperators(s, new) ==
  /\ s = owner
  /\ operators' = new
  /\ UNCHANGED <<owner, appContract>>

ModuleAddressesIn(ms) == {ms[i].address : i \in DOMAIN ms}

\* validate_andr_addresses, of the contract's own and its modules'.
AddressesValid(addresses, app) ==
  \A a \in addresses \cup ModuleAddressesIn(modules) : Resolves(a, app)

\* execute_update_app_contract, with the addresses the contract itself stores.
UpdateAppContract(s, app, addresses) ==
  /\ s = owner
  /\ AddressesValid(addresses, app)
  /\ appContract' = app
  /\ UNCHANGED <<owner, operators>>

OwnStep(addresses) ==
  \E s \in Actors :
    \/ \E new \in Actors : UpdateOwner(s, new)
    \/ \E new \in OperatorChoices : UpdateOperators(s, new)
    \/ \E app \in Apps : UpdateAppContract(s, app, addresses)

\* validate_module_address, which lets everything pass while there is no app.
ModuleAddressValid(m) == appContract # NoApp => Resolves(m.address, appContract)

ChangeModules(s, ms) ==
  /\ MayManage(s)
  /\ modules' = ms
  /\ UNCHANGED adoType

RegisterModule(s, m) ==
  /\ moduleIdx <= MaxModules
  /\ ModuleAddressValid(m)
  /\ ModulesValid(With(modules, moduleIdx, m))
  /\ ChangeModules(s, With(modules, moduleIdx, m))
  /\ moduleIdx' = moduleIdx + 1

IsMutable(i) == i \in DOMAIN modules /\ modules[i].mutable

\* Bug: the address of the new module is not looked at.
AlterModuleMutant(s, i, m) ==
  /\ IsMutable(i)
  /\ ModulesValid(With(modules, i, m))
  /\ ChangeModules(s, With(modules, i, m))
  /\ UNCHANGED moduleIdx

AlterModule(s, i, m) ==
  /\ ModuleAddressValid(m)
  /\ IsMutable(i)
  /\ ModulesValid(With(modules, i, m))
  /\ ChangeModules(s, With(modules, i, m))
  /\ UNCHANGED moduleIdx

DeregisterModule(s, i) ==
  /\ IsMutable(i)
  /\ ChangeModules(s, Without(modules, i))
  /\ UNCHANGED moduleIdx

ModuleStep ==
  \E s \in Actors :
    \/ \E m \in ModuleChoices : RegisterModule(s, m) \/ \E i \in 1 .. MaxModules : AlterModule(s, i, m)
    \/ \E i \in 1 .. MaxModules : DeregisterModule(s, i)

\* cache_address, from the primitive contract, of the keys a contract uses.
Refresh(keys) ==
  /\ \A k \in keys : HasValue(k, "string")
  /\ cached' = [k \in DOMAIN cached \cup keys |-> IF k \in keys THEN values[k].text ELSE cached[k]]

\* execute_refresh_addresses: the next keys, all of them or none.
Page(start, limit) ==
  {k \in DOMAIN cached : start < k /\ Cardinality({j \in DOMAIN cached : start < j /\ j < k}) < limit}

CacheStep ==
  \/ \E k \in PrimitiveKeys : Refresh({k})
  \/ \E start \in {0} \cup PrimitiveKeys, limit \in PageSizes : Refresh(Page(start, limit))

\* The message to a recipient, an address or a name in the app, that sends
\* native coins or cw20 tokens alike.
PayRecipient(recipient, amount) ==
  /\ Resolves(recipient, appContract)
  /\ BankSend(This, AddressOf(recipient, appContract), amount)

\* execute_withdraw of the one coin, a withdrawable token.
WithdrawFunds(s, recipient, w) ==
  /\ MayManage(s)
  /\ CanWithdraw(w)
  /\ PayRecipient(recipient, WithdrawalAmount(w, coins[This]))

\* migrate, to newer code of the same contract.  The version the ADO reports is
\* then that of packages/ado-base, where execute_update_version is compiled.
Migrate(version) ==
  /\ contractVersion < version
  /\ contractVersion' = version
  /\ adoVersion' = BaseVersion
-----------------------------------------------------------------------------
\* However modules are registered, altered and deregistered by owners and
\* operators who change, and whichever app the contract is put into: no two
\* modules of a type but rates, no auction for a cw20 token, and in an app every
\* module can be found, so that no hook fails for want of an address.
ModulesSound ==
  /\ \A i, j \in DOMAIN modules : i # j /\ modules[i].type = modules[j].type => modules[i].type = "rates"
  /\ adoType = "cw20" => \A i \in DOMAIN modules : modules[i].type # "auction"
  /\ appContract # NoApp => \A i \in DOMAIN modules : Resolves(modules[i].address, appContract)
  /\ \A i \in DOMAIN modules : i < moduleIdx
=============================================================================
