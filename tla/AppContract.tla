----------------------------- MODULE AppContract ----------------------------
(***************************************************************************)
(* The app contract, contracts/app/andromeda-app-contract: it instantiates *)
(* components from the code its factory knows, gives them names, by which  *)
(* they find one another, and owns them until its owner claims them.       *)
(* The addresses of components are numbered as they are added.             *)
(***************************************************************************)
EXTENDS AdoBase, Factory

CONSTANTS
  FactoryKey,        \* the key of the factory's address in the primitive contract
  FactoryAddress,
  SkippedNames,      \* names whose first byte is before that of "1"
  OtherAddress,      \* a contract of somebody else
  MaxComponents      \* 50 at the instantiation; here also the bound for model checking

VARIABLES
  descriptors,      \* ADO_DESCRIPTORS; ADO_IDX is one more than their number
  adoAddress,       \* ADO_ADDRESSES
  componentOwner,   \* the owner each component has
  renamed           \* history: names whose address was updated

appVars == <<descriptors, adoAddress, componentOwner, renamed>>

AppInit ==
  /\ descriptors = << >> /\ adoAddress = << >>
  /\ componentOwner = << >> /\ renamed = {}

\* generate_instantiate_msg finds the code of the type in the factory.
HasCode(type) ==
  /\ HasValue(FactoryKey, "string") /\ values[FactoryKey].text = FactoryAddress
  /\ type \in DOMAIN codeIds

\* reply: the address of the new component, which the app owns, is saved.
SaveAddress(name) ==
  /\ adoAddress' = With(adoAddress, name, Len(descriptors) + 1)
  /\ componentOwner' = Append(componentOwner, This)

\* Bug: the name may be taken.
AddAppComponentMutant(s, name, type) ==
  /\ Len(descriptors) < MaxComponents
  /\ s = owner
  /\ HasCode(type)
  /\ descriptors' = Append(descriptors, [name |-> name, type |-> type])
  /\ SaveAddress(name)
  /\ UNCHANGED renamed

\* One transaction with the reply.  An instantiation of the app adds its
\* components so.
AddAppComponent(s, name, type) ==
  /\ Len(descriptors) < MaxComponents
  /\ s = owner
  /\ name \notin DOMAIN adoAddress
  /\ HasCode(type)
  /\ descriptors' = Append(descriptors, [name |-> name, type |-> type])
  /\ SaveAddress(name)
  /\ UNCHANGED renamed

\* The messages to the components, UpdateOwner from the app, succeed together.
GiveComponents(addresses, new) ==
  /\ addresses \subseteq DOMAIN componentOwner
  /\ \A a \in addresses : componentOwner[a] = This
  /\ componentOwner' = [a \in DOMAIN componentOwner |->
                          IF a \in addresses THEN new ELSE componentOwner[a]]
  /\ UNCHANGED <<descriptors, adoAddress, renamed>>

ClaimOwnership(s, name) ==
  /\ s = owner
  /\ name \in DOMAIN adoAddress
  /\ GiveComponents({adoAddress[name]}, s)

\* load_component_addresses: from the name "1" on.  Two names of one component
\* make two messages, of which the second fails.
ClaimOwnershipOfAll(s) ==
  LET claimable == DOMAIN adoAddress \ SkippedNames
  IN  /\ s = owner
      /\ \A m, n \in claimable : adoAddress[m] = adoAddress[n] => m = n
      /\ GiveComponents({adoAddress[n] : n \in claimable}, s)

\* A message to a component in the name of the app: here the one for its owner.
ProxyMessage(s, name, new) ==
  /\ s = owner
  /\ name \in DOMAIN adoAddress
  /\ GiveComponents({adoAddress[name]}, new)

\* By the owner, or by the component the name has had.
UpdateAddress(s, name, address) ==
  /\ name \in DOMAIN adoAddress
  /\ s = owner \/ s = adoAddress[name]
  /\ adoAddress' = With(adoAddress, name, address)
  /\ renamed' = renamed \cup {name}
  /\ UNCHANGED <<descriptors, componentOwner>>

Addresses == DOMAIN componentOwner \cup {OtherAddress}

AppStep ==
  \/ \E s \in Actors, name \in Names :
       \/ \E type \in Types : AddAppComponent(s, name, type)
       \/ ClaimOwnership(s, name)
       \/ \E new \in Actors : ProxyMessage(s, name, new)
  \/ \E s \in Actors : ClaimOwnershipOfAll(s)
  \/ \E s \in Actors \cup Addresses, name \in Names, a \in Addresses : UpdateAddress(s, name, a)
-----------------------------------------------------------------------------
\* Every component that was added is found under its own name, which no later
\* one takes over, unless the name's address was updated; and every name that
\* can be asked for has an address, never the placeholder of an instantiation.
NamesResolve ==
  /\ \A i \in DOMAIN descriptors :
       \/ adoAddress[descriptors[i].name] = i
       \/ descriptors[i].name \in renamed
  /\ \A name \in DOMAIN adoAddress : adoAddress[name] \in Addresses
=============================================================================
