------------------------------- MODULE MCAdos -------------------------------
(* Model values for Ados.                                                    *)
EXTENDS Ados, TLC

CONSTANTS ann, bob, this, venue, farm, andrApp, shop, list

\* The bank: ann pays, bob and the venue are paid.  "shop" is the venue's name in
\* the app; "list" is no name in it.
Start == [h \in {ann, bob, this, venue, farm} |-> IF h = ann THEN 5 ELSE IF h = bob THEN 1 ELSE 0]
Components == [a \in {andrApp} |-> [n \in {shop} |-> venue]]

Value(kind, n) == [kind |-> kind, text |-> venue, n |-> n]
KeyValues == {Value("string", 0), Value("decimal", 5), Value("nested", 0)}

Module(type, address, mutable) == [type |-> type, address |-> address, mutable |-> mutable]
ModulesOfCw20 ==
  {<< >>, <<Module("rates", venue, TRUE), Module("address-list", venue, TRUE), Module("receipt", venue, TRUE)>>}
ModuleLists == ModulesOfCw20 \cup {<<Module("auction", venue, TRUE)>>}
MoreModules ==
  {Module("rates", shop, TRUE), Module("receipt", list, TRUE), Module("auction", venue, FALSE)}

All == [kind |-> "all", n |-> 0]
Some == [kind |-> "amount", n |-> 2]
Third == [kind |-> "percent", n |-> 3]
Withdrawals == {All, Some, Third}

Entry(to, part) == [to |-> to, part |-> part]
PercentLists ==
  {<<Entry(bob, 3), Entry(shop, 4)>>, <<Entry(bob, 4), Entry(bob, 6)>>, <<Entry(bob, 7), Entry(ann, 4)>>, << >>}
WeightLists == {<<Entry(bob, 1), Entry(ann, 2)>>, <<Entry(bob, 1), Entry(bob, 2)>>, << >>}

TwoTrees == {{<<ann, 1>>, <<bob, 2>>, <<bob, 1>>}, {<<ann, 2>>}}

Fee(kind, n, additive, to) == [kind |-> kind, n |-> n, additive |-> additive, to |-> to]
FeeLists ==
  {<<Fee("percent", 3, FALSE, <<bob>>), Fee("flat", 1, TRUE, <<ann, bob>>)>>,
   <<Fee("external", 1, FALSE, <<ann>>)>>, << >>}
SomeReceipts == {<< >>}
Tokens == [h \in {ann, bob, venue} |-> IF h = ann THEN 4 ELSE 0]

Assets ==
  [a \in {"coin", "token"} |->
     [h \in {ann, bob, this, venue, farm} |->
        IF h = venue THEN 3 ELSE IF (h = ann /\ a = "coin") \/ (h = bob /\ a = "token") THEN 2 ELSE 0]]

\* Rates that round: 3 tokens in a cycle of two seconds, then 4 in one cut short.
Growing == [init |-> 0, till |-> 3, cycleRewards |-> 3, cycleDuration |-> 2, increase |-> 2]
\* Whole tokens a second, later: two in the first cycle, three in the next.
Even == [init |-> 1, till |-> 3, cycleRewards |-> 2, cycleDuration |-> 1, increase |-> 2]
Schedules == {Growing, Even}

Symmetry == Permutations(Users) \cup Permutations(Depositors)
=============================================================================
