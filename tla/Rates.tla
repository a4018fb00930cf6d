-------------------------------- MODULE Rates -------------------------------
(***************************************************************************)
(* The rates module, contracts/modules/andromeda-rates: taxes, which are   *)
(* additive, and royalties on transfers of funds, flat or a percentage, or *)
(* read from a primitive contract at each transfer.  A flat fee is taken   *)
(* to be in the funds transferred.                                         *)
(***************************************************************************)
EXTENDS AdoBase

CONSTANT RateLists
  \* sequences of records: kind, and n, which is the key of an external rate;
  \* additive; and to, the recipients, who get the fee each

ASSUME RatesAssumption ==
  RateLists \subseteq Seq([kind : {"flat", "percent", "external"}, n : Nat, additive : BOOLEAN,
                         to : Seq(Actors \cup Contracts)])

VARIABLE rates   \* CONFIG.rates

\* The keys of the primitive contract that rates name.
RateKeys == UNION {{list[i].n : i \in {j \in DOMAIN list : list[j].kind = "external"}} : list \in RateLists}

RatesInit == rates \in RateLists

UpdateRates(s, list) ==
  /\ s \in Managers
  /\ rates' = list

\* get_rate
RateValue(r) ==
  IF r.kind = "external"
  THEN [kind |-> IF values[r.n].kind = "decimal" THEN "percent" ELSE "flat", n |-> values[r.n].n]
  ELSE [kind |-> r.kind, n |-> r.n]

RateValid(r) ==
  /\ r.kind = "external" => HasValue(r.n, "decimal") \/ HasValue(r.n, "coin")
  /\ RateValue(r).n > 0
  /\ RateValue(r).kind = "percent" => RateValue(r).n <= PercentOne

\* Bug: no remainder goes to the receiver of the fee.
CalculateFeeMutant(rate, amount) ==
  IF rate.kind = "flat" THEN rate.n ELSE Portion(amount, rate.n)

\* A remainder is told from the inverse of the percentage, itself rounded down.
CalculateFee(rate, amount) ==
  LET fee == Portion(amount, rate.n)
      reversed == Portion(fee, (PercentOne * PercentOne) \div rate.n)
  IN  CASE rate.kind = "flat" -> rate.n
        [] rate.kind = "percent" /\ amount > reversed -> fee + 1
        [] rate.kind = "percent" /\ amount <= reversed -> fee

FeeOf(i, amount) == CalculateFee(RateValue(rates[i]), amount)

\* query_deducted_funds: what is left of the amount, which must cover the
\* royalties, and the payments in their order.
LeftoverFunds(amount) ==
  amount - SumFunctionOnSet([i \in DOMAIN rates |-> FeeOf(i, amount) * Len(rates[i].to)],
                            {i \in DOMAIN rates : ~rates[i].additive})

CanDeduct(amount) == (\A i \in DOMAIN rates : RateValid(rates[i])) /\ LeftoverFunds(amount) >= 0

FeePayments(amount) ==
  LET upTo[i \in 0 .. Len(rates)] ==
        IF i = 0 THEN << >>
        ELSE upTo[i - 1] \o [j \in DOMAIN rates[i].to |-> [to |-> rates[i].to[j], fee |-> FeeOf(i, amount)]]
  IN  upTo[Len(rates)]

RatesStep == \E s \in Actors, list \in RateLists : UpdateRates(s, list)
=============================================================================
