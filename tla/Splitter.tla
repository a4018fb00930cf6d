------------------------------ MODULE Splitter ------------------------------
(***************************************************************************)
(* The splitter, contracts/finance/andromeda-splitter: what is sent to it  *)
(* goes on at once, a percentage to each of its recipients and the rest    *)
(* back.  The owner and the operators may only change the recipients while *)
(* the splitter is not locked.                                             *)
(***************************************************************************)
EXTENDS AdoBase

CONSTANTS
  SplitterLists,   \* sequences of recipients: records of an identifier, to, and a part
  LockTimes,
  NoLockTime,      \* lock_time when it is left out
  OneDay, OneYear,
  MaxRecipients,   \* 100
  SentAmounts

\* A recipient: an address or a name in the app, and its part.
Recipient == [to : Actors \cup Contracts \cup Names, part : Nat]

ASSUME SplitterAssumption ==
  /\ SplitterLists \subseteq Seq(Recipient)
  /\ NoLockTime \notin Nat /\ LockTimes \subseteq Nat
  /\ OneDay \in Nat /\ OneYear \in Nat /\ MaxRecipients \in Nat
  /\ SentAmounts \subseteq Nat \ {0}

VARIABLES
  recipients,   \* SPLITTER.recipients
  lock          \* SPLITTER.lock

LockTimeValid(t) == OneDay <= t /\ t <= OneYear
LockExpired == lock <= clock

PartsOf(list) == SumFunction([i \in DOMAIN list |-> list[i].part])

\* validate_recipient_list, where parts are percentages.
RecipientListValid(list) ==
  /\ list # << >> /\ Len(list) <= MaxRecipients
  /\ PartsOf(list) <= PercentOne

SplitterInit ==
  /\ recipients \in {list \in SplitterLists : RecipientListValid(list)}
  /\ lock \in {clock} \cup {clock + t : t \in {n \in LockTimes : LockTimeValid(n)}}

RecipientAddresses == {recipients[i].to : i \in DOMAIN recipients}

\* What recipient number i gets, paid to the addresses found in the app.
PaidOut(share) ==
  [h \in DOMAIN coins |->
     SumFunctionOnSet(share, {i \in DOMAIN recipients : AddressOf(recipients[i].to, appContract) = h})]

\* Bug: the rest stays in the contract.
PaySharesMutant(s, amount, share) ==
  /\ amount <= coins[s]
  /\ \A i \in DOMAIN recipients : Resolves(recipients[i].to, appContract) /\ share[i] > 0
  /\ coins' = LET paid == AfterPayments(s, PaidOut(share))
                  rest == amount - SumFunction(share)
              IN  [paid EXCEPT ![s] = @ - rest, ![This] = @ + rest]

\* The end of execute_send: the bank sends no zero coins, and what is left of
\* the amount returns to the sender.
PayShares(s, amount, share) ==
  /\ amount <= coins[s]
  /\ \A i \in DOMAIN recipients : Resolves(recipients[i].to, appContract) /\ share[i] > 0
  /\ SumFunction(share) <= amount
  /\ coins' = AfterPayments(s, PaidOut(share))

SplitterSend(s, amount) ==
  /\ PayShares(s, amount, [i \in DOMAIN recipients |-> Portion(amount, recipients[i].part)])
  /\ UNCHANGED <<recipients, lock>>

SplitterUpdateRecipients(s, list) ==
  /\ MayManage(s)
  /\ RecipientListValid(list)
  /\ LockExpired
  /\ recipients' = list
  /\ UNCHANGED <<lock, coins>>

UpdateLock(s, t) ==
  /\ MayManage(s)
  /\ LockExpired
  /\ LockTimeValid(t)
  /\ lock' = clock + t
  /\ UNCHANGED <<recipients, coins>>

SplitterStep ==
  \E s \in Actors :
    \/ \E amount \in SentAmounts : SplitterSend(s, amount)
    \/ \E list \in SplitterLists : SplitterUpdateRecipients(s, list)
    \/ \E t \in LockTimes : UpdateLock(s, t)
=============================================================================
