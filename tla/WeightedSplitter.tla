-------------------------- MODULE WeightedSplitter --------------------------
(***************************************************************************)
(* The weighted distribution splitter, contracts/finance/andromeda-        *)
(* weighted-distribution-splitter: the splitter with weights for           *)
(* percentages.  Recipients can also be added, removed and weighed anew    *)
(* one by one.  An instantiation checks no weights, so that a list may be  *)
(* empty or weigh nothing.                                                 *)
(***************************************************************************)
EXTENDS Splitter, SequencesExt

CONSTANT WeightedLists   \* sequences of recipients, whose parts are weights

ASSUME WeightedAssumption == WeightedLists \subseteq Seq(Recipient)

WeightedInit ==
  /\ recipients \in {list \in WeightedLists : Len(list) <= MaxRecipients}
  /\ lock \in {clock} \cup {clock + t : t \in {n \in LockTimes : LockTimeValid(n)}}

WeightedRecipients == UNION {Range(list) : list \in WeightedLists}

MayReweigh(s) == MayManage(s) /\ LockExpired

\* position: the first recipient with this identifier.
PositionOf(to) == SelectInSeq(recipients, LAMBDA r : r.to = to)

ChangeRecipients(list) ==
  /\ recipients' = list
  /\ UNCHANGED <<lock, coins>>

UpdateRecipientWeight(s, r) ==
  LET i == PositionOf(r.to)
  IN  /\ MayReweigh(s)
      /\ r.part > 0
      /\ i > 0
      /\ ChangeRecipients([recipients EXCEPT ![i].part = r.part])

AddRecipient(s, r) ==
  /\ MayReweigh(s)
  /\ r.part > 0
  /\ PositionOf(r.to) = 0
  /\ Len(recipients) < MaxRecipients
  /\ ChangeRecipients(Append(recipients, r))

\* swap_remove: the last recipient takes the place of the one removed.
RemoveRecipient(s, to) ==
  LET i == PositionOf(to)
  IN  /\ MayReweigh(s)
      /\ i > 0
      /\ ChangeRecipients(Front([recipients EXCEPT ![i] = Last(recipients)]))

\* A recipient may be on the new list twice.
WeightedUpdateRecipients(s, list) ==
  /\ MayReweigh(s)
  /\ list # << >> /\ Len(list) <= MaxRecipients
  /\ \A i \in DOMAIN list : list[i].part > 0
  /\ ChangeRecipients(list)

WeightedUpdateLock(s, t) == UpdateLock(s, t)

\* multiply_ratio panics when the weights sum to zero.
WeightedSend(s, amount) ==
  /\ recipients # << >> => PartsOf(recipients) > 0
  /\ PayShares(s, amount,
       [i \in DOMAIN recipients |-> (amount * recipients[i].part) \div PartsOf(recipients)])
  /\ UNCHANGED <<recipients, lock>>

WeightedStep ==
  \E s \in Actors :
    \/ \E amount \in SentAmounts : WeightedSend(s, amount)
    \/ \E r \in WeightedRecipients :
         UpdateRecipientWeight(s, r) \/ AddRecipient(s, r) \/ RemoveRecipient(s, r.to)
    \/ \E list \in WeightedLists : WeightedUpdateRecipients(s, list)
    \/ \E t \in LockTimes : WeightedUpdateLock(s, t)
=============================================================================
