----------------------------- MODULE MCVesting ------------------------------
(* Model values for Vesting.  DecimalOne is 2, so value 1 is a half, and 3 a  *)
(* rate over one.                                                            *)
EXTENDS Vesting

Half == [percentage |-> TRUE, value |-> 1]
OverOne == [percentage |-> TRUE, value |-> 3]
Fixed(n) == [percentage |-> FALSE, value |-> n]

MixedReleases == {Half, OverOne, Fixed(2)}
=============================================================================
