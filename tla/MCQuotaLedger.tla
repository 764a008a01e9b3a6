---------------------------- MODULE MCQuotaLedger ----------------------------
(* Small instances of QuotaLedger for TLC.                                 *)
EXTENDS QuotaLedger, TLC

CONSTANTS q1, q2, q3, s1

TwoRequests == {q1, q2}
ThreeRequests == {q1, q2, q3}
Shared == [q \in Requests |-> s1]

OneWorker == {"w"}
SameWorker == [q \in Requests |-> "w"]
OwnWorker == [q \in Requests |-> q]

SameDay == [t \in 0..MaxClock |-> 0]
TwoDays == [t \in 0..MaxClock |-> IF t < 2 THEN 0 ELSE 1]

Daily(n) == [daily |-> n, monthly |-> NoLimit]
Both(d, m) == [daily |-> d, monthly |-> m]

DailyTwo == Daily(2)
DailyTwoMonthlyThree == Both(2, 3)
None == {}
StricterPlan == {Both(1, 2)}
StricterOverride == {Daily(1)}

Symmetric == Permutations(Requests)
=============================================================================
