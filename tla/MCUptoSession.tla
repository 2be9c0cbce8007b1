---------------------------- MODULE MCUptoSession ----------------------------
(* Instances of UptoSession for TLC. *)
EXTENDS UptoSession, TLC

CONSTANTS t1, t2, m1, m2, r1, r2, c1, c2, c3, k1, k2

HomeOne == [c \in Slots |-> r1]
HomeTwo == (c1 :> r1) @@ (c2 :> r2) @@ (k1 :> r1) @@ (k2 :> r2)
SignedLate == [t \in Tasks |-> MaxTime + 5]
SignedApart == (t1 :> MaxTime + 5) @@ (t2 :> 1)
AllReadings == {Unreported, 0, 1}
CallSymmetry == Permutations(Calls)
CallTaskSymmetry == Permutations(Calls) \cup Permutations(Tasks)
OneReading == {1}
ZeroOrOne == {0, 1}
=============================================================================
