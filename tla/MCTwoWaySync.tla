---------------------------- MODULE MCTwoWaySync ----------------------------
(* Model values for TLC.  No operator of the specification tells two         *)
(* totals, workers or threads apart; realms are told apart by Blank.         *)
EXTENDS Claims, TLC

CONSTANTS c1, c2, d1, r1, r2, w1, w2, t1, t2

OneRealm == {r1}
TwoRealms == {r1, r2}
OneTotal == {c1}
TwoTotals == {c1, c2}
OneDue == {d1}
OneContent == [total : {c1}, due : {d1}]
TwoContents == [total : {c1, c2}, due : {d1}]
DueOrNot == TwoContents \cup {[total |-> c1, due |-> NoDue]}
OneWorker == {w1}
TwoWorkers == {w1, w2}
OneThread == {t1}
TwoThreads == {t1, t2}

Symmetry == Permutations({c1, c2}) \cup Permutations({w1, w2})
              \cup Permutations({t1, t2})
=============================================================================
