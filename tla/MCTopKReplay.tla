----------------------------- MODULE MCTopKReplay -----------------------------
(***************************************************************************)
(* Four actions of which three are tried, cycles on either side of the one *)
(* percent, labels that are right and wrong, a ranking that is incomplete; *)
(* two calls, which are alike.  A float has two significant bits, so that  *)
(* the third addition rounds where math.fsum() does not; and the limit in  *)
(* floats falls below that in integers for one of the counts.              *)
(***************************************************************************)
EXTENDS TopKReplay, TLC
CONSTANTS a1, a2, a3, a4, c1, c2
MCCaller == {c1, c2}
MCAction == {a1, a2, a3, a4}
MCSymmetry == Permutations(MCCaller)
MCCost == a1 :> 1 @@ a2 :> 4 @@ a3 :> 1 @@ a4 :> 2
Rounded(n) == IF n < 4 THEN n ELSE IF n < 8 THEN 2 * (n \div 2) ELSE 8
MCFloat == {0, 1, 2, 3, 4, 6, 8}
MCPlus == [p \in MCFloat \X MCFloat |-> Rounded(p[1] + p[2])]
MCFSum(s) == Rounded(FoldLeft(+, 0, s))

MCFloatLimit(oracle) == IF oracle = 101 THEN 101 ELSE (101 * oracle) \div 100

Measured(cycles, hit) == [success |-> TRUE, feasible |-> TRUE, cycles |-> cycles, hit |-> hit]
MCOutcomes ==
  {t \in [MCAction ->
      {Measured(100, TRUE), Measured(101, TRUE), Measured(101, FALSE),
       Measured(102, TRUE), Measured(102, FALSE),
       [Measured(100, FALSE) EXCEPT !.feasible = FALSE],
       [success |-> FALSE, feasible |-> FALSE, cycles |-> 0, hit |-> FALSE]}] :
    /\ t[a3] \in {Measured(100, TRUE), Measured(101, FALSE), Measured(102, TRUE)}
    /\ t[a4] \in {Measured(101, TRUE), Measured(102, FALSE)}}
MCRankings == {<<a1, a2, a3, a4>>, <<a4, a3, a2, a1>>, <<a2, a1>>}
=============================================================================
