----------------------------- MODULE AttemptCharges -----------------------------
(***************************************************************************)
(* What an action of a ranking costs, and what a prefix of the ranking     *)
(* costs: aggregate_charges() and replay_prefix() of                       *)
(* src/replay/ranking_v6_attempt_charges.py.                               *)
(*                                                                         *)
(* The attempts of one action are a set of rows, as their input order has  *)
(* no meaning there.  Identifiers, digests and the environment are left    *)
(* out: rows that do not join raise.  FAILED stands for TIMEOUT too.       *)
(*                                                                         *)
(* Runtimes are floats.  Adding two of them rounds; math.fsum() rounds     *)
(* once, so that from the third on it differs from a running sum.          *)
(***************************************************************************)
EXTENDS Naturals, FiniteSets, SequencesExt, FiniteSetsExt

CONSTANTS
  MaxRetry,   \* bound: retries of a stage in the rows considered
  Float,      \* the floats that runtimes and their sums can be
  Plus,       \* x + y of floats
  FSum(_)     \* math.fsum() of a sequence of floats

ASSUME ChargesAssumption == MaxRetry \in Nat

ASSUME FloatAssumption ==
  /\ 0 \in Float
  /\ Plus \in [Float \X Float -> Float]
  /\ FSum(<<>>) = 0
  /\ \A x \in Float : Plus[<<0, x>>] = x /\ FSum(<<x>>) = x
  /\ \A x, y \in Float : FSum(<<x, y>>) = Plus[<<x, y>>]

Stages == <<"H", "M", "F">>
Schemes == {<<"H", "F">>, <<"H", "M", "F">>}
Status == {"SUCCESS", "FAILED"}
Row == [stage : Range(Stages), retry : 0 .. MaxRetry, status : Status]

Of(rows, s) == {r \in rows : r.stage = s}
Ended(rows, s) == \E r \in Of(rows, s) : r.retry = Cardinality(Of(rows, s)) - 1
                                         /\ r.status = "SUCCESS"

\* A mutant of RetriesOK: a stage may be tried again after it succeeded.
RetriesOKAnyStatus(rows) == \A s \in Range(Stages) :
  {r.retry : r \in Of(rows, s)} = 0 .. Cardinality(Of(rows, s)) - 1

RetriesOK(rows) == \A s \in Range(Stages) :
  /\ {r.retry : r \in Of(rows, s)} = 0 .. Cardinality(Of(rows, s)) - 1
  /\ \A r \in Of(rows, s) :
       r.status = "SUCCESS" => r.retry = Cardinality(Of(rows, s)) - 1

\* aggregate_charges() takes the rows of an action that ended so: the stages
\* that have rows are the first n of its scheme, both being in one order.
Accepts(scheme, final, rows) ==
  /\ rows # {}
  /\ \A r, q \in rows : r.stage = q.stage /\ r.retry = q.retry => r = q
  /\ RetriesOK(rows)
  /\ \E n \in 1 .. Len(scheme) :
       /\ {s \in Range(Stages) : Of(rows, s) # {}} = {scheme[i] : i \in 1 .. n}
       /\ \A i \in 1 .. n - 1 : Ended(rows, scheme[i])
       /\ final = "SUCCESS" => n = Len(scheme) /\ Ended(rows, scheme[n])

-----------------------------------------------------------------------------
\* The reference: a serial executor takes the stages in order and tries one
\* again until it succeeds; it may give up after any attempt.

Extensions(scheme, h) == {Append(h, r) : r \in {r \in Row :
  IF h = <<>> THEN r.stage = scheme[1] /\ r.retry = 0
  ELSE LET last == Last(h)
       IN IF last.status = "SUCCESS"
            THEN r.retry = 0 /\ \E i \in 1 .. Len(scheme) - 1 :
                                  scheme[i] = last.stage /\ scheme[i + 1] = r.stage
            ELSE r.retry = last.retry + 1 /\ r.stage = last.stage}}

Histories(scheme) ==
  LET H[n \in 0 .. 3 * (MaxRetry + 1)] ==
        IF n = 0 THEN {<<>>}
        ELSE H[n - 1] \cup UNION {Extensions(scheme, h) : h \in H[n - 1]}
  IN H[3 * (MaxRetry + 1)] \ {<<>>}

Finished(scheme, h) == Last(h).stage = Last(scheme) /\ Last(h).status = "SUCCESS"

\* Rows with at most one status for a stage and a retry.
RowSets ==
  LET key == Range(Stages) \X (0 .. MaxRetry)
  IN {{[stage |-> k[1], retry |-> k[2], status |-> f[k]] : k \in {k \in key : f[k] # "NONE"}} :
        f \in [key -> Status \cup {"NONE"}]}

AcceptedRows == [scheme \in Schemes |-> [final \in Status |->
  {rows \in RowSets : Accepts(scheme, final, rows)}]]

SerialRows == [scheme \in Schemes |-> [final \in Status |->
  {Range(h) : h \in {h \in Histories(scheme) : final = "SUCCESS" => Finished(scheme, h)}}]]

-----------------------------------------------------------------------------
\* replay_prefix(): measured outcomes, and the prefix that is charged.

Safe(outcome) == {a \in DOMAIN outcome : outcome[a].success /\ outcome[a].feasible}

\* Within one percent of the fewest cycles of a safe action.
Positives(outcome) ==
  LET oracle == Min({outcome[a].cycles : a \in Safe(outcome)})
  IN {a \in Safe(outcome) : 100 * outcome[a].cycles <= 101 * oracle}

\* The first hit within k, and how many actions are charged with it, or up to k.
Prefix(positives, order, k) ==
  LET last == Min({k, Len(order)})
      hits == {n \in 1 .. last : order[n] \in positives}
  IN IF hits = {} THEN [hit |-> 0, attempted |-> last]
                  ELSE [hit |-> Min(hits), attempted |-> Min(hits)]

PrefixReplay(outcome, cost, order, k) ==
  LET p == Prefix(Positives(outcome), order, k)
  IN [hit |-> p.hit, attempted |-> p.attempted,
      charged |-> FSum([i \in 1 .. p.attempted |-> cost[order[i]]])]
=============================================================================
