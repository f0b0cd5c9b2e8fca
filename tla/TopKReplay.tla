------------------------------- MODULE TopKReplay -------------------------------
(***************************************************************************)
(* The replay of a frozen ranking over measured outcomes: run_cli() of     *)
(* src/replay/runtime_accounting_v1.py with validate_ranking_freeze(),     *)
(* _append_access_event(), _load_output_package(), validate_dataset() and  *)
(* replay().  Calls with the same paths may run at the same time, each may *)
(* raise or be killed at any step, and the ranking may be generated again  *)
(* under them.  The manifest of the freeze is written once.                *)
(*                                                                         *)
(* One method and one circuit: the loops of replay() over both share       *)
(* nothing.  A digest is what it was taken of.                             *)
(***************************************************************************)
EXTENDS AttemptCharges

CONSTANTS
  Caller,    \* calls of run_cli()
  Action,    \* the actions of the circuit
  Outcomes,  \* the outcome tables considered: [Action -> Outcome]
  Cost,      \* policy_charged_runtime_s of an action
  Rankings,  \* contents of the ranking file
  K,         \* top_k
  FloatLimit(_)  \* the most cycles that are <= oracle * 1.01 + 1e-12, in floats

Outcome == [success : BOOLEAN, feasible : BOOLEAN, cycles : Nat, hit : BOOLEAN]

ASSUME ReplayAssumption ==
  /\ Outcomes \subseteq [Action -> Outcome]
  /\ Cost \in [Action -> Float]
  /\ Rankings \subseteq Seq(Action)
  /\ K \in Nat \ {0}

VARIABLES
  outcome,    \* outcomes.tsv
  ranking,    \* the ranking file
  frozen,     \* the ranking its manifest binds
  at,         \* progress of each call
  held,       \* the ranking a call has read
  sha,        \* the digest of the ranking a call has taken at the end
  disturbed,  \* history: calls under which the ranking was written
  ledger,     \* the events in the access ledger; a torn line is "TORN"
  opened,     \* history: calls that have opened the outcomes
  output      \* the result file, if there is one

files == <<outcome, ranking, frozen, ledger, output>>
vars == <<files, at, held, sha, disturbed, opened>>

NotRead == <<>>
NoOutput == [state |-> "none"]

Init ==
  /\ outcome \in Outcomes
  /\ ranking \in Rankings
  /\ frozen \in Rankings
  /\ at = [c \in Caller |-> "start"]
  /\ held = [c \in Caller |-> NotRead]
  /\ sha = [c \in Caller |-> NotRead]
  /\ disturbed = {}
  /\ ledger = <<>>
  /\ opened = {}
  /\ output = NoOutput

Goto(c, from, to) == at[c] = from /\ at' = [at EXCEPT ![c] = to]

-----------------------------------------------------------------------------
\* Neither the output nor the ledger exists.
Start(c) ==
  /\ Goto(c, "start", "validate")
  /\ output = NoOutput /\ ledger = <<>>
  /\ UNCHANGED <<files, held, sha, disturbed, opened>>

\* validate_ranking_freeze(): the digest of the ranking is that of the freeze.
Validate(c) ==
  /\ Goto(c, "validate", "read")
  /\ ranking = frozen
  /\ UNCHANGED <<files, held, sha, disturbed, opened>>

\* read_tsv() opens the file again.
Read(c) ==
  /\ Goto(c, "read", "receipt")
  /\ held' = [held EXCEPT ![c] = ranking]
  /\ UNCHANGED <<files, sha, disturbed, opened>>

\* A mutant of Receipt: mode "a" for the first event too.
ReceiptAppended(c) ==
  /\ Goto(c, "receipt", "open")
  /\ ledger' = Append(ledger, "PREOUTCOME_RECEIPT_VERIFIED")
  /\ UNCHANGED <<outcome, ranking, frozen, output, held, sha, disturbed, opened>>

\* _append_access_event() in mode "x", flushed and fsynced.
Receipt(c) ==
  /\ Goto(c, "receipt", "open")
  /\ ledger = <<>>
  /\ ledger' = <<"PREOUTCOME_RECEIPT_VERIFIED">>
  /\ UNCHANGED <<outcome, ranking, frozen, output, held, sha, disturbed, opened>>

\* _load_output_package(); the event that says so comes after it.
Open(c) ==
  /\ Goto(c, "open", "record")
  /\ opened' = opened \cup {c}
  /\ UNCHANGED <<files, held, sha, disturbed>>

Record(c) ==
  /\ Goto(c, "record", "replay")
  /\ ledger' = Append(ledger, "OUTCOMES_OPENED_AFTER_FREEZE")
  /\ UNCHANGED <<outcome, ranking, frozen, output, held, sha, disturbed, opened>>

\* A mutant of DatasetOK: the labels are taken as they are.
DatasetOKAnyLabel == Safe(outcome) # {}

\* The label rule of validate_dataset(), in floats; the rule of replay_prefix(),
\* in integers, is another one for very large counts.
FloatPositives(table) ==
  LET oracle == Min({table[a].cycles : a \in Safe(table)})
  IN {a \in Safe(table) : table[a].cycles <= FloatLimit(oracle)}

\* validate_dataset(): a safe action exists, and the labels are those of the
\* measured cycles.
DatasetOK ==
  Safe(outcome) # {} /\ {a \in Action : outcome[a].hit} = FloatPositives(outcome)

\* replay() needs the whole action space, each action once.
Complete(order) == Len(order) = Cardinality(Action) /\ Range(order) = Action

\* The loop of replay(): charge, rounding every time, then look.
Replayed(table, order) ==
  FoldLeft(LAMBDA s, a : IF s.hit # 0 THEN s
                         ELSE [hit |-> IF table[a].hit THEN s.attempted + 1 ELSE 0,
                               attempted |-> s.attempted + 1,
                               charged |-> Plus[<<s.charged, Cost[a]>>]],
           [hit |-> 0, attempted |-> 0, charged |-> 0],
           SubSeq(order, 1, Min({K, Len(order)})))

Replay(c) ==
  /\ Goto(c, "replay", "digest")
  /\ DatasetOK /\ Complete(held[c])
  /\ UNCHANGED <<files, held, sha, disturbed, opened>>

Digest(c) ==
  /\ Goto(c, "digest", "write")
  /\ sha' = [sha EXCEPT ![c] = ranking]
  /\ UNCHANGED <<files, held, disturbed, opened>>

Write(c) ==
  /\ Goto(c, "write", "gone")
  /\ output = NoOutput
  /\ output' = [state |-> "whole", by |-> c, sha |-> sha[c], result |-> Replayed(outcome, held[c])]
  /\ UNCHANGED <<outcome, ranking, frozen, ledger, held, sha, disturbed, opened>>

\* A check fails, something raises, or the process is killed; what it was
\* writing may be torn.
Ends(c) ==
  /\ at[c] # "gone"
  /\ at' = [at EXCEPT ![c] = "gone"]
  /\ ledger' \in {ledger} \cup
       (IF (at[c] = "receipt" /\ ledger = <<>>) \/ at[c] = "record"
          THEN {Append(ledger, "TORN")} ELSE {})
  /\ output' \in {output} \cup
       (IF at[c] = "write" /\ output = NoOutput THEN {[state |-> "torn"]} ELSE {})
  /\ UNCHANGED <<outcome, ranking, frozen, held, sha, disturbed, opened>>

Call(c) == \/ Start(c) \/ Validate(c) \/ Read(c) \/ Receipt(c) \/ Open(c) \/ Record(c)
           \/ Replay(c) \/ Digest(c) \/ Write(c) \/ Ends(c)

-----------------------------------------------------------------------------
\* The ranking is generated again.
Rerank ==
  /\ ranking' \in Rankings \ {ranking}
  /\ disturbed' = disturbed \cup {c \in Caller : at[c] \notin {"start", "gone"}}
  /\ UNCHANGED <<outcome, frozen, ledger, output, at, held, sha, opened>>

Next == Rerank \/ \E c \in Caller : Call(c)

Spec == Init /\ [][Next]_vars

-----------------------------------------------------------------------------
\* The outcomes are opened by one call at most, of all that ever run with the
\* same ledger, and the ledger shows before it that the ranking was frozen:
\* an opening that was interrupted is never made a second time.
OpenedOnce ==
  /\ Cardinality(opened) <= 1
  /\ opened # {} => ledger # <<>> /\ ledger[1] = "PREOUTCOME_RECEIPT_VERIFIED"

Final(a) == IF outcome[a].success THEN "SUCCESS" ELSE "FAILED"

\* What aggregate_charges() accepts for an action that ended as measured -
\* stages in order, no gap in the retries, none after a success, none after a
\* failed stage - is exactly what a serial executor can leave: no attempt is
\* missing from a charge, and none that can have been made is refused.
AcceptedIsSerial == \A a \in Action, scheme \in Schemes :
  AcceptedRows[scheme][Final(a)] = SerialRows[scheme][Final(a)]

Published == output.state = "whole"

\* The sum of the costs of some actions, one after the other.
RunningSum(order) == FoldLeft(LAMBDA sum, a : Plus[<<sum, Cost[a]>>], 0, order)

\* A result that was not disturbed names the frozen ranking, and both events of
\* its call are on record; it stops at the first action of that ranking within
\* one percent of the oracle by the rule in floats, and charges every action up
\* to it once.  Where both label rules agree, it stops where replay_prefix()
\* does, and its charge is the same, up to the second action at least.
ResultIsOfTheFreeze == Published /\ output.by \notin disturbed =>
  LET stop == Prefix(FloatPositives(outcome), frozen, K)
      other == PrefixReplay(outcome, Cost, frozen, K)
  IN /\ output.sha = frozen
     /\ output.result = [hit |-> stop.hit, attempted |-> stop.attempted,
                         charged |-> RunningSum(SubSeq(frozen, 1, stop.attempted))]
     /\ ledger = <<"PREOUTCOME_RECEIPT_VERIFIED", "OUTCOMES_OPENED_AFTER_FREEZE">>
     /\ FloatPositives(outcome) = Positives(outcome) =>
          /\ output.result.hit = other.hit
          /\ output.result.attempted = other.attempted
          /\ other.attempted <= 2 => output.result = other
=============================================================================
