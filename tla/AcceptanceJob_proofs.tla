-------------------------- MODULE AcceptanceJob_proofs --------------------------
(***************************************************************************)
(* The acceptance job, for every number of helpers, invocations and cases. *)
(*                                                                         *)
(* A call to the scheduler belongs to the helper that made its intent, the *)
(* package to the worker that made worker_start: the exclusive creation    *)
(* makes either of them the only one.  What a record or a file was made    *)
(* after is still true when it is relied on.                               *)
(***************************************************************************)
EXTENDS AcceptanceJob, TLAPS

IntentOf == [bkill |-> "cancellation_intent", bsub |-> "registration_intent",
             bresume |-> "resume_intent"]
Length == [idle |-> 1, retire |-> 9, confirm |-> 4, register |-> 5, resume |-> 11]
Place == [op : DOMAIN Script, step : 1 .. 11, saw : {"unknown", "active", "terminal"},
          fresh : BOOLEAN]

Typed ==
  /\ helper \in [Helper -> Place]
  /\ \A h \in Helper : helper[h].step <= Length[helper[h].op]
  /\ old \in {"active", "terminal"}
  /\ job \in {"none", "held", "pending", "running", "ended"}
  /\ calls \in [Client -> {0, 1}]
  /\ named \in BOOLEAN
  /\ work \in 0 .. 8

At(p, op, steps) == p.op = op /\ p.step \in steps

\* The place of a helper that made the intent of a call and may still make it.
Holds(p, c) == \/ c = "bkill" /\ At(p, "retire", {6})
               \/ c = "bsub" /\ At(p, "register", {4})
               \/ c = "bresume" /\ At(p, "resume", 7 .. 10)

Owned == \A c \in Client :
  /\ calls[c] = 1 => IntentOf[c] \in stable
  /\ \A h \in Helper : Holds(helper[h], c) => IntentOf[c] \in stable /\ calls[c] = 0
  /\ \A g, h \in Helper : Holds(helper[g], c) /\ Holds(helper[h], c) => g = h

\* What a helper has read and relies on at its place is so.
Trusted(p) ==
  /\ p.saw = "terminal" \/ At(p, "register", 2 .. 5) => old = "terminal"
  /\ At(p, "resume", 3 .. 11) => named
  /\ At(p, "resume", 7 .. 10) /\ p.fresh => issued = "fresh"
  /\ At(p, "resume", 9 .. 10) => "permit" \in stable
  /\ At(p, "resume", {10}) => issued = "fresh"
Relied == \A h \in Helper : Trusted(helper[h])

\* What was done in the world is on record.
Recorded ==
  /\ Exists("proof") \/ calls["bsub"] = 1 => old = "terminal"
  /\ calls["bresume"] = 1 => "permit" \in stable /\ issued = "fresh"
  /\ job # "none" \/ named => calls["bsub"] = 1
  /\ job \notin {"none", "held"} => named /\ calls["bresume"] = 1
  /\ work > 0 => job = "running"

-----------------------------------------------------------------------------
\* The tool was not started on a case; nothing of the package has been done.
Unused(i) == tool[i].leader = "none" /\ ~tool[i].stray
Pristine == journal = {} /\ \A i \in Case : Unused(i)

\* A case of which nothing is left to do.
Settled(i) ==
  /\ Gone(i)
  /\ Kept("PREFLIGHT", i) /\ Kept("LAUNCHED", i)
  /\ [kind |-> "TERMINAL", ordinal |-> i, status |-> "PASS"] \in journal

NotYet == {"idle", "HEADER"}
Over == {"STOP", "returned", "stopped"}
BeforeLaunch == {"MATERIALIZED", "INTENT", "domain", "PREFLIGHT", "popen"}
InCase == BeforeLaunch \cup {"LAUNCHED", "capture", "cleanup", "TERMINAL", "verdict", "CLOSE"}

PackageTyped ==
  /\ tool \in [Case -> [leader : {"none", "live", "zero", "bad", "reaped"}, stray : BOOLEAN]]
  /\ point \in NotYet \cup InCase \cup Over
  /\ ordinal \in 0 .. Cases
  /\ preflighted \in BOOLEAN /\ launched \in BOOLEAN

\* Only the worker that made worker_start comes to the package.
Claimed ==
  /\ work <= 7 <=> point = "idle"
  /\ work \in 3 .. 7 \/ point = "HEADER" \/ "worker_start" \notin stable => Pristine
  /\ work >= 3 \/ ~Pristine => {"permit", "worker_start"} \subseteq stable
  /\ work >= 7 \/ ~Pristine => "bundle" \in stable

\* The case under way: those before it are settled, nothing was started after it.
CaseInTurn == point \in InCase =>
  /\ ordinal \in Case
  /\ \A k \in 1 .. ordinal - 1 : Settled(k)
  /\ \A k \in Case : k > ordinal \/ (k = ordinal /\ point \in BeforeLaunch) => Unused(k)

\* What is known of it by its point.
CaseOnRecord ==
  /\ point \in InCase \ {"MATERIALIZED"} => /\ preflighted => Kept("PREFLIGHT", ordinal)
                                            /\ launched => Kept("LAUNCHED", ordinal)
  /\ point = "popen" => preflighted
  /\ point \in {"TERMINAL", "verdict"} /\ receipt = "PASS" => Gone(ordinal)
  /\ point = "verdict" => [kind |-> "TERMINAL", ordinal |-> ordinal, status |-> receipt] \in journal
  /\ point = "CLOSE" => ordinal = Cases /\ Settled(ordinal) /\ receipt = "PASS"

\* A tool that was started was admitted, and the journal is closed only behind
\* the last case, which passed: of that case is the STOP an interrupt may still
\* append.
Admitted == \A i \in Case : ~Unused(i) => Kept("PREFLIGHT", i) /\ \A k \in 1 .. i - 1 : Settled(k)
Ended(kind) == \E i \in 0 .. Cases : Kept(kind, i)
Stops == {r \in journal : r.kind = "STOP"}
OneEnd ==
  /\ point \in InCase \cup {"HEADER"} => ~Ended("CLOSE") /\ Stops = {}
  /\ point = "returned" \/ (point = "STOP" /\ Ended("CLOSE")) => ordinal = Cases /\ receipt = "PASS"
  /\ Ended("CLOSE") => /\ \A i \in Case : Settled(i)
                       /\ \A r \in Stops : r.ordinal = Cases /\ r.status = "PASS"

PackageInv == PackageTyped /\ Claimed /\ CaseInTurn /\ CaseOnRecord /\ Admitted /\ OneEnd
SchedulerInv == Typed /\ Owned /\ Relied /\ Recorded
IInv == SchedulerInv /\ PackageInv

-----------------------------------------------------------------------------
\* What a helper does at each step of its script.
LEMMA Doings ==
  ASSUME Typed, NEW h \in Helper
  PROVE  /\ helper[h].op = "idle" => Doing(h) = "rest"
         /\ helper[h].op = "retire" =>
              \/ At(helper[h], "retire", {1, 4}) /\ Doing(h) = "review"
              \/ At(helper[h], "retire", {2}) /\ Doing(h) = "query"
              \/ At(helper[h], "retire", {3}) /\ Doing(h) = "control"
              \/ At(helper[h], "retire", {5}) /\ Doing(h) = "cancellation_intent"
              \/ At(helper[h], "retire", {6}) /\ Doing(h) = "bkill"
              \/ At(helper[h], "retire", {7}) /\ Doing(h) = "after"
              \/ At(helper[h], "retire", {8}) /\ Doing(h) = "cancel_result"
              \/ At(helper[h], "retire", {9}) /\ Doing(h) = "proof"
         /\ helper[h].op = "confirm" =>
              \/ At(helper[h], "confirm", {1}) /\ Doing(h) = "retained"
              \/ At(helper[h], "confirm", {2}) /\ Doing(h) = "query"
              \/ At(helper[h], "confirm", {3}) /\ Doing(h) = "terminal_stdout"
              \/ At(helper[h], "confirm", {4}) /\ Doing(h) = "proof"
         /\ helper[h].op = "register" =>
              \/ At(helper[h], "register", {1}) /\ Doing(h) = "verify"
              \/ At(helper[h], "register", {2}) /\ Doing(h) = "registration"
              \/ At(helper[h], "register", {3}) /\ Doing(h) = "registration_intent"
              \/ At(helper[h], "register", {4}) /\ Doing(h) = "bsub"
              \/ At(helper[h], "register", {5}) /\ Doing(h) = "registration_result"
         /\ helper[h].op = "resume" =>
              \/ At(helper[h], "resume", {1, 4, 9}) /\ Doing(h) = "review"
              \/ At(helper[h], "resume", {2}) /\ Doing(h) = "evidence"
              \/ At(helper[h], "resume", {3}) /\ Doing(h) = "query"
              \/ At(helper[h], "resume", {5}) /\ Doing(h) = "resume"
              \/ At(helper[h], "resume", {6}) /\ Doing(h) = "resume_intent"
              \/ At(helper[h], "resume", {7}) /\ Doing(h) = "copies"
              \/ At(helper[h], "resume", {8}) /\ Doing(h) = "permit"
              \/ At(helper[h], "resume", {10}) /\ Doing(h) = "bresume"
              \/ At(helper[h], "resume", {11}) /\ Doing(h) = "resume_result"
<1> USE DEF Typed, Place, Length, Doing, At
<1>1. CASE helper[h].op = "idle"
  BY <1>1 DEF Script
<1>2. CASE helper[h].op = "retire"
  BY <1>2 DEF Script
<1>3. CASE helper[h].op = "confirm"
  BY <1>3 DEF Script
<1>4. CASE helper[h].op = "register"
  BY <1>4 DEF Script
<1>5. CASE helper[h].op = "resume"
  BY <1>5 DEF Script
<1> QED BY <1>1, <1>2, <1>3, <1>4, <1>5 DEF Script

LEMMA Ops == DOMAIN Script = {"idle", "retire", "confirm", "register", "resume"}
BY DEF Script

LEMMA Lengths == \A op \in DOMAIN Script : Length[op] = Len(Script[op]) /\ Length[op] \in 1 .. 11
<1> SUFFICES ASSUME NEW op \in DOMAIN Script
             PROVE  Length[op] = Len(Script[op]) /\ Length[op] \in 1 .. 11
  OBVIOUS
<1>1. CASE op = "idle"
  BY <1>1 DEF Script, Length
<1>2. CASE op = "retire"
  BY <1>2 DEF Script, Length
<1>3. CASE op = "confirm"
  BY <1>3 DEF Script, Length
<1>4. CASE op = "register"
  BY <1>4 DEF Script, Length
<1>5. CASE op = "resume"
  BY <1>5 DEF Script, Length
<1> QED BY <1>1, <1>2, <1>3, <1>4, <1>5, Ops

\* A helper comes from one place to another.
Moves(h, n) ==
  /\ helper' = [helper EXCEPT ![h] = n]
  /\ n \in Place /\ n.step <= Length[n.op]

LEMMA IdlePlace == Idle \in Place /\ Idle.step <= Length[Idle.op]
BY Ops DEF Idle, Place, Length

\* Advance leads to the next step, to the end, or past the bkill.
LEMMA Advances ==
  ASSUME Typed, NEW h \in Helper, helper[h].op # "idle", Advance(h)
  PROVE  \E n \in Place :
           /\ Moves(h, n)
           /\ \/ n = Idle /\ helper[h].step = Length[helper[h].op]
              \/ /\ n.op = helper[h].op /\ n.saw = helper[h].saw /\ n.fresh = helper[h].fresh
                 /\ helper[h].step < Length[helper[h].op]
                 /\ n.step = helper[h].step + 1 \/ (Skips(h) /\ n.step = 9)
<1> DEFINE p == helper[h]
           n == IF p.step = Length[p.op] THEN Idle ELSE [p EXCEPT !.step = NextStep(h)]
<1>1. p \in Place /\ p.step <= Length[p.op]
  BY DEF Typed
<1>2. helper' = [helper EXCEPT ![h] = n]
  BY <1>1, Lengths DEF Advance, Place
<1>3. Len(Script["retire"]) = 9
  BY Lengths, Ops DEF Length
<1>4. CASE p.step = Length[p.op]
  BY <1>1, <1>2, <1>4, IdlePlace DEF Moves
<1>5. CASE p.step # Length[p.op]
  <2>1. p.step < Length[p.op] /\ Length[p.op] \in 1 .. 11
    BY <1>1, <1>5, Lengths DEF Place
  <2>2. NextStep(h) = p.step + 1 \/ (Skips(h) /\ NextStep(h) = 9)
    BY <1>3 DEF NextStep
  <2>3. Skips(h) => p.op = "retire"
    BY DEF Skips
  <2>4. NextStep(h) \in 1 .. 11 /\ NextStep(h) <= Length[p.op]
    <3>1. CASE Skips(h) /\ NextStep(h) = 9
      BY <2>3, <3>1 DEF Length
    <3>2. CASE NextStep(h) = p.step + 1
      BY <1>1, <2>1, <3>2 DEF Place
    <3> QED BY <2>2, <3>1, <3>2
  <2>5. n \in Place /\ n.op = p.op /\ n.saw = p.saw /\ n.fresh = p.fresh /\ n.step = NextStep(h)
    BY <1>1, <1>5, <2>4 DEF Place
  <2> QED BY <1>2, <2>1, <2>2, <2>4, <2>5 DEF Moves
<1> QED BY <1>4, <1>5

\* A test that passes.
LEMMA PassesIs ==
  ASSUME NEW h \in Helper, Passes(h)
  PROVE  /\ Doing(h) = "review" => helper[h].fresh
         /\ Doing(h) = "verify" => Exists("proof")
         /\ Doing(h) = "evidence" => Evidenced
<1>1. Doing(h) = "review" => helper[h].fresh
  BY DEF Passes
<1>2. Doing(h) = "verify" => Exists("proof")
  BY DEF Passes
<1>3. Doing(h) = "evidence" => Evidenced
  BY DEF Passes
<1> QED BY <1>1, <1>2, <1>3

-----------------------------------------------------------------------------
\* A helper that comes to a place it can trust, and that holds no call there
\* that it did not hold before, changes nothing of the books.
LEMMA Moved ==
  ASSUME SchedulerInv, NEW h \in Helper, NEW n \in Place, Moves(h, n),
         UNCHANGED <<schedulerVars, issued, work>>,
         stable \subseteq stable', Exists("proof")' => old = "terminal",
         \A c \in Client : Holds(n, c) => Holds(helper[h], c),
         Trusted(n)'
  PROVE  SchedulerInv'
<1> USE DEF SchedulerInv, schedulerVars, Moves
<1>1. Typed'
  BY DEF Typed
<1>2. \A g \in Helper : helper'[g] = IF g = h THEN n ELSE helper[g]
  BY DEF Typed
<1>3. \A c \in Client, g \in Helper : Holds(helper'[g], c) => Holds(helper[g], c)
  BY <1>2
<1>4. \A c \in Client, g \in Helper : Holds(helper[g], c)' => Holds(helper[g], c)
  BY <1>3 DEF Holds, At
<1>5. Owned'
  BY <1>4 DEF Owned
<1>6. Relied'
  <2>1. \A g \in Helper : g # h => Trusted(helper[g])'
    BY <1>2 DEF Relied, Trusted, At
  <2> QED BY <1>2, <2>1 DEF Relied, Trusted, At
<1>7. Recorded'
  BY DEF Recorded
<1> QED BY <1>1, <1>5, <1>6, <1>7

\* A script begins where it trusts nothing.
LEMMA InvokeKeeps == ASSUME SchedulerInv, NEW h \in Helper, Invoke(h) PROVE SchedulerInv'
<1>1. PICK op \in Op : helper' = [helper EXCEPT ![h] = [Idle EXCEPT !.op = op, !.fresh = TRUE]]
  BY DEF Invoke
<1> DEFINE n == [Idle EXCEPT !.op = op, !.fresh = TRUE]
<1>2. n \in Place /\ n.step = 1 /\ n.saw = "unknown" /\ n.op = op /\ n.step <= Length[n.op]
  <2>1. op \in DOMAIN Script /\ Length[op] \in 1 .. 11
    BY Lengths DEF Op
  <2>2. n.step = 1 /\ n.saw = "unknown" /\ n.op = op
    BY DEF Idle
  <2>3. n \in Place
    BY <2>1, IdlePlace DEF Place
  <2> QED BY <2>1, <2>2, <2>3
<1>3. Moves(h, n)
  BY <1>1, <1>2 DEF Moves
<1>4. Trusted(n)' /\ \A c \in Client : ~Holds(n, c)
  BY <1>2 DEF Trusted, Holds, At
<1>5. Exists("proof")' => old = "terminal"
  BY DEF Invoke, SchedulerInv, Recorded, Exists
<1> HIDE DEF n
<1> QED BY <1>2, <1>3, <1>4, <1>5, Moved DEF Invoke

\* A test that passes says what the next steps rely on.
LEMMA TestedKeeps == ASSUME SchedulerInv, NEW h \in Helper, Tested(h) PROVE SchedulerInv'
<1> USE DEF SchedulerInv
<1>1. helper[h].op # "idle" /\ Doing(h) \in {"review", "retained", "verify", "evidence"}
  BY Doings DEF Tested, Test
<1>2. PICK n \in Place :
        /\ Moves(h, n)
        /\ \/ n = Idle /\ helper[h].step = Length[helper[h].op]
           \/ /\ n.op = helper[h].op /\ n.saw = helper[h].saw /\ n.fresh = helper[h].fresh
              /\ helper[h].step < Length[helper[h].op]
              /\ n.step = helper[h].step + 1 \/ (Skips(h) /\ n.step = 9)
  BY <1>1, Advances DEF Tested
<1>3. ~Skips(h)
  BY <1>1 DEF Skips
<1>4. helper[h] \in Place /\ Trusted(helper[h])
  BY DEF Typed, Relied
<1>5. Exists("proof")' => old = "terminal"
  BY DEF Tested, Recorded, Exists
<1>6. CASE n = Idle
  <2>1. Trusted(n)' /\ \A c \in Client : ~Holds(n, c)
    BY <1>6 DEF Trusted, Holds, At, Idle
  <2> QED BY <1>2, <1>5, <2>1, Moved DEF Tested
<1>7. CASE n # Idle
  <2>1. n.op = helper[h].op /\ n.step = helper[h].step + 1 /\ n.saw = helper[h].saw
        /\ n.fresh = helper[h].fresh
    BY <1>2, <1>3, <1>7
  <2>2. \A c \in Client : Holds(n, c) => Holds(helper[h], c)
    BY <1>1, <1>4, <2>1, Doings DEF Holds, At, Place
  <2>3. At(n, "register", 2 .. 5) => old = "terminal"
    BY <1>1, <1>4, <2>1, Doings, PassesIs DEF At, Place, Tested, Recorded, Trusted
  <2>4. helper[h].op = "resume" =>
          \/ helper[h].step \in {1, 4, 9} /\ Doing(h) = "review"
          \/ helper[h].step = 2 /\ Doing(h) = "evidence"
    BY <1>1, Doings DEF At
  <2>5. At(n, "resume", 3 .. 11) => named
    BY <1>4, <2>1, <2>4, PassesIs DEF At, Tested, Evidenced, Trusted
  <2>6. At(n, "resume", {10}) => issued = "fresh"
    BY <1>4, <2>1, <2>4, PassesIs DEF At, Tested, Trusted
  <2>7. At(n, "resume", 7 .. 10) => At(helper[h], "resume", {9})
    BY <1>4, <2>1, <2>4 DEF At
  <2>8. Trusted(n)'
    BY <1>4, <2>1, <2>3, <2>5, <2>6, <2>7 DEF Trusted, At, Tested, schedulerVars
  <2> QED BY <1>2, <1>5, <2>2, <2>8, Moved DEF Tested
<1> QED BY <1>6, <1>7

\* A query tells what the scheduler says; that a job has ended stays so.
LEMMA QueriedKeeps == ASSUME SchedulerInv, NEW h \in Helper, Queried(h) PROVE SchedulerInv'
<1> USE DEF SchedulerInv
<1>1. /\ helper[h] \in Place /\ Trusted(helper[h])
      /\ \/ At(helper[h], "retire", {2, 7})
         \/ At(helper[h], "confirm", {2})
         \/ At(helper[h], "resume", {3})
  <2>1. helper[h] \in Place /\ Trusted(helper[h])
    BY DEF Typed, Relied
  <2>2. Doing(h) \in {"query", "after"}
    BY DEF Queried, Query
  <2>3. helper[h].op \in {"idle", "retire", "confirm", "register", "resume"}
    BY <2>1, Ops DEF Place
  <2> QED BY <2>1, <2>2, <2>3, Doings DEF At
<1>2. PICK saw \in {old, "unknown"} :
        helper' = [helper EXCEPT ![h].step = @ + 1, ![h].saw = saw]
  BY DEF Queried
<1>3. PICK n \in Place :
        /\ helper' = [helper EXCEPT ![h] = n]
        /\ n.op = helper[h].op /\ n.step = helper[h].step + 1 /\ n.saw = saw
  <2> DEFINE m == [helper[h] EXCEPT !.step = @ + 1, !.saw = saw]
  <2>1. helper[h].step + 1 \in 1 .. 11 /\ saw \in {"unknown", "active", "terminal"}
    BY <1>1, <1>2 DEF At, Typed
  <2>2. m.op = helper[h].op /\ m.step = helper[h].step + 1 /\ m.saw = saw
    BY <1>1 DEF Place
  <2>3. m \in Place
    BY <1>1, <2>1 DEF Place
  <2>4. helper' = [helper EXCEPT ![h] = m]
    BY <1>2
  <2> QED BY <2>2, <2>3, <2>4
<1>4. n.step <= Length[n.op]
  BY <1>1, <1>3 DEF At, Length
<1>5. Moves(h, n)
  BY <1>3, <1>4 DEF Moves
<1>6. \A c \in Client : ~Holds(n, c) \/ Holds(helper[h], c)
  BY <1>1, <1>3 DEF Holds, At, Place
<1>7. Trusted(n)'
  <2>1. n.saw = "terminal" => old = "terminal"
    BY <1>2, <1>3
  <2>2. ~At(n, "register", 2 .. 5) /\ ~At(n, "resume", 7 .. 10)
    BY <1>1, <1>3 DEF At, Place
  <2>3. ~At(n, "resume", 9 .. 10) /\ ~At(n, "resume", {10})
    BY <1>1, <1>3 DEF At, Place
  <2>4. At(n, "resume", 3 .. 11) => named
    BY <1>1, <1>3 DEF At, Place, Trusted
  <2> QED BY <2>1, <2>2, <2>3, <2>4 DEF Trusted, At, Queried, schedulerVars
<1>8. Exists("proof")' => old = "terminal"
  BY DEF Queried, Recorded, Exists
<1> QED BY <1>3, <1>5, <1>6, <1>7, <1>8, Moved DEF Queried

\* An end, of whatever kind, trusts nothing; the file it left may be a proof
\* only when the old job has ended.
LEMMA QuitsKeeps == ASSUME SchedulerInv, NEW h \in Helper, Quits(h) PROVE SchedulerInv'
<1> USE DEF SchedulerInv
<1>1. Moves(h, Idle)
  BY IdlePlace DEF Quits, Moves
<1>2. Trusted(Idle)' /\ \A c \in Client : ~Holds(Idle, c)
  BY DEF Trusted, Holds, At, Idle
<1>3. stable \subseteq stable' /\ UNCHANGED <<schedulerVars, issued, work>>
  BY DEF Quits, Breaks, Create
<1>4. Exists("proof")' => old = "terminal"
  <2>1. CASE Publishes(h) /\ Confirmed(h) /\ Doing(h) = "proof"
    BY <2>1 DEF Confirmed, Relied, Trusted
  <2>2. CASE ~(Publishes(h) /\ Confirmed(h) /\ Doing(h) = "proof")
    BY <2>2 DEF Quits, Breaks, Create, Exists, Recorded
  <2> QED BY <2>1, <2>2
<1> QED BY <1>1, <1>2, <1>3, <1>4, IdlePlace, Moved

\* The step after a publication: the next one, or the end of the script.
LEMMA PublishedMoves ==
  ASSUME SchedulerInv, NEW h \in Helper, Published(h)
  PROVE  \E n \in Place :
           /\ Moves(h, n)
           /\ \/ n = Idle
              \/ /\ n.op = helper[h].op /\ n.saw = helper[h].saw
                 /\ n.step = helper[h].step + 1 \/ At(n, "retire", {9})
                 /\ n.fresh = helper[h].fresh \/ Doing(h) = "resume_intent"
           /\ Doing(h) = "resume_intent" /\ n.fresh => issued' = "fresh"
           /\ Doing(h) # "resume_intent" => UNCHANGED issued
<1>1. helper[h] \in Place /\ helper[h].op # "idle"
  BY DEF SchedulerInv, Typed, Published, Publishes
<1>2. CASE Doing(h) = "resume_intent"
  <2>1. PICK fresh \in BOOLEAN :
          /\ issued' = IF fresh THEN "fresh" ELSE "stale"
          /\ helper' = [helper EXCEPT ![h].step = @ + 1, ![h].fresh = fresh]
    BY <1>2 DEF Published
  <2> DEFINE n == [helper[h] EXCEPT !.step = @ + 1, !.fresh = fresh]
  <2>2. At(helper[h], "resume", {6})
    <3>1. helper[h].op \in {"idle", "retire", "confirm", "register", "resume"}
      BY <1>1, Ops DEF Place
    <3> QED BY <1>2, <3>1, Doings DEF SchedulerInv, At
  <2>3. n.op = helper[h].op /\ n.step = 7 /\ n.saw = helper[h].saw /\ n.fresh = fresh
    BY <1>1, <2>2 DEF Place, At
  <2>4. n \in Place
    <3>1. helper[h].step + 1 \in 1 .. 11
      BY <2>2 DEF At
    <3> QED BY <1>1, <3>1 DEF Place
  <2>5. Length["resume"] = 11
    BY DEF Length
  <2>6. Moves(h, n)
    <3>1. helper' = [helper EXCEPT ![h] = n]
      BY <2>1
    <3> QED BY <2>2, <2>3, <2>4, <2>5, <3>1 DEF Moves, At
  <2> HIDE DEF n
  <2> QED BY <1>2, <2>1, <2>2, <2>3, <2>4, <2>6 DEF At
<1>3. CASE Doing(h) # "resume_intent"
  <2>1. Advance(h) /\ UNCHANGED issued
    BY <1>3 DEF Published
  <2>2. PICK n \in Place :
          /\ Moves(h, n)
          /\ \/ n = Idle /\ helper[h].step = Length[helper[h].op]
             \/ /\ n.op = helper[h].op /\ n.saw = helper[h].saw /\ n.fresh = helper[h].fresh
                /\ helper[h].step < Length[helper[h].op]
                /\ n.step = helper[h].step + 1 \/ (Skips(h) /\ n.step = 9)
    BY <1>1, <2>1, Advances DEF SchedulerInv
  <2> QED BY <1>3, <2>1, <2>2 DEF Skips, At
<1> QED BY <1>2, <1>3

\* Where a helper publishes what.
LEMMA Publications ==
  ASSUME SchedulerInv, NEW h \in Helper, Publishes(h)
  PROVE  /\ Doing(h) = "cancellation_intent" <=> At(helper[h], "retire", {5})
         /\ Doing(h) = "registration_intent" <=> At(helper[h], "register", {3})
         /\ Doing(h) = "resume_intent" <=> At(helper[h], "resume", {6})
         /\ Doing(h) = "permit" <=> At(helper[h], "resume", {8})
         /\ \/ At(helper[h], "retire", {3, 5, 8, 9})
            \/ At(helper[h], "confirm", {3, 4})
            \/ At(helper[h], "register", {2, 3, 5})
            \/ At(helper[h], "resume", {5, 6, 7, 8, 11})
<1>1. helper[h].op \in {"retire", "confirm", "register", "resume"}
  BY Ops DEF SchedulerInv, Typed, Publishes, Place
<1>2. Doing(h) \notin {"bkill", "bsub", "bresume", "review", "retained", "verify", "evidence",
                       "query", "after"}
  BY DEF Publishes, Client, Test, Query
<1>3. Typed
  BY DEF SchedulerInv
<1>4. CASE helper[h].op = "retire"
  BY <1>2, <1>3, <1>4, Doings DEF At
<1>5. CASE helper[h].op = "confirm"
  BY <1>2, <1>3, <1>5, Doings DEF At
<1>6. CASE helper[h].op = "register"
  BY <1>2, <1>3, <1>6, Doings DEF At
<1>7. CASE helper[h].op = "resume"
  BY <1>2, <1>3, <1>7, Doings DEF At
<1> QED BY <1>1, <1>4, <1>5, <1>6, <1>7

\* An intent gives its call to the one that made it; any other file gives
\* nothing, and a proof is made by one that knows the old job to be gone.
LEMMA PublishedKeeps == ASSUME SchedulerInv, NEW h \in Helper, Published(h) PROVE SchedulerInv'
<1> USE DEF SchedulerInv
<1>1. PICK n \in Place :
        /\ Moves(h, n)
        /\ \/ n = Idle
           \/ /\ n.op = helper[h].op /\ n.saw = helper[h].saw
              /\ n.step = helper[h].step + 1 \/ At(n, "retire", {9})
              /\ n.fresh = helper[h].fresh \/ Doing(h) = "resume_intent"
        /\ Doing(h) = "resume_intent" /\ n.fresh => issued' = "fresh"
        /\ Doing(h) # "resume_intent" => UNCHANGED issued
  BY PublishedMoves
<1>2. Publishes(h) /\ Confirmed(h) /\ helper[h] \in Place /\ UNCHANGED <<schedulerVars, work>>
  BY DEF Published, Typed
<1>3. Doing(h) \notin stable /\ stable' = stable \cup {Doing(h)} /\ UNCHANGED torn
  BY DEF Published, Create, Exists
<1>4. Exists("proof")' => old = "terminal"
  <2>1. CASE Doing(h) = "proof"
    BY <1>2, <2>1 DEF Confirmed, Relied, Trusted
  <2>2. CASE Doing(h) # "proof"
    BY <1>3, <2>2 DEF Exists, Recorded
  <2> QED BY <2>1, <2>2
<1>5. Trusted(n)'
  <2>1. CASE n = Idle
    BY <2>1 DEF Trusted, At, Idle
  <2>2. CASE n # Idle
    <3>1. n.op = helper[h].op /\ n.saw = helper[h].saw /\ Trusted(helper[h])
      BY <1>1, <2>2 DEF Relied
    <3>2. n.saw = "terminal" \/ At(n, "register", 2 .. 5) => old' = "terminal"
      BY <1>1, <1>2, <2>2, <3>1, Publications DEF Trusted, At, schedulerVars
    <3>0. ASSUME n.op = "resume"
          PROVE  /\ helper[h].op = "resume" /\ helper[h].step \in {5, 6, 7, 8, 11}
                 /\ n.step = helper[h].step + 1
                 /\ n.fresh = helper[h].fresh \/ helper[h].step = 6
                 /\ Doing(h) = "resume_intent" <=> helper[h].step = 6
                 /\ Doing(h) = "permit" <=> helper[h].step = 8
      BY <1>1, <1>2, <2>2, <3>0, Publications DEF At
    <3>3. At(n, "resume", 3 .. 11) => named'
      BY <1>2, <3>0, <3>1 DEF Trusted, At, schedulerVars
    <3>4. At(n, "resume", 7 .. 10) /\ n.fresh => issued' = "fresh"
      <4>1. CASE helper[h].step = 6
        BY <1>1, <3>0, <4>1 DEF At
      <4>2. CASE helper[h].step # 6
        <5>1. SUFFICES ASSUME At(n, "resume", 7 .. 10), n.fresh PROVE issued' = "fresh"
          OBVIOUS
        <5>2. Doing(h) # "resume_intent" /\ helper[h].fresh /\ At(helper[h], "resume", 7 .. 10)
          <6>1. n.op = "resume" /\ n.step \in 7 .. 10
            BY <5>1 DEF At
          <6>2. Doing(h) # "resume_intent" /\ At(helper[h], "resume", 7 .. 10)
            BY <3>0, <4>2, <6>1 DEF At
          <6>3. n.fresh = helper[h].fresh
            BY <3>0, <4>2, <6>1
          <6> QED BY <5>1, <6>2, <6>3
        <5>3. issued = "fresh"
          BY <3>1, <5>1, <5>2 DEF Trusted
        <5> QED BY <1>1, <5>2, <5>3
      <4> QED BY <4>1, <4>2
    <3>5. At(n, "resume", 9 .. 10) => "permit" \in stable'
      BY <1>3, <3>0, <3>1 DEF Trusted, At
    <3>6. ~At(n, "resume", {10})
      BY <1>1, <1>2, <2>2, <3>1, Publications DEF At
    <3> QED BY <3>2, <3>3, <3>4, <3>5, <3>6 DEF Trusted, At
  <2> QED BY <2>1, <2>2
<1>6. CASE \A c \in Client : Doing(h) # IntentOf[c]
  <2>1. Doing(h) \notin {"cancellation_intent", "registration_intent", "resume_intent"}
    <3>1. Doing(h) # IntentOf["bkill"] /\ Doing(h) # IntentOf["bsub"] /\ Doing(h) # IntentOf["bresume"]
      <4>1. "bkill" \in Client /\ "bsub" \in Client /\ "bresume" \in Client
        BY DEF Client
      <4> QED BY <1>6, <4>1, Zenon
    <3> QED BY <3>1 DEF IntentOf
  <2>2. \A c \in Client : Holds(n, c) => Holds(helper[h], c)
    BY <1>1, <1>2, <2>1, Publications DEF Holds, At, Idle
  <2> QED BY <1>1, <1>2, <1>3, <1>4, <1>5, <2>1, <2>2, Moved
<1>7. ASSUME NEW c \in Client, Doing(h) = IntentOf[c] PROVE SchedulerInv'
  <2>1. \A d \in Client : d # c => IntentOf[d] # IntentOf[c]
    BY DEF IntentOf, Client
  <2>2. calls[c] = 0 /\ \A g \in Helper : ~Holds(helper[g], c)
    BY <1>3, <1>7 DEF Owned, Typed
  <2>3. \A d \in Client : Holds(n, d) => d = c
    BY <1>1, <1>2, <1>7, Publications DEF Holds, At, Idle, IntentOf, Client
  <2>4. \A g \in Helper : helper'[g] = IF g = h THEN n ELSE helper[g]
    BY <1>1 DEF Moves, Typed
  <2>5. Typed'
    BY <1>1, <1>2 DEF Moves, Typed, schedulerVars
  <2>6. Owned'
    <3>1. \A g \in Helper, d \in Client : Holds(helper'[g], d) =>
             (g = h /\ d = c) \/ (g # h /\ d # c /\ Holds(helper[g], d))
      BY <2>2, <2>3, <2>4
    <3>2. \A g \in Helper, d \in Client : Holds(helper[g], d)' = Holds(helper'[g], d)
      BY DEF Holds, At
    <3>3. IntentOf[c] \in stable'
      BY <1>3, <1>7
    <3> QED BY <1>2, <1>3, <2>2, <3>1, <3>2, <3>3 DEF Owned, schedulerVars
  <2>7. c = "bresume" \/ UNCHANGED issued
    BY <1>1, <1>7 DEF IntentOf, Client
  <2>8. Relied'
    <3>1. ASSUME NEW g \in Helper, g # h PROVE Trusted(helper[g])'
      <4>1. helper'[g] = helper[g] /\ Trusted(helper[g])
        BY <2>4, <3>1 DEF Relied
      <4>2. UNCHANGED issued \/ ~At(helper[g], "resume", 7 .. 10)
        BY <2>2, <2>7 DEF Holds
      <4>3. At(helper[g], "resume", 9 .. 10) \/ At(helper[g], "resume", {10}) =>
              At(helper[g], "resume", 7 .. 10)
        BY DEF At
      <4> QED BY <1>2, <1>3, <4>1, <4>2, <4>3 DEF Trusted, At, schedulerVars
    <3>2. Trusted(helper[h])'
      BY <1>5, <2>4 DEF Trusted, At
    <3> QED BY <3>1, <3>2 DEF Relied
  <2>9. Recorded'
    BY <1>2, <1>3, <1>4, <2>2, <2>7 DEF Recorded, schedulerVars
  <2> QED BY <2>5, <2>6, <2>8, <2>9
<1> QED BY <1>6, <1>7

\* Where a helper calls what.
LEMMA Callers ==
  ASSUME SchedulerInv, NEW h \in Helper, Doing(h) \in Client
  PROVE  \/ Doing(h) = "bkill" /\ At(helper[h], "retire", {6})
         \/ Doing(h) = "bsub" /\ At(helper[h], "register", {4})
         \/ Doing(h) = "bresume" /\ At(helper[h], "resume", {10})
<1>1. helper[h].op \in {"idle", "retire", "confirm", "register", "resume"} /\ Typed
  BY Ops DEF SchedulerInv, Typed, Place
<1> QED BY <1>1, Doings DEF At, Client

\* A call is made by its holder, once, and leaves nobody to hold it.
LEMMA CalledKeeps == ASSUME SchedulerInv, NEW h \in Helper, Called(h) PROVE SchedulerInv'
<1> USE DEF SchedulerInv
<1> DEFINE c == Doing(h)
<1>1. PICK acts \in BOOLEAN, answers \in BOOLEAN :
        /\ answers => acts
        /\ old' = IF c = "bkill" /\ acts THEN "terminal" ELSE old
        /\ job' = IF acts /\ c = "bsub" THEN "held"
                  ELSE IF acts /\ c = "bresume" /\ job = "held" THEN "pending" ELSE job
        /\ named' = IF c = "bsub" THEN answers ELSE named
  BY DEF Called
<1>2. /\ c \in Client /\ calls' = [calls EXCEPT ![c] = @ + 1]
      /\ UNCHANGED <<torn, stable, issued, work>>
  BY DEF Called
<1>3. \/ c = "bkill" /\ At(helper[h], "retire", {6})
      \/ c = "bsub" /\ At(helper[h], "register", {4})
      \/ c = "bresume" /\ At(helper[h], "resume", {10})
  BY <1>2, Callers
<1>4. Holds(helper[h], c) /\ Trusted(helper[h])
  BY <1>3 DEF Holds, At, Relied
<1>5. PICK n \in Place :
        /\ Moves(h, n)
        /\ n.op = helper[h].op /\ n.saw = helper[h].saw /\ n.step = helper[h].step + 1
  <2>1. helper[h].op # "idle" /\ ~Skips(h) /\ Advance(h)
    BY <1>3 DEF At, Skips, Called
  <2>2. Length["retire"] = 9 /\ Length["register"] = 5 /\ Length["resume"] = 11
    BY DEF Length
  <2>3. helper[h].step # Length[helper[h].op]
    BY <1>3, <2>2 DEF At
  <2> QED BY <2>1, <2>3, Advances
<1>6. \A d \in Client : ~Holds(n, d)
  BY <1>3, <1>5 DEF Holds, At
<1>7. \A g \in Helper : helper'[g] = IF g = h THEN n ELSE helper[g]
  BY <1>5 DEF Moves, Typed
<1>8. calls[c] = 0 /\ \A d \in Client : calls'[d] = IF d = c THEN 1 ELSE calls[d]
  BY <1>2, <1>4 DEF Owned, Typed
<1>9. /\ c = "bsub" => ~named /\ job = "none"
      /\ c = "bresume" => job \in {"none", "held"} /\ named
  BY <1>2, <1>3, <1>4, <1>8 DEF Recorded, Trusted, At, Typed
<1> HIDE DEF c
<1>10. Typed'
  <2>1. calls' \in [Client -> {0, 1}]
    BY <1>2, <1>8 DEF Typed
  <2>2. job' \in {"none", "held", "pending", "running", "ended"} /\ old' \in {"active", "terminal"}
    BY <1>1 DEF Typed
  <2>3. named' \in BOOLEAN
    BY <1>1 DEF Typed
  <2>4. helper' \in [Helper -> Place] /\ \A g \in Helper : helper'[g].step <= Length[helper'[g].op]
    BY <1>5 DEF Moves, Typed
  <2> QED BY <1>2, <2>1, <2>2, <2>3, <2>4 DEF Typed
<1>11. Owned'
  <2>1. \A g \in Helper, d \in Client : Holds(helper[g], d)' => g # h /\ d # c /\ Holds(helper[g], d)
    <3>1. \A g \in Helper, d \in Client : Holds(helper[g], d)' = Holds(helper'[g], d)
      BY DEF Holds, At
    <3>2. \A g \in Helper : Holds(helper[g], c) => g = h
      BY <1>2, <1>4 DEF Owned
    <3> QED BY <1>6, <1>7, <3>1, <3>2
  <2>2. IntentOf[c] \in stable
    BY <1>2, <1>4 DEF Owned
  <2> QED BY <1>2, <1>8, <2>1, <2>2 DEF Owned
<1>12. (old = "terminal" => old' = "terminal") /\ (named => named')
  BY <1>1, <1>9
<1>13. Relied'
  <2>1. ASSUME NEW g \in Helper, g # h PROVE Trusted(helper[g])'
    BY <1>2, <1>7, <1>12, <2>1 DEF Relied, Trusted, At
  <2>2. Trusted(n)'
    <3>1. ~At(n, "resume", 7 .. 10) /\ ~At(n, "resume", 9 .. 10) /\ ~At(n, "resume", {10})
      BY <1>3, <1>5 DEF At
    <3>2. n.saw = "terminal" \/ At(n, "register", 2 .. 5) => old = "terminal"
      BY <1>3, <1>4, <1>5 DEF At, Trusted
    <3>3. At(n, "resume", 3 .. 11) => named
      BY <1>3, <1>4, <1>5 DEF At, Trusted
    <3> QED BY <1>12, <3>1, <3>2, <3>3 DEF Trusted, At
  <2>3. Trusted(helper[h])'
    BY <1>7, <2>2 DEF Trusted, At
  <2> QED BY <2>1, <2>3 DEF Relied
<1>14. Recorded'
  <2>1. calls'["bsub"] = 1 => old' = "terminal"
    BY <1>3, <1>4, <1>8, <1>12 DEF Recorded, Trusted, At, Client
  <2>2. calls'["bresume"] = 1 => "permit" \in stable /\ issued = "fresh"
    BY <1>3, <1>4, <1>8 DEF Recorded, Trusted, At, Client
  <2>3. job' # "none" \/ named' => calls'["bsub"] = 1
    BY <1>1, <1>3, <1>8, <1>9 DEF Recorded, Client
  <2>4. job' \notin {"none", "held"} => named' /\ calls'["bresume"] = 1
    BY <1>1, <1>3, <1>8, <1>9 DEF Recorded, Client
  <2>5. work > 0 => job' = "running"
    BY <1>1, <1>3, <1>8, <1>9 DEF Recorded, Client
  <2>6. Exists("proof")' => old' = "terminal"
    BY <1>2, <1>12 DEF Recorded, Exists
  <2> QED BY <1>2, <2>1, <2>2, <2>3, <2>4, <2>5, <2>6 DEF Recorded
<1> QED BY <1>10, <1>11, <1>13, <1>14

LEMMA HelperKeeps == ASSUME SchedulerInv, NEW h \in Helper, HelperStep(h) PROVE SchedulerInv'
BY InvokeKeeps, TestedKeeps, QueriedKeeps, PublishedKeeps, CalledKeeps, QuitsKeeps DEF HelperStep

\* Scheduler and worker leave the helpers and what they rely on alone.
LEMMA SchedulerKept ==
  ASSUME SchedulerInv, UNCHANGED <<calls, named, issued, helper>>,
         old' \in {old, "terminal"}, stable \subseteq stable',
         Exists("proof")' => Exists("proof"),
         job' = job \/ (job \notin {"none", "held"} /\ job' \in {"pending", "running", "ended"}),
         work' \in 0 .. 8, work' > 0 => job' = "running"
  PROVE  SchedulerInv'
<1> USE DEF SchedulerInv
<1>1. Typed'
  BY DEF Typed
<1>2. Owned'
  BY DEF Owned, Holds, At
<1>3. Relied'
  BY DEF Relied, Trusted, At
<1>4. Recorded'
  BY DEF Recorded
<1> QED BY <1>1, <1>2, <1>3, <1>4

LEMMA Works ==
  /\ Len(Work) = 7 /\ DOMAIN Work = 1 .. 7
  /\ Work[1] = "chain" /\ Work[2] = "worker_start" /\ Work[6] = "bundle"
  /\ \A i \in 1 .. 7 : Work[i] # "proof" /\ (Work[i] \in {"chain", "lease"} => i \in {1, 4})
BY DEF Work

\* The files of the worker, made or broken, are not those of the helpers.
LEMMA WorkFiles ==
  ASSUME NEW i \in DOMAIN Work, Breaks(Work[i]) \/ UNCHANGED <<torn, stable>>
  PROVE  stable \subseteq stable' /\ (Exists("proof")' => Exists("proof"))
BY Works DEF Breaks, Create, Exists

\* With the power the helpers and their processes go; nothing is trusted.
LEMMA PowerLostKeeps == ASSUME SchedulerInv, PowerLost PROVE SchedulerInv'
<1> USE DEF SchedulerInv
<1>1. \A h \in Helper : helper'[h] = Idle
  BY DEF PowerLost
<1>2. stable' = stable /\ (Exists("proof")' => Exists("proof"))
  BY DEF PowerLost, LosePower, Exists
<1>3. Typed'
  <2>1. job' \in {"none", "held", "pending", "running", "ended"}
    BY DEF PowerLost, Typed
  <2>2. helper' \in [Helper -> Place] /\ \A h \in Helper : helper'[h].step <= Length[helper'[h].op]
    BY <1>1, IdlePlace DEF PowerLost
  <2> QED BY <2>1, <2>2 DEF Typed, PowerLost
<1>4. \A h \in Helper, c \in Client : ~Holds(helper[h], c)'
  BY <1>1 DEF Holds, At, Idle
<1>5. Owned'
  BY <1>2, <1>4 DEF Owned, PowerLost
<1>6. Relied'
  BY <1>1 DEF Relied, Trusted, At, Idle
<1>7. Recorded'
  <2>1. job' # job => work > 0 /\ job' \notin {"none", "held"}
    BY DEF PowerLost
  <2> QED BY <1>2, <2>1 DEF Recorded, PowerLost
<1> QED BY <1>3, <1>5, <1>6, <1>7

LEMMA SchedulerStep == SchedulerInv /\ PackageInv /\ [Next]_vars => SchedulerInv'
<1> SUFFICES ASSUME SchedulerInv, PackageInv, [Next]_vars PROVE SchedulerInv'
  OBVIOUS
<1> USE DEF schedulerVars, helperVars
<1>0. work \in 0 .. 8 /\ (work > 0 => job = "running")
  BY DEF SchedulerInv, Typed, Recorded
<1>1. ASSUME NEW h \in Helper, HelperStep(h) PROVE SchedulerInv'
  BY <1>1, HelperKeeps
<1>2. CASE OldEnds
  BY <1>0, <1>2, SchedulerKept DEF OldEnds, Exists
<1>3. CASE Dispatch
  BY <1>3, SchedulerKept DEF Dispatch, Exists
<1>4. CASE Prepares
  <2>1. work \in DOMAIN Work /\ (Breaks(Work[work]) \/ UNCHANGED <<torn, stable>>)
    BY <1>4 DEF Prepares, Breaks
  <2>2. work' \in 0 .. 8 /\ work > 0
    BY <1>4, Works DEF Prepares
  <2> QED BY <1>0, <1>4, <2>1, <2>2, WorkFiles, SchedulerKept DEF Prepares
<1>5. CASE PreparesNot
  <2>1. work \in DOMAIN Work /\ (Breaks(Work[work]) \/ UNCHANGED <<torn, stable>>)
    BY <1>5 DEF PreparesNot
  <2>2. work > 0
    BY <2>1, Works
  <2> QED BY <1>0, <1>5, <2>1, <2>2, WorkFiles, SchedulerKept DEF PreparesNot, WorkerEnds
<1>6. CASE Packages \/ ToolStep
  BY <1>0, <1>6, SchedulerKept DEF Packages, ToolStep, Exists
<1>7. CASE PackageEnds
  BY <1>0, <1>7, Works, SchedulerKept DEF PackageEnds, WorkerEnds, Exists
<1>8. CASE PowerLost
  BY <1>8, PowerLostKeeps
<1>9. CASE UNCHANGED vars
  BY <1>0, <1>9, SchedulerKept DEF vars, Exists
<1> QED BY <1>1, <1>2, <1>3, <1>4, <1>5, <1>6, <1>7, <1>8, <1>9 DEF Next


-----------------------------------------------------------------------------
Places == NotYet \cup InCase \cup Over

\* What is settled stays so as long as nothing is started again.
LEMMA SettledStays ==
  ASSUME NEW i, Settled(i), journal \subseteq journal', Gone(i) => Gone(i)'
  PROVE  Settled(i)'
BY DEF Settled, Kept

\* Helpers and scheduler leave the package alone, and files are never taken away.
LEMMA PackageKept ==
  ASSUME PackageInv, UNCHANGED <<packageVars, work>>, stable \subseteq stable'
  PROVE  PackageInv'
<1> USE DEF PackageInv, packageVars
<1>1. PackageTyped'
  BY DEF PackageTyped, Case
<1>2. \A i : Settled(i)' = Settled(i) /\ Gone(i)' = Gone(i) /\ Unused(i)' = Unused(i)
  BY DEF Settled, Gone, Kept, Unused
<1>3. \A k, i : Kept(k, i)' = Kept(k, i)
  BY DEF Kept
<1>4. Pristine' = Pristine
  BY <1>2 DEF Pristine, Case
<1>5. Claimed'
  BY <1>4 DEF Claimed
<1>6. CaseInTurn'
  BY <1>2 DEF CaseInTurn, Case
<1>7. CaseOnRecord'
  BY <1>2, <1>3 DEF CaseOnRecord
<1>8. Admitted'
  BY <1>2, <1>3 DEF Admitted, Case
<1>9. OneEnd'
  BY <1>2, <1>3 DEF OneEnd, Ended, Stops, Case
<1> QED BY <1>1, <1>5, <1>6, <1>7, <1>8, <1>9

\* The worker goes.  What it left is what the package is left with.
LEMMA WorkerGone ==
  ASSUME PackageInv, Forget, work' = 0, stable \subseteq stable',
         tool' \in [Case -> [leader : {"none", "live", "zero", "bad", "reaped"}, stray : BOOLEAN]],
         \A i \in Case : (Unused(i)' <=> Unused(i)) /\ (Gone(i) => Gone(i)')
  PROVE  PackageInv'
<1> USE DEF PackageInv, Forget
<1>1. PackageTyped'
  <2>1. 0 \in 0 .. Cases
    BY CaseAssumption
  <2>2. point' \in NotYet /\ preflighted' \in BOOLEAN /\ launched' \in BOOLEAN
    BY DEF NotYet
  <2> QED BY <2>1, <2>2 DEF PackageTyped, Case
<1>2. \A i \in Case : Settled(i) => Settled(i)'
  BY SettledStays
<1>3. \A k, i : Kept(k, i)' = Kept(k, i)
  BY DEF Kept
<1>4. Pristine' = Pristine
  BY DEF Pristine, Case
<1>5. Claimed'
  BY <1>4 DEF Claimed
<1>6. CaseInTurn' /\ CaseOnRecord'
  BY DEF CaseInTurn, CaseOnRecord, InCase, BeforeLaunch
<1>7. Admitted'
  <2>1. \A i \in Case : \A k \in 1 .. i - 1 : k \in Case
    BY CaseAssumption DEF Case
  <2> QED BY <1>2, <1>3, <2>1 DEF Admitted, Case
<1>8. OneEnd'
  BY <1>2, <1>3 DEF OneEnd, Ended, Stops, Case, InCase, BeforeLaunch
<1> QED BY <1>1, <1>5, <1>6, <1>7, <1>8

\* Only a tool that was started and is not gone does anything.
LEMMA ToolStepKeeps == ASSUME PackageInv, ToolStep PROVE PackageInv'
<1> USE DEF PackageInv
<1>1. PICK i \in Case :
        \/ tool[i].leader = "live" /\ \E s \in {"zero", "bad"} :
             tool' = [tool EXCEPT ![i].leader = s]
        \/ tool[i].leader = "live" /\ ~tool[i].stray
             /\ tool' = [tool EXCEPT ![i].stray = TRUE]
        \/ tool[i].stray /\ tool' = [tool EXCEPT ![i].stray = FALSE]
  BY DEF ToolStep, ToolRuns
<1>2. UNCHANGED <<torn, stable, work, journal, tail, point, ordinal, preflighted, launched, receipt>>
  BY DEF ToolStep, ToolRuns
<1>3. ~Gone(i) /\ ~Unused(i)
  BY <1>1 DEF Gone, Unused
<1>4. /\ \A k \in Case : k # i => tool'[k] = tool[k]
      /\ tool'[i] \in [leader : {"none", "live", "zero", "bad", "reaped"}, stray : BOOLEAN]
  BY <1>1 DEF PackageTyped
<1>5. PackageTyped'
  BY <1>1, <1>2, <1>4 DEF PackageTyped, Case
<1>6. \A k \in Case : (Gone(k) => Gone(k)') /\ (Unused(k) => Unused(k)')
  BY <1>3, <1>4 DEF Gone, Unused
<1>7. \A k \in Case : Settled(k) => Settled(k)'
  BY <1>2, <1>6, SettledStays
<1>8. \A k, n : Kept(k, n)' = Kept(k, n)
  BY <1>2 DEF Kept
<1>9. ~Pristine
  BY <1>3 DEF Pristine
<1>10. Claimed'
  BY <1>2, <1>9 DEF Claimed
<1>11. CaseInTurn'
  <2>1. point \in InCase => \A k \in 1 .. ordinal - 1 : k \in Case
    BY CaseAssumption DEF CaseInTurn, Case
  <2> QED BY <1>2, <1>6, <1>7, <2>1 DEF CaseInTurn, Case
<1>12. CaseOnRecord'
  <2>1. point \in {"TERMINAL", "verdict", "CLOSE"} => ordinal \in Case
    BY DEF CaseInTurn, InCase
  <2> QED BY <1>2, <1>6, <1>7, <1>8, <2>1 DEF CaseOnRecord
<1>13. Admitted'
  <2>1. ASSUME NEW k \in Case PROVE ~Unused(k)' => ~Unused(k)
    BY <1>6
  <2>2. \A k \in Case : \A n \in 1 .. k - 1 : n \in Case
    BY CaseAssumption DEF Case
  <2> QED BY <1>7, <1>8, <2>1, <2>2 DEF Admitted, Case
<1>14. OneEnd'
  BY <1>2, <1>7, <1>8 DEF OneEnd, Ended, Stops, Case
<1> QED BY <1>5, <1>10, <1>11, <1>12, <1>13, <1>14

\* The worker comes to the package by way of the permit, worker_start and the
\* bundle; worker_start makes it the first that does.
LEMMA PreparesKeeps == ASSUME SchedulerInv, PackageInv, Prepares PROVE PackageInv'
<1> USE DEF PackageInv
<1>1. work \in 1 .. 7 /\ work' = work + 1 /\ point = "idle"
  BY Works DEF Prepares, Claimed
<1>2. UNCHANGED <<journal, tail, ordinal, preflighted, launched, receipt, tool>>
  BY DEF Prepares
<1>3. /\ stable \subseteq stable'
      /\ work \notin {1, 4} => stable' = stable \cup {Work[work]}
      /\ work \notin {1, 4} => Work[work] \notin stable
  <2>1. CASE Work[work] \in {"chain", "lease"}
    BY <1>1, <2>1, Works DEF Prepares
  <2>2. CASE Work[work] \notin {"chain", "lease"}
    BY <2>2 DEF Prepares, Create, Exists
  <2>3. work \notin {1, 4} => Work[work] \notin {"chain", "lease"}
    BY <1>1, Works
  <2> QED BY <2>1, <2>2, <2>3
<1>4. point' = IF work = 7 THEN "HEADER" ELSE "idle"
  BY <1>1, Works DEF Prepares
<1>5. \A i : Settled(i)' = Settled(i) /\ Gone(i)' = Gone(i) /\ Unused(i)' = Unused(i)
  BY <1>2 DEF Settled, Gone, Kept, Unused
<1>6. \A k, i : Kept(k, i)' = Kept(k, i)
  BY <1>2 DEF Kept
<1>7. Pristine' = Pristine
  BY <1>2, <1>5 DEF Pristine, Case
<1>8. PackageTyped'
  BY <1>2, <1>4 DEF PackageTyped, Case, NotYet
<1>9. work >= 2 => Pristine
  BY <1>1, <1>3, Works DEF Claimed
<1>10. "permit" \in stable
  BY <1>1 DEF SchedulerInv, Recorded
<1>11. Claimed'
  <2>1. work' <= 7 <=> point' = "idle"
    BY <1>1, <1>4
  <2>2. work' \in 3 .. 7 \/ point' = "HEADER" \/ "worker_start" \notin stable' => Pristine'
    BY <1>1, <1>3, <1>4, <1>7, <1>9 DEF Claimed
  <2>3. work' >= 3 \/ ~Pristine' => {"permit", "worker_start"} \subseteq stable'
    <3>1. CASE work = 2
      BY <1>3, <1>10, <3>1, Works
    <3>2. CASE work # 2
      BY <1>1, <1>3, <1>7, <3>2 DEF Claimed
    <3> QED BY <3>1, <3>2
  <2>4. work' >= 7 \/ ~Pristine' => "bundle" \in stable'
    <3>1. CASE work = 6
      BY <1>3, <3>1, Works
    <3>2. CASE work # 6
      BY <1>1, <1>3, <1>7, <3>2 DEF Claimed
    <3> QED BY <3>1, <3>2
  <2> QED BY <2>1, <2>2, <2>3, <2>4 DEF Claimed
<1>12. CaseInTurn' /\ CaseOnRecord'
  BY <1>4 DEF CaseInTurn, CaseOnRecord, InCase, BeforeLaunch
<1>13. Admitted'
  BY <1>5, <1>6 DEF Admitted, Case
<1>14. OneEnd'
  <2>1. \A kind : Ended(kind)' = Ended(kind)
    BY <1>6 DEF Ended
  <2>2. point' = "HEADER" => (\A kind : ~Ended(kind)) /\ Stops = {}
    BY <1>1, <1>4, <1>9 DEF Ended, Stops, Pristine, Kept
  <2>3. point' \notin InCase \cup Over /\ Stops' = Stops
    BY <1>2, <1>4 DEF InCase, BeforeLaunch, Over, Stops
  <2> QED BY <1>5, <2>1, <2>2, <2>3 DEF OneEnd, Case, Over
<1> QED BY <1>8, <1>11, <1>12, <1>13, <1>14

-----------------------------------------------------------------------------
\* The worker in the package; where it goes it is still in it.
LEMMA ClaimStays ==
  ASSUME PackageInv, work = 8, UNCHANGED <<stable, work>>, point' \in InCase \cup Over
  PROVE  Claimed'
<1>1. point' # "idle" /\ point' # "HEADER"
  BY DEF InCase, BeforeLaunch, Over
<1>2. {"permit", "worker_start", "bundle"} \subseteq stable
  BY DEF PackageInv, Claimed
<1> QED BY <1>1, <1>2 DEF Claimed

\* The steps that only take the worker from one point to another.
LEMMA Onward ==
  ASSUME PackageInv, work = 8,
         UNCHANGED <<stable, work, journal, ordinal, tool, preflighted, launched>>,
         point \in InCase \cup {"HEADER"} \cup Over,
         receipt' = receipt \/ point \in InCase,
         point' \in (InCase \ {"MATERIALIZED", "popen", "verdict", "CLOSE"}) \cup {"STOP", "stopped"},
         point = "stopped" => point' # "STOP",
         point' \in InCase => point \in InCase \ {"MATERIALIZED"},
         point' \in BeforeLaunch => point \in BeforeLaunch,
         point' = "TERMINAL" /\ receipt' = "PASS" => Gone(ordinal)
  PROVE  PackageInv'
<1> USE DEF PackageInv
<1>1. \A i : Settled(i)' = Settled(i) /\ Gone(i)' = Gone(i) /\ Unused(i)' = Unused(i)
  BY DEF Settled, Gone, Kept, Unused
<1>2. \A k, i : Kept(k, i)' = Kept(k, i)
  BY DEF Kept
<1>3. PackageTyped'
  BY DEF PackageTyped, Case, Over
<1>4. Claimed'
  BY ClaimStays DEF Over
<1>5. CaseInTurn'
  BY <1>1 DEF CaseInTurn, Case
<1>6. CaseOnRecord'
  <2>1. point' \notin {"popen", "verdict", "CLOSE"}
    OBVIOUS
  <2>2. point' \in InCase => /\ preflighted' => Kept("PREFLIGHT", ordinal)'
                             /\ launched' => Kept("LAUNCHED", ordinal)'
    BY <1>2 DEF CaseOnRecord
  <2>3. point' = "TERMINAL" /\ receipt' = "PASS" => Gone(ordinal)'
    BY <1>1
  <2> QED BY <2>1, <2>2, <2>3 DEF CaseOnRecord
<1>7. Admitted'
  BY <1>1, <1>2 DEF Admitted, Case
<1>8. OneEnd'
  <2>1. \A kind : Ended(kind)' = Ended(kind)
    BY <1>2 DEF Ended
  <2>2. Stops' = Stops
    BY DEF Stops
  <2>3. point' \in InCase \cup {"HEADER"} => point \in InCase
    BY DEF InCase, BeforeLaunch
  <2>4. point' = "STOP" /\ Ended("CLOSE") => ordinal' = Cases /\ receipt' = "PASS"
    <3>1. ASSUME Ended("CLOSE"), point' = "STOP" PROVE point \in Over \ {"stopped"}
      BY <3>1 DEF OneEnd, Over
    <3>2. point \in Over => point \notin InCase
      BY DEF InCase, BeforeLaunch, Over
    <3> QED BY <3>1, <3>2 DEF OneEnd, Over
  <2>5. point' # "returned"
    BY DEF InCase, BeforeLaunch
  <2> QED BY <1>1, <2>1, <2>2, <2>3, <2>4, <2>5 DEF OneEnd, Case
<1> QED BY <1>3, <1>4, <1>5, <1>6, <1>7, <1>8

LEMMA GoesOnKeeps ==
  ASSUME PackageInv, work = 8, UNCHANGED <<stable, work>>,
         Domain \/ Capture \/ ItemRaises \/ ItemInterrupted \/ Cleaned \/ Raises \/ GivesUp
  PROVE  PackageInv'
<1> USE DEF InCase, BeforeLaunch, Over, Goto
<1>1. CASE Domain
  BY <1>1, Onward DEF Domain
<1>2. CASE Capture
  BY <1>2, Onward DEF Capture
<1>3. CASE ItemRaises
  BY <1>3, Onward DEF ItemRaises
<1>4. CASE Cleaned
  <2>1. receipt' = "PASS" => Gone(ordinal)
    BY <1>4 DEF Cleaned
  <2> QED BY <1>4, <2>1, Onward DEF Cleaned
<1>5. CASE Raises
  BY <1>5, Onward DEF Raises
<1>6. CASE GivesUp
  BY <1>6, Onward DEF GivesUp
<1>7. CASE ItemInterrupted
  BY <1>7, Onward DEF ItemInterrupted
<1> QED BY <1>1, <1>2, <1>3, <1>4, <1>5, <1>6, <1>7

\* A record is added to what is kept, and the point is the one after it.
LEMMA AppendsKeeps ==
  ASSUME PackageInv, work = 8, UNCHANGED <<stable, work>>, Appends
  PROVE  PackageInv'
<1> USE DEF PackageInv
<1>1. /\ journal' = journal \cup {Record(point)} /\ UNCHANGED <<receipt, tool>>
      /\ ordinal' = IF point = "HEADER" THEN 1 ELSE ordinal
      /\ preflighted' = (point = "PREFLIGHT" \/ (preflighted /\ point # "MATERIALIZED"))
      /\ launched' = (point = "LAUNCHED" \/ (launched /\ point # "MATERIALIZED"))
  BY DEF Appends, Acknowledged
<1>2. \/ point = "HEADER" /\ point' = "MATERIALIZED"
      \/ point = "MATERIALIZED" /\ point' = "INTENT"
      \/ point = "INTENT" /\ point' = "domain"
      \/ point = "PREFLIGHT" /\ point' = "popen"
      \/ point = "LAUNCHED" /\ point' = "capture"
      \/ point = "TERMINAL" /\ point' = "verdict"
      \/ point = "CLOSE" /\ point' = "returned"
      \/ point = "STOP" /\ point' = "stopped"
  BY DEF Appends, After
<1>3. \A k, i : Kept(k, i)' <=> Kept(k, i) \/ (k = point /\ i = ordinal)
  <2>1. Record(point).kind = point /\ Record(point).ordinal = ordinal
    BY DEF Record
  <2>2. \A r : r \in journal' <=> r \in journal \/ r = Record(point)
    BY <1>1
  <2> QED BY <2>1, <2>2 DEF Kept
<1>4. \A i : /\ Gone(i)' = Gone(i) /\ Unused(i)' = Unused(i)
             /\ Settled(i) => Settled(i)'
  <2>1. \A i : Gone(i)' = Gone(i) /\ Unused(i)' = Unused(i)
    BY <1>1 DEF Gone, Unused
  <2> QED BY <1>1, <2>1, SettledStays
<1>5. PackageTyped'
  <2>1. ordinal' \in 0 .. Cases
    BY <1>1, CaseAssumption DEF PackageTyped
  <2>2. point' \in NotYet \cup InCase \cup Over
    BY <1>2 DEF InCase, BeforeLaunch, Over
  <2>3. preflighted' \in BOOLEAN /\ launched' \in BOOLEAN
    BY <1>1
  <2> QED BY <1>1, <2>1, <2>2, <2>3 DEF PackageTyped, Case
<1>6. Claimed'
  BY <1>2, ClaimStays DEF InCase, BeforeLaunch, Over
<1>7. CaseInTurn'
  <2>1. CASE point = "HEADER"
    <3>1. ordinal' = 1 /\ 1 \in Case /\ \A i \in Case : Unused(i)'
      BY <1>1, <1>4, <2>1, CaseAssumption DEF Claimed, Pristine, Case
    <3> QED BY <3>1 DEF CaseInTurn, Case
  <2>2. CASE point # "HEADER" /\ point' \in InCase
    <3>1. point \in InCase /\ ordinal' = ordinal
      BY <1>1, <1>2, <2>2 DEF InCase, BeforeLaunch, Over
    <3>2. point' \in BeforeLaunch => point \in BeforeLaunch
      BY <1>2, <2>2 DEF BeforeLaunch
    <3> QED BY <1>4, <3>1, <3>2 DEF CaseInTurn, Case
  <2> QED BY <2>1, <2>2 DEF CaseInTurn
<1>8. CaseOnRecord'
  <2>1. CASE point' \in InCase \ {"MATERIALIZED"}
    <3>1. ordinal' = ordinal /\ (point = "MATERIALIZED" \/ point \in InCase \ {"MATERIALIZED"})
      BY <1>1, <1>2, <2>1 DEF InCase, BeforeLaunch, Over
    <3>2. preflighted' => Kept("PREFLIGHT", ordinal)'
      <4>1. Kept("PREFLIGHT", ordinal) => Kept("PREFLIGHT", ordinal)'
        BY <1>3, <3>1
      <4>2. point = "PREFLIGHT" => Kept("PREFLIGHT", ordinal)'
        BY <1>3, <3>1
      <4>3. preflighted' => point = "PREFLIGHT" \/ (preflighted /\ point # "MATERIALIZED")
        BY <1>1
      <4> QED BY <3>1, <4>1, <4>2, <4>3 DEF CaseOnRecord
    <3>3. launched' => Kept("LAUNCHED", ordinal)'
      <4>1. Kept("LAUNCHED", ordinal) => Kept("LAUNCHED", ordinal)'
        BY <1>3, <3>1
      <4>2. point = "LAUNCHED" => Kept("LAUNCHED", ordinal)'
        BY <1>3, <3>1
      <4>3. launched' => point = "LAUNCHED" \/ (launched /\ point # "MATERIALIZED")
        BY <1>1
      <4> QED BY <3>1, <4>1, <4>2, <4>3 DEF CaseOnRecord
    <3>4. point' = "popen" => preflighted'
      BY <1>1, <1>2
    <3>5. point' = "verdict" =>
            /\ receipt' = "PASS" => Gone(ordinal)'
            /\ [kind |-> "TERMINAL", ordinal |-> ordinal', status |-> receipt'] \in journal'
      <4>1. point' = "verdict" => point = "TERMINAL"
        BY <1>2
      <4> QED BY <1>1, <1>4, <3>1, <4>1 DEF CaseOnRecord, Record
    <3>6. point' # "TERMINAL" /\ point' # "CLOSE"
      BY <1>2
    <3> QED BY <3>2, <3>3, <3>4, <3>5, <3>6 DEF CaseOnRecord
  <2>2. CASE point' \notin InCase \ {"MATERIALIZED"}
    BY <2>2 DEF CaseOnRecord, InCase, BeforeLaunch
  <2> QED BY <2>1, <2>2
<1>9. Admitted'
  BY <1>3, <1>4 DEF Admitted, Case
<1>10. OneEnd'
  <2>1. \A kind : Ended(kind)' => Ended(kind) \/ kind = point
    BY <1>3 DEF Ended
  <2>2. \A r \in Stops' : r \in Stops \/ (point = "STOP" /\ r.ordinal = ordinal /\ r.status = receipt)
    BY <1>1 DEF Stops, Record
  <2>3. point' \in InCase \cup {"HEADER"} => ~Ended("CLOSE")' /\ Stops' = {}
    <3>1. point' \in InCase \cup {"HEADER"} =>
            point \in InCase \cup {"HEADER"} /\ point # "CLOSE" /\ point # "STOP"
      BY <1>2 DEF InCase, BeforeLaunch
    <3> QED BY <2>1, <2>2, <3>1 DEF OneEnd
  <2>4. point = "CLOSE" => /\ \A i \in Case : Settled(i)
                           /\ ordinal = Cases /\ receipt = "PASS" /\ Stops = {}
    <3>1. point = "CLOSE" => point \in InCase
      BY DEF InCase
    <3> QED BY <3>1 DEF CaseInTurn, CaseOnRecord, Case, OneEnd
  <2>5. point' # "STOP" /\ (point' = "returned" => point = "CLOSE" /\ ordinal' = ordinal)
    BY <1>1, <1>2
  <2>6. Ended("CLOSE")' => /\ \A i \in Case : Settled(i)'
                           /\ \A r \in Stops' : r.ordinal = Cases /\ r.status = "PASS"
    <3>1. CASE point = "CLOSE"
      BY <1>4, <2>2, <2>4, <3>1
    <3>2. CASE point # "CLOSE" /\ Ended("CLOSE")
      <4>1. point = "STOP" => ordinal = Cases /\ receipt = "PASS"
        BY <3>2 DEF OneEnd
      <4> QED BY <1>4, <2>2, <3>2, <4>1 DEF OneEnd
    <3> QED BY <2>1, <3>1, <3>2
  <2> QED BY <1>1, <2>3, <2>4, <2>5, <2>6 DEF OneEnd, Case
<1> QED BY <1>5, <1>6, <1>7, <1>8, <1>9, <1>10

\* The tool is started on the case under way and on no other.
LEMMA PopenKeeps ==
  ASSUME PackageInv, work = 8, UNCHANGED <<stable, work>>, Popen
  PROVE  PackageInv'
<1> USE DEF PackageInv
<1>1. PICK started \in BOOLEAN, returned \in BOOLEAN :
        /\ tool' = IF started THEN [tool EXCEPT ![ordinal].leader = "live"] ELSE tool
        /\ point' = IF returned THEN "LAUNCHED" ELSE "cleanup"
  BY DEF Popen
<1>2. point = "popen" /\ UNCHANGED <<journal, tail, ordinal, preflighted, launched>>
  BY DEF Popen
<1>3. point \in InCase /\ point \in BeforeLaunch /\ ordinal \in Case /\ ordinal \in Nat
  BY <1>2, CaseAssumption DEF InCase, BeforeLaunch, CaseInTurn, Case
<1>4. point' \in InCase /\ point' \in {"LAUNCHED", "cleanup"}
  BY <1>1 DEF InCase
<1>5. /\ \A k \in Case : k # ordinal => tool'[k] = tool[k]
      /\ tool' \in [Case -> [leader : {"none", "live", "zero", "bad", "reaped"}, stray : BOOLEAN]]
  BY <1>1, <1>3 DEF PackageTyped
<1>6. \A k \in Case : k # ordinal => /\ Unused(k)' = Unused(k) /\ Gone(k)' = Gone(k)
                                     /\ Settled(k) => Settled(k)'
  <2>1. \A k \in Case : k # ordinal => Unused(k)' = Unused(k) /\ Gone(k)' = Gone(k)
    BY <1>5 DEF Unused, Gone
  <2> QED BY <1>2, <2>1, SettledStays
<1>7. \A k, i : Kept(k, i)' = Kept(k, i)
  BY <1>2 DEF Kept
<1>8. PackageTyped'
  BY <1>2, <1>4, <1>5 DEF PackageTyped, Case
<1>9. Claimed'
  BY <1>4, ClaimStays
<1>10. \A k \in 1 .. ordinal - 1 : k \in Case /\ k # ordinal /\ Settled(k)
  BY <1>3, CaseAssumption DEF CaseInTurn, Case
<1>11. CaseInTurn'
  <2>1. \A k \in Case : k > ordinal => Unused(k)'
    BY <1>3, <1>6 DEF CaseInTurn, Case
  <2>2. point' \notin BeforeLaunch
    BY <1>4 DEF BeforeLaunch
  <2> QED BY <1>2, <1>3, <1>6, <1>10, <2>1, <2>2 DEF CaseInTurn, Case
<1>12. CaseOnRecord'
  <2>1. /\ preflighted' => Kept("PREFLIGHT", ordinal)'
        /\ launched' => Kept("LAUNCHED", ordinal)'
    BY <1>2, <1>3, <1>7 DEF CaseOnRecord
  <2> QED BY <1>4, <2>1 DEF CaseOnRecord
<1>13. Admitted'
  <2>1. Kept("PREFLIGHT", ordinal)
    BY <1>2, <1>3 DEF CaseOnRecord
  <2>2. ASSUME NEW i \in Case, ~Unused(i)', i # ordinal
        PROVE  Kept("PREFLIGHT", i) /\ \A k \in 1 .. i - 1 : k \in Case /\ k # ordinal /\ Settled(k)
    <3>1. ~Unused(i)
      BY <1>6, <2>2
    <3>2. ~(i > ordinal)
      BY <1>3, <3>1 DEF CaseInTurn
    <3>3. \A k \in 1 .. i - 1 : k \in Case /\ k # ordinal
      BY <1>3, <2>2, <3>2, CaseAssumption DEF Case
    <3> QED BY <3>1, <3>3 DEF Admitted
  <2>3. ASSUME NEW i \in Case, ~Unused(i)'
        PROVE  Kept("PREFLIGHT", i)' /\ \A k \in 1 .. i - 1 : Settled(k)'
    BY <1>6, <1>7, <1>10, <2>1, <2>2, <2>3
  <2> QED BY <2>3 DEF Admitted, Case
<1>14. OneEnd'
  <2>1. ~Ended("CLOSE")' /\ Stops' = {} /\ point' \notin Over
    BY <1>2, <1>3, <1>4, <1>7 DEF OneEnd, Ended, Stops, Over
  <2> QED BY <2>1 DEF OneEnd, Over
<1> QED BY <1>8, <1>9, <1>11, <1>12, <1>13, <1>14

\* Cleaning up leaves no less gone than it was, and only touches a case whose
\* tool was started.
LEMMA CleanupKeeps ==
  ASSUME PackageInv, work = 8, UNCHANGED <<stable, work>>, Cleanup
  PROVE  PackageInv'
<1> USE DEF PackageInv
<1>1. PICK leader \in {tool[ordinal].leader, "reaped"}, stray \in {tool[ordinal].stray, FALSE} :
        tool' = [tool EXCEPT ![ordinal] = [leader |-> leader, stray |-> stray]]
  BY DEF Cleanup
<1>2. /\ point = "cleanup" /\ ~Gone(ordinal)
      /\ UNCHANGED <<journal, tail, point, ordinal, preflighted, launched, receipt>>
  BY DEF Cleanup
<1>3. point \in InCase /\ point \notin BeforeLaunch /\ ordinal \in Case
  BY <1>2 DEF InCase, BeforeLaunch, CaseInTurn
<1>4. /\ \A k \in Case : k # ordinal => tool'[k] = tool[k]
      /\ tool' \in [Case -> [leader : {"none", "live", "zero", "bad", "reaped"}, stray : BOOLEAN]]
  BY <1>1, <1>3 DEF PackageTyped
<1>5. ~Unused(ordinal)
  BY <1>2 DEF Unused, Gone
<1>6. \A k \in Case : (Gone(k) => Gone(k)') /\ (Unused(k) => Unused(k)')
  <2>1. \A k \in Case : k # ordinal => Unused(k)' = Unused(k) /\ Gone(k)' = Gone(k)
    BY <1>4 DEF Unused, Gone
  <2> QED BY <1>2, <1>5, <2>1
<1>7. \A k \in Case : Settled(k) => Settled(k)'
  BY <1>2, <1>6, SettledStays
<1>8. \A k, i : Kept(k, i)' = Kept(k, i)
  BY <1>2 DEF Kept
<1>9. PackageTyped'
  BY <1>2, <1>4 DEF PackageTyped, Case
<1>10. Claimed'
  BY <1>2, <1>3, ClaimStays
<1>11. \A i \in Case : \A k \in 1 .. i - 1 : k \in Case
  BY CaseAssumption DEF Case
<1>12. CaseInTurn'
  BY <1>2, <1>3, <1>6, <1>7, <1>11 DEF CaseInTurn, Case
<1>13. CaseOnRecord'
  BY <1>2, <1>8 DEF CaseOnRecord
<1>14. Admitted'
  <2>1. \A k \in Case : ~Unused(k)' => ~Unused(k)
    BY <1>6
  <2> QED BY <1>7, <1>8, <1>11, <2>1 DEF Admitted, Case
<1>15. OneEnd'
  BY <1>2, <1>7, <1>8 DEF OneEnd, Ended, Stops, Case
<1> QED BY <1>9, <1>10, <1>12, <1>13, <1>14, <1>15

\* A case that is accepted is settled.
LEMMA VerdictKeeps ==
  ASSUME PackageInv, work = 8, UNCHANGED <<stable, work>>, Verdict
  PROVE  PackageInv'
<1> USE DEF PackageInv
<1>1. /\ point = "verdict" /\ preflighted /\ launched /\ receipt = "PASS"
      /\ UNCHANGED <<journal, tail, preflighted, launched, receipt, tool>>
  BY DEF Verdict, Accepted
<1>2. \/ ordinal < Cases /\ point' = "MATERIALIZED" /\ ordinal' = ordinal + 1
      \/ ~(ordinal < Cases) /\ point' = "CLOSE" /\ ordinal' = ordinal
  BY DEF Verdict
<1>3. point \in InCase /\ ordinal \in Case
  BY <1>1 DEF InCase, CaseInTurn
<1>4. Settled(ordinal)
  <2>1. Gone(ordinal) /\ [kind |-> "TERMINAL", ordinal |-> ordinal, status |-> "PASS"] \in journal
    BY <1>1 DEF CaseOnRecord
  <2>2. Kept("PREFLIGHT", ordinal) /\ Kept("LAUNCHED", ordinal)
    BY <1>1, <1>3 DEF CaseOnRecord
  <2> QED BY <2>1, <2>2 DEF Settled
<1>5. \A i : Settled(i)' = Settled(i) /\ Gone(i)' = Gone(i) /\ Unused(i)' = Unused(i)
  BY <1>1 DEF Settled, Gone, Kept, Unused
<1>6. \A k, i : Kept(k, i)' = Kept(k, i)
  BY <1>1 DEF Kept
<1>7. point' \in InCase /\ point' \in {"MATERIALIZED", "CLOSE"}
  BY <1>2 DEF InCase, BeforeLaunch
<1>8. ordinal' \in Case /\ ordinal' \in 0 .. Cases
  BY <1>2, <1>3, CaseAssumption DEF Case
<1>9. PackageTyped'
  BY <1>1, <1>7, <1>8 DEF PackageTyped, Case
<1>10. Claimed'
  BY <1>7, ClaimStays
<1>11. CaseInTurn'
  <2>1. \A k \in 1 .. ordinal' - 1 : Settled(k)
    BY <1>2, <1>3, <1>4, CaseAssumption DEF CaseInTurn, Case
  <2>2. \A k \in Case : k > ordinal => Unused(k)
    BY <1>3 DEF CaseInTurn
  <2>3. \A k \in Case : k > ordinal' \/ (k = ordinal' /\ point' \in BeforeLaunch) => k > ordinal
    BY <1>2, <1>3, CaseAssumption DEF Case, BeforeLaunch
  <2> QED BY <1>5, <1>8, <2>1, <2>2, <2>3 DEF CaseInTurn, Case
<1>12. CaseOnRecord'
  <2>1. CASE point' = "MATERIALIZED"
    BY <2>1 DEF CaseOnRecord
  <2>2. CASE point' = "CLOSE"
    <3>1. ordinal' = ordinal /\ ordinal = Cases
      BY <1>2, <1>3, <2>2, CaseAssumption DEF Case
    <3>2. Kept("PREFLIGHT", ordinal)' /\ Kept("LAUNCHED", ordinal)' /\ Settled(ordinal)'
      BY <1>4, <1>5, <1>6, <3>1 DEF Settled
    <3> QED BY <1>1, <2>2, <3>1, <3>2 DEF CaseOnRecord
  <2> QED BY <1>7, <2>1, <2>2
<1>13. Admitted'
  BY <1>5, <1>6 DEF Admitted, Case
<1>14. OneEnd'
  <2>1. ~Ended("CLOSE")' /\ Stops' = {}
    BY <1>1, <1>3, <1>6 DEF OneEnd, Ended, Stops
  <2>2. point' # "returned" /\ point' # "STOP"
    BY <1>7
  <2> QED BY <2>1, <2>2 DEF OneEnd
<1> QED BY <1>9, <1>10, <1>11, <1>12, <1>13, <1>14

LEMMA DispatchKeeps ==
  ASSUME PackageInv, UNCHANGED <<stable, packageVars>>, work = 0, work' = 1
  PROVE  PackageInv'
<1>1. /\ \A i : Settled(i)' = Settled(i) /\ Gone(i)' = Gone(i) /\ Unused(i)' = Unused(i)
      /\ \A k, i : Kept(k, i)' = Kept(k, i)
  BY DEF packageVars, Settled, Gone, Kept, Unused
<1>2. Pristine' = Pristine
  BY <1>1 DEF Pristine, Case, packageVars
<1>3. Claimed'
  BY <1>2 DEF PackageInv, Claimed, packageVars
<1>4. PackageTyped' /\ CaseInTurn' /\ CaseOnRecord'
  <2>1. point' = "idle"
    BY DEF PackageInv, Claimed, packageVars
  <2> QED BY <2>1 DEF PackageInv, PackageTyped, CaseInTurn, CaseOnRecord, InCase, BeforeLaunch,
                      packageVars, Case
<1>5. Admitted' /\ OneEnd'
  BY <1>1 DEF PackageInv, Admitted, OneEnd, Ended, Stops, Case, packageVars
<1> QED BY <1>3, <1>4, <1>5 DEF PackageInv

\* With the power every tool goes; one that was started still was.
LEMMA PowerLostLeaves == ASSUME PackageInv, PowerLost PROVE PackageInv'
<1>1. /\ Forget /\ work' = 0 /\ stable' = stable
      /\ tool' = [i \in Case |-> IF tool[i].leader = "none" THEN tool[i]
                                 ELSE [leader |-> "reaped", stray |-> FALSE]]
  BY DEF PowerLost, LosePower
<1>2. tool' \in [Case -> [leader : {"none", "live", "zero", "bad", "reaped"}, stray : BOOLEAN]]
  BY <1>1 DEF PackageInv, PackageTyped
<1>3. \A i \in Case : (Unused(i)' <=> Unused(i)) /\ (Gone(i) => Gone(i)')
  BY <1>1 DEF Unused, Gone
<1> QED BY <1>1, <1>2, <1>3, WorkerGone

-----------------------------------------------------------------------------
LEMMA PackageAdvances == ASSUME PackageInv, SchedulerInv, [Next]_vars PROVE PackageInv'
<1>1. work \in 0 .. 8 /\ (job = "pending" => work = 0)
  BY DEF SchedulerInv, Typed, Recorded
<1>2. ASSUME NEW h \in Helper, HelperStep(h) PROVE PackageInv'
  <2>1. stable \subseteq stable' /\ UNCHANGED <<packageVars, work>>
    BY <1>2 DEF HelperStep, Invoke, Tested, Queried, Published, Called, Quits, Create, Breaks
  <2> QED BY <2>1, PackageKept
<1>3. CASE OldEnds \/ UNCHANGED vars
  BY <1>3, PackageKept DEF OldEnds, vars
<1>4. CASE Dispatch
  <2>1. UNCHANGED <<stable, packageVars>> /\ work = 0 /\ work' = 1
    BY <1>1, <1>4 DEF Dispatch
  <2> QED BY <2>1, DispatchKeeps
<1>5. CASE Prepares
  BY <1>5, PreparesKeeps
<1>6. CASE PreparesNot \/ PackageEnds
  <2>1. stable \subseteq stable' /\ WorkerEnds
    BY <1>6 DEF PreparesNot, PackageEnds, Breaks, Create
  <2>2. UNCHANGED tool
    BY <2>1 DEF WorkerEnds
  <2> QED BY <2>1, <2>2, WorkerGone DEF WorkerEnds, PackageInv, PackageTyped, Unused, Gone, Case
<1>7. CASE Packages
  <2>1. work = 8 /\ UNCHANGED <<stable, work>> /\ PackageStep
    BY <1>1, <1>7, Works DEF Packages
  <2> QED BY <2>1, GoesOnKeeps, AppendsKeeps, PopenKeeps, CleanupKeeps, VerdictKeeps DEF PackageStep
<1>8. CASE ToolStep
  BY <1>8, ToolStepKeeps
<1>9. CASE PowerLost
  BY <1>9, PowerLostLeaves
<1> QED BY <1>2, <1>3, <1>4, <1>5, <1>6, <1>7, <1>8, <1>9 DEF Next

-----------------------------------------------------------------------------
LEMMA InitInv == Init => IInv
<1> SUFFICES ASSUME Init PROVE IInv
  OBVIOUS
<1>1. \A h \in Helper : helper[h] = Idle
  BY DEF Init
<1>2. Typed
  <2>1. helper \in [Helper -> Place] /\ \A h \in Helper : helper[h].step <= Length[helper[h].op]
    BY <1>1, IdlePlace DEF Init
  <2>2. calls \in [Client -> {0, 1}] /\ work = 0 /\ named = FALSE /\ job = "none"
    BY DEF Init
  <2>3. old \in {"active", "terminal"}
    BY DEF Init
  <2>4. named \in BOOLEAN
    BY DEF Init
  <2>5. work \in 0 .. 8
    BY <2>2
  <2> QED BY <2>1, <2>2, <2>3, <2>4, <2>5 DEF Typed
<1>3. Owned
  BY <1>1 DEF Init, Owned, Holds, At, Idle
<1>4. Relied
  BY <1>1 DEF Relied, Trusted, At, Idle
<1>5. Recorded
  BY DEF Init, Recorded, Exists, Client
<1>6. Pristine /\ \A k, i : ~Kept(k, i)
  BY DEF Init, PackageInit, Pristine, Unused, Kept, Case
<1>7. PackageTyped
  <2>1. 0 \in 0 .. Cases
    BY CaseAssumption
  <2>2. [leader |-> "none", stray |-> FALSE] \in
          [leader : {"none", "live", "zero", "bad", "reaped"}, stray : BOOLEAN]
    OBVIOUS
  <2>3. tool \in [Case -> [leader : {"none", "live", "zero", "bad", "reaped"}, stray : BOOLEAN]]
    BY <2>2 DEF Init, PackageInit
  <2>4. point = "idle" /\ ordinal = 0 /\ preflighted = FALSE /\ launched = FALSE
    BY DEF Init, PackageInit
  <2> QED BY <2>1, <2>3, <2>4 DEF PackageTyped, NotYet
<1>8. Claimed
  BY <1>6 DEF Init, PackageInit, Claimed
<1>9. CaseInTurn /\ CaseOnRecord
  BY DEF Init, PackageInit, CaseInTurn, CaseOnRecord, InCase, BeforeLaunch
<1>10. Admitted /\ OneEnd
  BY <1>6 DEF Init, PackageInit, Pristine, Admitted, OneEnd, Ended, Stops
<1> QED BY <1>2, <1>3, <1>4, <1>5, <1>7, <1>8, <1>9, <1>10
        DEF IInv, SchedulerInv, PackageInv

LEMMA StepInv == IInv /\ [Next]_vars => IInv'
BY SchedulerStep, PackageAdvances DEF IInv

\* In every state of the acceptance job each call has one owner, what a script
\* relies on is so, and the package is as its journal says.
THEOREM Inductive == Spec => []IInv
BY InitInv, StepInv, PTL DEF Spec

\* A new job is submitted only when the old one has ended.
THEOREM OldGone == Spec => []OldGoneBeforeNew
<1>1. IInv => OldGoneBeforeNew
  BY DEF IInv, SchedulerInv, Typed, Recorded, OldGoneBeforeNew, Client
<1> QED BY <1>1, Inductive, PTL

\* The scheduler is asked at most once for each thing, by any number of
\* helpers, and never without the intent on stable storage.
THEOREM Once == Spec => []AskedOnce
<1>1. ASSUME IInv PROVE AskedOnce
  <2>1. calls \in [Client -> {0, 1}] /\ Owned /\ Recorded
    BY <1>1 DEF IInv, SchedulerInv, Typed
  <2>2. \A c \in Client : calls[c] <= 1
    BY <2>1
  <2>3. "bkill" \in Client /\ "bsub" \in Client /\ "bresume" \in Client
    BY DEF Client
  <2>4. /\ calls["bkill"] = 1 => "cancellation_intent" \in stable
        /\ calls["bsub"] = 1 => "registration_intent" \in stable
        /\ calls["bresume"] = 1 => "resume_intent" \in stable
    BY <2>1, <2>3 DEF Owned, IntentOf
  <2>5. calls["bresume"] = 1 => "permit" \in stable /\ issued = "fresh"
    BY <2>1 DEF Recorded
  <2> QED BY <2>2, <2>4, <2>5 DEF AskedOnce
<1> QED BY <1>1, Inductive, PTL

\* A job whose submission was not confirmed is never resumed.
THEOREM StaysHeld == Spec => []UnknownStaysHeld
<1>1. IInv => UnknownStaysHeld
  BY DEF IInv, SchedulerInv, Typed, Recorded, UnknownStaysHeld
<1> QED BY <1>1, Inductive, PTL

\* The tool runs a case only with the whole chain before it on stable storage.
THEOREM LaunchAdmitted == Spec => []LaunchIsAdmitted
<1>1. ASSUME IInv, NEW i \in Ran
      PROVE  /\ {"permit", "worker_start", "bundle"} \subseteq stable
             /\ Kept("PREFLIGHT", i)
             /\ \A k \in 1 .. i - 1 : Settled(k)
  <2>1. i \in Case /\ ~Unused(i)
    BY <1>1 DEF Ran, Unused
  <2>2. ~Pristine
    BY <2>1 DEF Pristine
  <2> QED BY <1>1, <2>1, <2>2 DEF IInv, PackageInv, Claimed, Admitted
<1>2. IInv => LaunchIsAdmitted
  BY <1>1 DEF LaunchIsAdmitted, Settled
<1> QED BY <1>2, Inductive, PTL

\* The journal of the package is closed only when every case is settled; a STOP
\* beside the CLOSE is of the last case, which passed.
THEOREM CloseComplete == Spec => []CloseIsComplete
<1>1. IInv => CloseIsComplete
  BY DEF IInv, PackageInv, OneEnd, Ended, Stops, CloseIsComplete, Settled
<1> QED BY <1>1, Inductive, PTL
=============================================================================
