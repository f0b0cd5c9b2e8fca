------------------------ MODULE GenerationController_proofs ------------------------
(***************************************************************************)
(* The generation package, for every plan, every number of lives and       *)
(* whatever the launcher starts.                                           *)
(*                                                                         *)
(* The sidecar is the first file of a package and is created exclusively:  *)
(* one process alone ever comes past it.  What that process has passed is  *)
(* on stable storage, and what it has launched it has seen the end of      *)
(* before it goes on.  A later process finds the sidecar and does nothing. *)
(***************************************************************************)
EXTENDS GenerationController, FiniteSetTheorems, SequenceTheorems, TLAPS

StepsOf(t) == {Script(t)[i] : i \in DOMAIN Script(t)}

\* The process is past the sidecar; it has passed step d of task t.
Began == task > 0 \/ step > 1
Passed(t, d) == \/ t \in 0 .. Len(Plan) /\ t < task /\ d \in StepsOf(t)
                \/ t = task /\ task <= Len(Plan) /\ \E i \in 1 .. step - 1 : Script(t)[i] = d

Fresh(l) == tree[l].leader = "none" /\ tree[l].kid = "none"
Resting(l) == tree[l].leader = "reaped" /\ tree[l].kid \in {"none", "gone"}
Started == {l \in Launch : tree[l].leader # "none"}
Sidecar == <<0, "sidecar">>

Typed ==
  /\ task \in 0 .. Len(Plan) + 1 /\ step \in Nat \ {0}
  /\ task <= Len(Plan) => step \in DOMAIN Script(task)
  /\ alive \in BOOLEAN /\ failed \in BOOLEAN
  /\ debited \in [Kinds -> Nat]
  /\ launches \in Nat /\ current \in Launch
  /\ tree \in [Launch -> [leader : Leader, kid : Kid]]
  /\ seen \in [attempted : BOOLEAN, handle : BOOLEAN, identity : BOOLEAN, persisted : BOOLEAN,
               failure : BOOLEAN, cleaned : BOOLEAN, rc : {"none", "zero", "bad"}]

\* Without a sidecar on stable storage nothing has happened.
Blank == Sidecar \notin stable =>
  /\ stable = {} /\ torn \subseteq {Sidecar}
  /\ ~Began
  /\ \A l \in Launch : Fresh(l)

\* What was passed is on stable storage; an intent comes after its debit.
OnDisk ==
  /\ \A t \in 0 .. Len(Plan) : \A d \in StepsOf(t) \ Quiet : Passed(t, d) => <<t, d>> \in stable
  /\ Began => \A t \in Task : Exists(<<t, "intent">>) => Passed(t, "bind")

\* The controller's books against its place in the plan.
Debits == debited["TESSENT"] + debited["TRANSLATION"]
Books ==
  /\ Debits = IF task = 0 THEN 0 ELSE IF Passed(task, "bind") THEN task ELSE task - 1
  /\ committed = {t \in Task : t < task}
  /\ \A t \in Task : Passed(t, "bind") => Plan[t].parent = 0 \/ Plan[t].parent \in committed
  /\ \A t \in active : \/ t = 0 /\ Sidecar \in stable
                       \/ t = task /\ t \in Task /\ Passed(t, "intent")

\* What was started was paid for, and its end was seen before going on.
Trees ==
  /\ \A l \in Launch : /\ tree[l].leader = "none" => tree[l].kid = "none"
                       /\ tree[l].kid = "child" => tree[l].leader = "live"
                       /\ alive /\ Began => tree[l].kid # "orphan"
  /\ launches = Cardinality(Started)
  /\ \A l \in Started : {Sidecar, <<l, "intent">>, <<l, "preparation">>} \subseteq stable
  /\ OneTree
  /\ \A l \in Launch :
       /\ Passed(l, "verdict") => Resting(l) /\ <<l, "spawn_identity">> \in stable
       /\ alive /\ Began /\ l > task => Fresh(l)

\* The launch observed, and the observation of it.
Watching == task \in Launch /\ (at # "idle" \/ Passed(task, "observe"))
Observing ==
  /\ at \in {"idle", "prelaunch", "popen", "identity", "callback", "loop", "kill",
             "check", "leftover", "close", "done"}
  /\ at # "idle" => /\ alive /\ ~failed /\ task \in Launch /\ Doing = "observe"
                    /\ current = task /\ summary = NoSummary
  /\ at \in {"prelaunch", "popen", "leftover"} => ~seen.handle
  /\ at \notin {"idle", "close", "done"} => ~seen.cleaned
  /\ alive /\ Began /\ task \in Launch /\ ~Passed(task, "observe") /\ at \in {"idle", "prelaunch", "popen"} =>
       Fresh(task)
  /\ alive /\ Watching /\ seen.persisted => <<task, "spawn_identity">> \in stable
  /\ alive /\ Watching /\ seen.cleaned /\ seen.handle => Resting(task)

\* A summary that was made is the books', and a published one is true of the disk.
Reports ==
  /\ summary # NoSummary =>
       /\ failed \/ task > Len(Plan)
       /\ summary.status \in {"stopped", "collected"}
       /\ summary.debited = debited /\ summary.completed = committed
       /\ summary.named \subseteq active
       /\ summary.status = "collected" => task > Len(Plan)
  /\ SummaryFile \in stable => ~alive \/ ~Began
  /\ SummaryFile \in stable =>
       /\ published.status = "collected" => published.completed = Task
       /\ published.completed \subseteq Task
       /\ \A t \in published.completed : FilesOf(t) \subseteq stable
       /\ \E n \in 0 .. Len(Plan) :
            /\ published.debited["TESSENT"] + published.debited["TRANSLATION"] = n
            /\ \A t \in Task : /\ Exists(<<t, "intent">>) => t <= n
                               /\ t < n => <<t, "intent">> \in stable
       /\ \A t \in published.named : /\ t \notin published.completed
                                     /\ <<t, IF t = 0 THEN "sidecar" ELSE "intent">> \in stable

IInv == Typed /\ Blank /\ OnDisk /\ Books /\ Trees /\ Observing /\ Reports

-----------------------------------------------------------------------------
Name == {"freeze", "bind", "intent", "prepare", "preparation", "observe", "observation",
         "stdout", "stdout_ack", "verdict", "artifacts", "translate", "translation_observation",
         "reference", "artifact_metadata", "ack"}

LEMMA Plans ==
  /\ Len(Plan) \in Nat /\ Task = 1 .. Len(Plan)
  /\ \A t \in Task : /\ Plan[t].kind \in {"TESSENT", "TRANSLATION"} /\ Plan[t].parent \in Nat
                     /\ t \in Launch <=> Plan[t].kind = "TESSENT"
  /\ Launch \subseteq Task /\ IsFiniteSet(Launch)
<1>1. Len(Plan) \in Nat /\ Task = 1 .. Len(Plan)
  BY PlanAssumption DEF Task
<1>2. Launch \subseteq Task
  BY PlanAssumption
<1>3. IsFiniteSet(Launch)
  <2>1. IsFiniteSet(1 .. Len(Plan))
    BY <1>1, FS_Interval
  <2>2. Launch \in SUBSET (1 .. Len(Plan))
    BY <1>1, <1>2
  <2> QED BY <2>1, <2>2, FS_Subset
<1>4. \A t \in Task : Plan[t] \in [kind : Kinds, parent : Nat, first : BOOLEAN]
  <2> DEFINE S == [kind : Kinds, parent : Nat, first : BOOLEAN]
  <2>1. Plan \in Seq(S)
    BY PlanAssumption
  <2> HIDE DEF S
  <2>2. \A t \in Task : Plan[t] \in S
    BY <1>1, <2>1, ElementOfSeq
  <2> QED BY <2>2 DEF S
<1>5. \A t \in Task : t \in Launch <=> Plan[t].kind = "TESSENT"
  BY PlanAssumption
<1> QED BY <1>1, <1>2, <1>3, <1>4, <1>5 DEF Kinds

LEMMA SetupIs == Len(Setup) = 7 /\ DOMAIN Setup = 1 .. 7 /\ Script(0) = Setup
BY DEF Setup, Script

\* What two sequences are, one after the other.
LEMMA Joined ==
  ASSUME NEW a \in Seq(Name), NEW b \in Seq(Name)
  PROVE  /\ a \o b \in Seq(Name) /\ Len(a \o b) = Len(a) + Len(b)
         /\ \A i \in 1 .. Len(a) : (a \o b)[i] = a[i]
         /\ \A j \in 1 .. Len(b) : (a \o b)[Len(a) + j] = b[j]
BY ConcatProperties

\* The script of a task, from the step where its debit is made.
LEMMA Scripts ==
  ASSUME NEW t \in Task
  PROVE  \E f \in {0, 1} :
           /\ f = 1 => Script(t)[1] = "freeze"
           /\ Script(t)[f + 1] = "bind" /\ Script(t)[f + 2] = "intent"
           /\ Script(t)[f + 3] = "prepare"
           /\ t \in Launch =>
                /\ Len(Script(t)) = f + 13 /\ DOMAIN Script(t) = 1 .. f + 13
                /\ Script(t)[f + 4] = "preparation" /\ Script(t)[f + 5] = "observe"
                /\ Script(t)[f + 6] = "observation" /\ Script(t)[f + 7] = "stdout"
                /\ Script(t)[f + 8] = "stdout_ack" /\ Script(t)[f + 9] = "verdict"
                /\ Script(t)[f + 10] = "artifacts" /\ Script(t)[f + 11] = "reference"
                /\ Script(t)[f + 12] = "artifact_metadata" /\ Script(t)[f + 13] = "ack"
           /\ t \notin Launch =>
                /\ Len(Script(t)) = f + 8 /\ DOMAIN Script(t) = 1 .. f + 8
                /\ Script(t)[f + 4] = "translate" /\ Script(t)[f + 5] = "translation_observation"
                /\ Script(t)[f + 6] = "reference"
                /\ Script(t)[f + 7] = "artifact_metadata" /\ Script(t)[f + 8] = "ack"
<1> DEFINE f == IF Plan[t].first THEN 1 ELSE 0
           O == Opening(t)
           M == IF t \in Launch
                  THEN <<"prepare", "preparation", "observe", "observation",
                         "stdout", "stdout_ack", "verdict", "artifacts">>
                  ELSE <<"prepare", "translate", "translation_observation">>
           m == IF t \in Launch THEN 8 ELSE 3
<1>1. O \in Seq(Name) /\ Len(O) = f + 2 /\ O[f + 1] = "bind" /\ O[f + 2] = "intent"
      /\ (f = 1 => O[1] = "freeze")
  <2>1. /\ <<"freeze">> \in Seq(Name) /\ <<"bind", "intent">> \in Seq(Name)
        /\ Len(<<"freeze">>) = 1 /\ Len(<<"bind", "intent">>) = 2
    BY DEF Name
  <2>2. CASE Plan[t].first
    <3>1. O = <<"freeze">> \o <<"bind", "intent">> /\ f = 1
      BY <2>2 DEF Opening
    <3> HIDE DEF O, f
    <3> QED BY <2>1, <3>1, Joined
  <2>3. CASE ~Plan[t].first
    <3>1. O = <<>> \o <<"bind", "intent">> /\ f = 0
      BY <2>3 DEF Opening
    <3> HIDE DEF O, f
    <3>2. O = <<"bind", "intent">>
      BY <2>1, <3>1, ConcatEmptySeq
    <3> QED BY <2>1, <3>1, <3>2
  <2> QED BY <2>2, <2>3
<1>2. M \in Seq(Name) /\ Len(M) = m /\ Closing \in Seq(Name) /\ Len(Closing) = 3
  <2>1. CASE t \in Launch
    BY <2>1 DEF Closing, Name
  <2>2. CASE t \notin Launch
    BY <2>2 DEF Closing, Name
  <2> QED BY <2>1, <2>2
<1>3. Script(t) = (O \o M) \o Closing
  <2>1. t # 0 /\ (t \in Launch <=> Plan[t].kind = "TESSENT")
        /\ Plan[t].kind \in {"TESSENT", "TRANSLATION"}
    BY Plans
  <2>2. CASE t \in Launch
    BY <2>1, <2>2 DEF Script
  <2>3. CASE t \notin Launch
    BY <2>1, <2>3 DEF Script
  <2> QED BY <2>2, <2>3
<1>4. f \in {0, 1} /\ m \in {3, 8}
  OBVIOUS
<1>5. /\ M[1] = "prepare"
      /\ t \in Launch => /\ M[2] = "preparation" /\ M[3] = "observe" /\ M[4] = "observation"
                         /\ M[5] = "stdout" /\ M[6] = "stdout_ack" /\ M[7] = "verdict"
                         /\ M[8] = "artifacts" /\ m = 8
      /\ t \notin Launch => M[2] = "translate" /\ M[3] = "translation_observation" /\ m = 3
      /\ Closing[1] = "reference" /\ Closing[2] = "artifact_metadata" /\ Closing[3] = "ack"
  BY DEF Closing
<1> HIDE DEF f, O, M, m
<1>6. /\ O \o M \in Seq(Name) /\ Len(O \o M) = f + 2 + m
      /\ (O \o M)[f + 1] = "bind" /\ (O \o M)[f + 2] = "intent"
      /\ f = 1 => (O \o M)[1] = "freeze"
      /\ \A j \in 1 .. m : (O \o M)[f + 2 + j] = M[j]
  BY <1>1, <1>2, <1>4, Joined
<1> DEFINE P == O \o M
           C == Closing
           z == Script(t)
<1>7. C \in Seq(Name) /\ Len(C) = 3 /\ z = P \o C /\ P \in Seq(Name) /\ Len(P) = f + 2 + m
  BY <1>2, <1>3, <1>6
<1> HIDE DEF P, C, z
<1>8. /\ z \in Seq(Name) /\ Len(z) = f + 2 + m + 3
      /\ \A i \in 1 .. f + 2 + m : z[i] = P[i]
      /\ \A j \in 1 .. 3 : z[f + 2 + m + j] = C[j]
  <2>1. /\ z \in Seq(Name) /\ Len(z) = Len(P) + Len(C)
        /\ \A i \in 1 .. Len(P) : z[i] = P[i]
        /\ \A j \in 1 .. Len(C) : z[Len(P) + j] = C[j]
    BY <1>7, Joined
  <2> QED BY <1>4, <1>7, <2>1
<1>9. /\ \A j \in 1 .. m : z[f + 2 + j] = M[j]
      /\ z[f + 1] = "bind" /\ z[f + 2] = "intent" /\ (f = 1 => z[1] = "freeze")
  <2>1. \A j \in 1 .. m : f + 2 + j \in 1 .. f + 2 + m
    BY <1>4
  <2>2. f + 1 \in 1 .. f + 2 + m /\ f + 2 \in 1 .. f + 2 + m /\ 1 \in 1 .. f + 2 + m
    BY <1>4
  <2>3. /\ P[f + 1] = "bind" /\ P[f + 2] = "intent" /\ (f = 1 => P[1] = "freeze")
        /\ \A j \in 1 .. m : P[f + 2 + j] = M[j]
    BY <1>6 DEF P
  <2>4. \A i \in 1 .. f + 2 + m : z[i] = P[i]
    BY <1>8
  <2> QED BY <2>1, <2>2, <2>3, <2>4
<1>10. /\ DOMAIN z = 1 .. f + 2 + m + 3
       /\ z[f + 2 + m + 1] = "reference" /\ z[f + 2 + m + 2] = "artifact_metadata"
       /\ z[f + 2 + m + 3] = "ack"
  BY <1>4, <1>5, <1>8 DEF C
<1>11. z[f + 3] = "prepare"
  BY <1>4, <1>5, <1>9
<1>12. CASE t \in Launch
  <2>1. /\ z[f + 4] = "preparation" /\ z[f + 5] = "observe"
        /\ z[f + 6] = "observation" /\ z[f + 7] = "stdout"
        /\ z[f + 8] = "stdout_ack" /\ z[f + 9] = "verdict" /\ z[f + 10] = "artifacts"
    BY <1>4, <1>5, <1>9, <1>12
  <2>2. m = 8 /\ f + 2 + m + 3 = f + 13 /\ f + 2 + m + 1 = f + 11 /\ f + 2 + m + 2 = f + 12
    BY <1>4, <1>5, <1>12
  <2>3. Len(z) = f + 13 /\ DOMAIN z = 1 .. f + 13 /\ z[f + 11] = "reference"
        /\ z[f + 12] = "artifact_metadata" /\ z[f + 13] = "ack"
    BY <1>8, <1>10, <2>2
  <2> QED BY <1>4, <1>9, <1>11, <1>12, <2>1, <2>3 DEF z
<1>13. CASE t \notin Launch
  <2>1. z[f + 4] = "translate" /\ z[f + 5] = "translation_observation"
    BY <1>4, <1>5, <1>9, <1>13
  <2>2. m = 3
    BY <1>5, <1>13
  <2> QED BY <1>4, <1>8, <1>9, <1>10, <1>11, <1>13, <2>1, <2>2 DEF z
<1> QED BY <1>12, <1>13

\* What precedes a step of a task.
LEMMA Order ==
  ASSUME NEW t \in Task
  PROVE  /\ Len(Script(t)) \in Nat \ {0} /\ DOMAIN Script(t) = 1 .. Len(Script(t))
         /\ \A i \in DOMAIN Script(t) :
              /\ Script(t)[i] \in Name
              /\ Script(t)[i] = "ack" <=> i = Len(Script(t))
              /\ Script(t)[i] = "intent" => \E j \in 1 .. i - 1 : Script(t)[j] = "bind"
              /\ Script(t)[i] = "observe" =>
                   /\ t \in Launch
                   /\ \E j \in 1 .. i - 1 : Script(t)[j] = "intent"
                   /\ \E j \in 1 .. i - 1 : Script(t)[j] = "preparation"
              /\ Script(t)[i] = "verdict" => \E j \in 1 .. i - 1 : Script(t)[j] = "observe"
              /\ Script(t)[i] \in {"bind", "observe", "intent"} =>
                   \A j \in 1 .. i - 1 : Script(t)[j] # Script(t)[i]
         /\ {"bind", "intent"} \subseteq StepsOf(t)
         /\ t \in Launch => {"preparation", "observe", "verdict"} \subseteq StepsOf(t)
<1>1. PICK f \in {0, 1} :
           /\ f = 1 => Script(t)[1] = "freeze"
           /\ Script(t)[f + 1] = "bind" /\ Script(t)[f + 2] = "intent"
           /\ Script(t)[f + 3] = "prepare"
           /\ t \in Launch =>
                /\ Len(Script(t)) = f + 13 /\ DOMAIN Script(t) = 1 .. f + 13
                /\ Script(t)[f + 4] = "preparation" /\ Script(t)[f + 5] = "observe"
                /\ Script(t)[f + 6] = "observation" /\ Script(t)[f + 7] = "stdout"
                /\ Script(t)[f + 8] = "stdout_ack" /\ Script(t)[f + 9] = "verdict"
                /\ Script(t)[f + 10] = "artifacts" /\ Script(t)[f + 11] = "reference"
                /\ Script(t)[f + 12] = "artifact_metadata" /\ Script(t)[f + 13] = "ack"
           /\ t \notin Launch =>
                /\ Len(Script(t)) = f + 8 /\ DOMAIN Script(t) = 1 .. f + 8
                /\ Script(t)[f + 4] = "translate" /\ Script(t)[f + 5] = "translation_observation"
                /\ Script(t)[f + 6] = "reference"
                /\ Script(t)[f + 7] = "artifact_metadata" /\ Script(t)[f + 8] = "ack"
  BY Scripts
<1> DEFINE z == Script(t)
           n == Len(z)
<1> HIDE DEF z
<1>2. n \in Nat \ {0} /\ DOMAIN z = 1 .. n
  BY <1>1 DEF z
<1>3. ASSUME NEW i \in DOMAIN z
      PROVE  /\ z[i] \in Name
             /\ z[i] = "ack" <=> i = n
             /\ z[i] = "bind" <=> i = f + 1
             /\ z[i] = "intent" <=> i = f + 2
             /\ z[i] = "observe" <=> t \in Launch /\ i = f + 5
             /\ z[i] = "verdict" <=> t \in Launch /\ i = f + 9
  <2>1. CASE t \in Launch
    <3>1. i \in 1 .. f + 13 /\ n = f + 13
      BY <1>1, <1>3, <2>1 DEF z
    <3>2. \/ (i = f /\ f = 1) \/ i = f + 1 \/ i = f + 2 \/ i = f + 3 \/ i = f + 4 \/ i = f + 5
          \/ i = f + 6 \/ i = f + 7 \/ i = f + 8 \/ i = f + 9 \/ i = f + 10 \/ i = f + 11
          \/ i = f + 12 \/ i = f + 13
      BY <3>1
    <3> QED BY <1>1, <2>1, <3>1, <3>2 DEF z, Name
  <2>2. CASE t \notin Launch
    <3>1. i \in 1 .. f + 8 /\ n = f + 8
      BY <1>1, <1>3, <2>2 DEF z
    <3>2. \/ (i = f /\ f = 1) \/ i = f + 1 \/ i = f + 2 \/ i = f + 3 \/ i = f + 4 \/ i = f + 5
          \/ i = f + 6 \/ i = f + 7 \/ i = f + 8
      BY <3>1
    <3> QED BY <1>1, <2>2, <3>1, <3>2 DEF z, Name
  <2> QED BY <2>1, <2>2
<1>4. f + 1 \in DOMAIN z /\ f + 2 \in DOMAIN z
      /\ z[f + 1] = "bind" /\ z[f + 2] = "intent"
  BY <1>1 DEF z
<1>5. t \in Launch => /\ f + 4 \in DOMAIN z /\ f + 5 \in DOMAIN z /\ f + 9 \in DOMAIN z
                      /\ z[f + 4] = "preparation" /\ z[f + 5] = "observe" /\ z[f + 9] = "verdict"
  BY <1>1 DEF z
<1>6. {"bind", "intent"} \subseteq StepsOf(t)
      /\ (t \in Launch => {"preparation", "observe", "verdict"} \subseteq StepsOf(t))
  BY <1>4, <1>5 DEF StepsOf, z
<1>7. ASSUME NEW i \in DOMAIN z
      PROVE  /\ z[i] = "intent" => \E j \in 1 .. i - 1 : z[j] = "bind"
             /\ z[i] = "observe" =>
                   /\ t \in Launch
                   /\ \E j \in 1 .. i - 1 : z[j] = "intent"
                   /\ \E j \in 1 .. i - 1 : z[j] = "preparation"
             /\ z[i] = "verdict" => \E j \in 1 .. i - 1 : z[j] = "observe"
             /\ z[i] \in {"bind", "observe", "intent"} => \A j \in 1 .. i - 1 : z[j] # z[i]
  <2>1. z[i] = "intent" => \E j \in 1 .. i - 1 : z[j] = "bind"
    BY <1>3, <1>4, <1>7
  <2>2. z[i] = "observe" => /\ t \in Launch
                            /\ \E j \in 1 .. i - 1 : z[j] = "intent"
                            /\ \E j \in 1 .. i - 1 : z[j] = "preparation"
    BY <1>3, <1>4, <1>5, <1>7
  <2>3. z[i] = "verdict" => \E j \in 1 .. i - 1 : z[j] = "observe"
    BY <1>3, <1>5, <1>7
  <2>4. ASSUME z[i] \in {"bind", "observe", "intent"}, NEW j \in 1 .. i - 1 PROVE z[j] # z[i]
    <3>1. j \in DOMAIN z /\ j # i
      BY <1>2, <1>7
    <3> QED BY <1>3, <1>7, <2>4, <3>1
  <2> QED BY <2>1, <2>2, <2>3, <2>4
<1> QED BY <1>2, <1>3, <1>6, <1>7 DEF z

\* The setup: the sidecar is its first step and no other's.
LEMMA SetupOrder ==
  /\ Len(Script(0)) = 7 /\ DOMAIN Script(0) = 1 .. 7
  /\ \A i \in 1 .. 7 :
       /\ Script(0)[i] = "sidecar" <=> i = 1
       /\ Script(0)[i] \notin {"freeze", "bind", "intent", "prepare", "observe", "verdict", "ack",
                               "spawn_identity", "package_summary", "preparation"}
       /\ i = 7 => Script(0)[i] \notin Quiet
<1>1. /\ Setup[1] = "sidecar" /\ Setup[2] = "bundle" /\ Setup[3] = "journal"
      /\ Setup[4] = "initialization" /\ Setup[5] = "selftest_intent" /\ Setup[6] = "selftests"
      /\ Setup[7] = "selftest_observation"
  BY DEF Setup
<1>2. ASSUME NEW i \in 1 .. 7
      PROVE  i = 1 \/ i = 2 \/ i = 3 \/ i = 4 \/ i = 5 \/ i = 6 \/ i = 7
  BY <1>2
<1> QED BY <1>1, <1>2, SetupIs DEF Quiet

\* Where a running process is.
LEMMA Place ==
  ASSUME Typed, task <= Len(Plan)
  PROVE  /\ task = 0 \/ task \in Task
         /\ step \in 1 .. Len(Script(task)) /\ DOMAIN Script(task) = 1 .. Len(Script(task))
         /\ Len(Script(task)) \in Nat \ {0}
         /\ Doing \in StepsOf(task)
         /\ Doing = "sidecar" <=> ~Began
         /\ Doing \in {"freeze", "bind", "intent", "prepare", "observe", "verdict", "ack", "preparation"} =>
              task \in Task
         /\ Doing \notin {"spawn_identity", "package_summary"}
         /\ task \in Task => (Doing = "ack" <=> step = Len(Script(task)))
         /\ Doing \in Quiet => step # Len(Script(task))
         /\ Doing = "intent" => Passed(task, "bind")
         /\ Doing = "observe" => /\ task \in Launch
                                 /\ Passed(task, "intent") /\ Passed(task, "preparation")
         /\ Doing = "verdict" => Passed(task, "observe")
         /\ Doing \in {"bind", "observe", "intent"} => ~Passed(task, Doing)
         /\ task \in Task /\ Passed(task, "verdict") => Passed(task, "observe")
<1>1. task = 0 \/ task \in Task
  BY Plans DEF Typed
<1>2. CASE task = 0
  <2>1. /\ step \in 1 .. 7 /\ Len(Script(task)) = 7 /\ DOMAIN Script(task) = 1 .. 7
        /\ Doing = Script(0)[step]
    BY <1>2, SetupOrder, Plans DEF Typed, Doing
  <2>2. Doing \in StepsOf(task)
    BY <2>1 DEF StepsOf, Doing
  <2>3. Doing = "sidecar" <=> ~Began
    BY <1>2, <2>1, SetupOrder DEF Began
  <2>4. Doing \notin {"freeze", "bind", "intent", "prepare", "observe", "verdict", "ack",
                     "spawn_identity", "package_summary", "preparation"}
    BY <2>1, SetupOrder
  <2>5. Doing \in Quiet => step # Len(Script(task))
    BY <2>1, SetupOrder
  <2>6. task \notin Task
    BY <1>2, Plans
  <2> QED BY <1>2, <2>1, <2>2, <2>3, <2>4, <2>5, <2>6
<1>3. CASE task \in Task
  <2>1. step \in DOMAIN Script(task) /\ task > 0
    BY <1>3, Plans DEF Typed
  <2>2. /\ Doing \in Name
        /\ Doing = "ack" <=> step = Len(Script(task))
        /\ Doing = "intent" => Passed(task, "bind")
        /\ Doing = "observe" => /\ task \in Launch
                                /\ Passed(task, "intent") /\ Passed(task, "preparation")
        /\ Doing = "verdict" => Passed(task, "observe")
        /\ Doing \in {"bind", "observe", "intent"} => ~Passed(task, Doing)
    BY <1>3, <2>1, Order DEF Doing, Passed
  <2>3. Doing # "sidecar" /\ Doing \notin {"spawn_identity", "package_summary"}
    BY <2>2 DEF Name
  <2>4. Doing \in Quiet => Doing # "ack"
    BY DEF Quiet
  <2>5. DOMAIN Script(task) = 1 .. Len(Script(task)) /\ Len(Script(task)) \in Nat \ {0}
    BY <1>3, Order
  <2>6. Doing \in StepsOf(task)
    BY <2>1 DEF Doing, StepsOf
  <2>7. ASSUME Passed(task, "verdict") PROVE Passed(task, "observe")
    <3>1. PICK i \in 1 .. step - 1 : Script(task)[i] = "verdict"
      BY <2>1, <2>7, Plans DEF Passed, Typed
    <3>2. i \in DOMAIN Script(task)
      BY <2>1, <2>5
    <3>3. PICK j \in 1 .. i - 1 : Script(task)[j] = "observe"
      BY <1>3, <3>1, <3>2, Order
    <3>4. j \in 1 .. step - 1
      BY <2>1, <2>5
    <3> QED BY <3>3, <3>4 DEF Passed
  <2> QED BY <1>3, <2>1, <2>2, <2>3, <2>4, <2>5, <2>6, <2>7 DEF Began
<1> QED BY <1>1, <1>2, <1>3

\* Going on passes the step that was done, and no other.
LEMMA Advances ==
  ASSUME Typed, task <= Len(Plan), Advance
  PROVE  /\ Began'
         /\ \A t, d : Passed(t, d)' <=> Passed(t, d) \/ (t = task /\ d = Doing)
         /\ task' \in 0 .. Len(Plan) + 1 /\ step' \in Nat \ {0}
         /\ task' <= Len(Plan) => step' \in DOMAIN Script(task')
         /\ \/ step = Len(Script(task)) /\ task' = task + 1 /\ step' = 1
            \/ step # Len(Script(task)) /\ task' = task /\ step' = step + 1
<1> DEFINE n == Len(Script(task))
<1>1. /\ step \in 1 .. n /\ n \in Nat \ {0} /\ DOMAIN Script(task) = 1 .. n
      /\ Doing \in StepsOf(task) /\ task \in 0 .. Len(Plan) /\ Len(Plan) \in Nat
  BY Place, Plans DEF Typed
<1>2. \/ step = n /\ task' = task + 1 /\ step' = 1
      \/ step # n /\ task' = task /\ step' = step + 1
  BY DEF Advance
<1> HIDE DEF n
<1>3. task' \in 0 .. Len(Plan) + 1 /\ step' \in Nat \ {0}
  <2>1. step \in Nat \ {0} /\ task \in 0 .. Len(Plan) /\ Len(Plan) \in Nat
    BY <1>1
  <2> QED BY <1>2, <2>1
<1>4. task' <= Len(Plan) => step' \in DOMAIN Script(task')
  <2>1. CASE step # n
    <3>1. step + 1 \in 1 .. n /\ task' = task /\ step' = step + 1
      <4>1. step \in 1 .. n /\ n \in Nat
        BY <1>1
      <4> QED BY <1>2, <2>1, <4>1
    <3> QED BY <1>1, <3>1
  <2>2. CASE step = n /\ task' <= Len(Plan)
    <3>1. task' \in Task /\ step' = 1
      BY <1>1, <1>2, <2>2, Plans
    <3> QED BY <3>1, Order
  <2> QED BY <2>1, <2>2
<1>5. Began'
  BY <1>1, <1>2 DEF Began
<1>6. ASSUME NEW t, NEW d PROVE Passed(t, d)' <=> Passed(t, d) \/ (t = task /\ d = Doing)
  <2>1. CASE step # n
    <3>1. \A i \in 1 .. step' - 1 : i \in 1 .. step - 1 \/ i = step
      BY <1>1, <1>2, <2>1
    <3>2. \A i : i \in 1 .. step - 1 \/ i = step => i \in 1 .. step' - 1
      BY <1>1, <1>2, <2>1
    <3>3. task' = task
      BY <1>2, <2>1
    <3> QED BY <1>1, <3>1, <3>2, <3>3 DEF Passed, Doing
  <2>2. CASE step = n
    <3>1. task' = task + 1 /\ step' = 1
      BY <1>2, <2>2
    <3>2. Passed(t, d)' <=> t \in 0 .. Len(Plan) /\ t < task + 1 /\ d \in StepsOf(t)
      BY <3>1 DEF Passed
    <3>3. d \in StepsOf(task) <=> (\E i \in 1 .. step - 1 : Script(task)[i] = d) \/ d = Doing
      BY <1>1, <2>2 DEF StepsOf, Doing
    <3>4. t \in 0 .. Len(Plan) /\ t < task + 1 <=> (t \in 0 .. Len(Plan) /\ t < task) \/ t = task
      BY <1>1
    <3>5. t = task => ~(t < task)
      BY <1>1
    <3> QED BY <1>1, <3>2, <3>3, <3>4, <3>5 DEF Passed
  <2> QED BY <2>1, <2>2
<1> QED BY <1>2, <1>3, <1>4, <1>5, <1>6 DEF n

LEMMA SamePlace ==
  ASSUME UNCHANGED <<task, step>>
  PROVE  (\A t, d : Passed(t, d)' = Passed(t, d)) /\ Began' = Began
BY DEF Passed, Began

LEMMA PassedBegan ==
  ASSUME Typed, NEW t \in 0 .. Len(Plan), NEW d, Passed(t, d)
  PROVE  Began /\ t <= task
BY Plans DEF Typed, Passed, Began

-----------------------------------------------------------------------------
\* What keeps each part of the invariant where the worker does not go on.
LEMMA KeepsBlank ==
  ASSUME Blank, UNCHANGED <<task, step>>, stable \subseteq stable',
         Sidecar \notin stable' => stable' = stable /\ torn' \subseteq torn \cup {Sidecar},
         \A l \in Launch : Fresh(l) => Fresh(l)'
  PROVE  Blank'
BY SamePlace DEF Blank, Sidecar

LEMMA KeepsOnDisk ==
  ASSUME OnDisk, UNCHANGED <<task, step>>, stable \subseteq stable',
         \A t \in Task : Exists(<<t, "intent">>)' => Exists(<<t, "intent">>) \/ Passed(t, "bind")
  PROVE  OnDisk'
<1>1. (\A t, d : Passed(t, d)' = Passed(t, d)) /\ Began' = Began
  BY SamePlace
<1>2. (\A t \in 0 .. Len(Plan) : \A d \in StepsOf(t) \ Quiet : Passed(t, d) => <<t, d>> \in stable)'
  BY <1>1 DEF OnDisk
<1>3. (Began => \A t \in Task : Exists(<<t, "intent">>) => Passed(t, "bind"))'
  BY <1>1 DEF OnDisk
<1> QED BY <1>2, <1>3 DEF OnDisk

LEMMA KeepsBooks ==
  ASSUME Books, UNCHANGED <<task, step, debited, active, committed>>, stable \subseteq stable'
  PROVE  Books'
<1>1. \A t, d : Passed(t, d)' = Passed(t, d)
  BY SamePlace
<1>2. Debits' = Debits
  BY DEF Debits
<1> QED BY <1>1, <1>2 DEF Books

LEMMA KeepsTrees ==
  ASSUME Trees, UNCHANGED <<task, step, tree, launches>>, stable \subseteq stable',
         alive' => alive
  PROVE  Trees'
<1>1. (\A t, d : Passed(t, d)' = Passed(t, d)) /\ Began' = Began
  BY SamePlace
<1>2. Started' = Started /\ (\A l : Resting(l)' = Resting(l)) /\ (\A l : Fresh(l)' = Fresh(l))
      /\ (\A l : Alive(l)' = Alive(l))
  BY DEF Started, Resting, Fresh, Alive
<1>3. OneTree'
  BY <1>2 DEF Trees, OneTree
<1> QED BY <1>1, <1>2, <1>3 DEF Trees

LEMMA KeepsObserving ==
  ASSUME Observing, UNCHANGED <<task, step, at, current, seen, alive, failed, summary>>,
         stable \subseteq stable',
         \A l \in Launch : (Fresh(l) => Fresh(l)') /\ (Resting(l) => Resting(l)')
  PROVE  Observing'
<1>1. (\A t, d : Passed(t, d)' = Passed(t, d)) /\ Began' = Began
  BY SamePlace
<1>2. Doing' = Doing /\ Watching' = Watching
  BY <1>1 DEF Doing, Watching
<1>3. (alive /\ Began /\ task \in Launch /\ ~Passed(task, "observe") /\ at \in {"idle", "prelaunch", "popen"} =>
       Fresh(task))'
  BY <1>1 DEF Observing
<1>4. (alive /\ Watching /\ seen.persisted => <<task, "spawn_identity">> \in stable)'
  BY <1>2 DEF Observing
<1>5. (alive /\ Watching /\ seen.cleaned /\ seen.handle => Resting(task))'
  BY <1>2 DEF Observing, Watching
<1>6. (at # "idle" => /\ alive /\ ~failed /\ task \in Launch /\ Doing = "observe"
                     /\ current = task /\ summary = NoSummary)'
  BY <1>2 DEF Observing, NoSummary
<1> QED BY <1>3, <1>4, <1>5, <1>6 DEF Observing

\* A worker that is not alive, or observes nothing, after this.
LEMMA IdleObserving ==
  ASSUME Observing, at' = "idle",
         UNCHANGED <<task, step, seen, tree>>, at = "idle", alive' => alive,
         stable \subseteq stable'
  PROVE  Observing'
<1>1. (\A t, d : Passed(t, d)' = Passed(t, d)) /\ Began' = Began
  BY SamePlace
<1>2. Watching' = Watching /\ (\A l : Resting(l)' = Resting(l)) /\ (\A l : Fresh(l)' = Fresh(l))
  BY <1>1 DEF Watching, Resting, Fresh
<1> QED BY <1>1, <1>2 DEF Observing

LEMMA KeepsReports ==
  ASSUME Reports, UNCHANGED <<task, step, summary, debited, committed, active, published>>,
         failed => failed', alive' => alive, stable \subseteq stable',
         SummaryFile \in stable' => SummaryFile \in stable,
         \A t \in Task : Exists(<<t, "intent">>)' => Exists(<<t, "intent">>) \/ SummaryFile \notin stable
  PROVE  Reports'
<1>1. Began' = Began
  BY SamePlace
<1>2. (summary # NoSummary =>
       /\ failed \/ task > Len(Plan)
       /\ summary.status \in {"stopped", "collected"}
       /\ summary.debited = debited /\ summary.completed = committed
       /\ summary.named \subseteq active
       /\ summary.status = "collected" => task > Len(Plan))'
  BY DEF Reports, NoSummary
<1>3. (SummaryFile \in stable => ~alive \/ ~Began)'
  BY <1>1 DEF Reports, SummaryFile
<1>4. ASSUME SummaryFile \in stable' PROVE Reports'
  <2>1. SummaryFile \in stable
    BY <1>4
  <2>2. /\ published.status = "collected" => published.completed = Task
        /\ published.completed \subseteq Task
        /\ \A t \in published.completed : FilesOf(t) \subseteq stable
        /\ \A t \in published.named : /\ t \notin published.completed
                                      /\ <<t, IF t = 0 THEN "sidecar" ELSE "intent">> \in stable
    BY <2>1 DEF Reports
  <2>3. PICK n \in 0 .. Len(Plan) :
            /\ published.debited["TESSENT"] + published.debited["TRANSLATION"] = n
            /\ \A t \in Task : /\ Exists(<<t, "intent">>) => t <= n
                               /\ t < n => <<t, "intent">> \in stable
    BY <2>1 DEF Reports
  <2>4. \A t \in Task : Exists(<<t, "intent">>)' => t <= n
    BY <2>1, <2>3
  <2>5. \A t \in Task : t < n => <<t, "intent">> \in stable'
    BY <2>3
  <2>6. (\E k \in 0 .. Len(Plan) :
            /\ published.debited["TESSENT"] + published.debited["TRANSLATION"] = k
            /\ \A t \in Task : /\ Exists(<<t, "intent">>) => t <= k
                               /\ t < k => <<t, "intent">> \in stable)'
    BY <2>3, <2>4, <2>5
  <2>7. (\A t \in published.completed : FilesOf(t) \subseteq stable)'
    BY <2>2
  <2>8. (\A t \in published.named : /\ t \notin published.completed
                                    /\ <<t, IF t = 0 THEN "sidecar" ELSE "intent">> \in stable)'
    BY <2>2
  <2> HIDE DEF SummaryFile
  <2> QED BY <1>2, <1>3, <2>2, <2>6, <2>7, <2>8 DEF Reports
<1> QED BY <1>2, <1>3, <1>4 DEF Reports

\* A running process past the sidecar, or about to publish it.
LEMMA Undisturbed ==
  ASSUME IInv, alive, ~failed, task <= Len(Plan)
  PROVE  /\ summary = NoSummary
         /\ Began => Sidecar \in stable /\ SummaryFile \notin stable
         /\ ~Began /\ ~Exists(Sidecar) => stable = {} /\ \A l \in Launch : Fresh(l)
<1>1. ~(task > Len(Plan))
  BY Plans DEF IInv, Typed
<1>2. summary = NoSummary
  BY <1>1 DEF IInv, Reports
<1> QED BY <1>2 DEF IInv, Reports, Blank, Exists

\* One file may be created or torn, by a worker that stays where it is.
LEMMA FileKeeps ==
  ASSUME IInv, UNCHANGED <<task, step, tree, launches, summary, published>>,
         UNCHANGED <<debited, active, committed>>, failed => failed', alive' => alive,
         NEW f, Breaks(f), f # SummaryFile,
         \A t \in Task : f = <<t, "intent">> => Passed(t, "bind") /\ SummaryFile \notin stable,
         f # Sidecar => Sidecar \in stable
  PROVE  Blank' /\ OnDisk' /\ Books' /\ Trees' /\ Reports'
<1>1. stable \subseteq stable' /\ stable' \subseteq stable \cup {f}
      /\ torn' \subseteq torn \cup {f}
  BY DEF Breaks, Create
<1>2. Sidecar \notin stable' => stable' = stable /\ torn' \subseteq torn \cup {Sidecar}
  BY <1>1
<1>3. \A l \in Launch : Fresh(l) => Fresh(l)'
  BY DEF Fresh
<1>4. \A t \in Task : Exists(<<t, "intent">>)' =>
        Exists(<<t, "intent">>) \/ (Passed(t, "bind") /\ SummaryFile \notin stable)
  <2> SUFFICES ASSUME NEW t \in Task, <<t, "intent">> \in torn' \cup stable',
                      <<t, "intent">> \notin torn \cup stable
               PROVE  f = <<t, "intent">>
    BY DEF Exists
  <2> QED BY <1>1
<1>5. Blank'
  BY <1>1, <1>2, <1>3, KeepsBlank DEF IInv
<1>6. OnDisk'
  BY <1>1, <1>4, KeepsOnDisk DEF IInv
<1>7. Books'
  BY <1>1, KeepsBooks DEF IInv
<1>8. Trees'
  BY <1>1, KeepsTrees DEF IInv
<1>9. SummaryFile \in stable' => SummaryFile \in stable
  BY <1>1
<1>10. Reports'
  BY <1>1, <1>4, <1>9, KeepsReports DEF IInv
<1> QED BY <1>5, <1>6, <1>7, <1>8, <1>10

\* None is.
LEMMA NoFileKeeps ==
  ASSUME IInv, UNCHANGED <<task, step, tree, launches, summary, published>>,
         UNCHANGED <<debited, active, committed>>, failed => failed', alive' => alive,
         UNCHANGED <<torn, stable>>
  PROVE  Blank' /\ OnDisk' /\ Books' /\ Trees' /\ Reports'
<1>1. \A l \in Launch : Fresh(l) => Fresh(l)'
  BY DEF Fresh
<1>2. \A t \in Task : Exists(<<t, "intent">>)' => Exists(<<t, "intent">>)
  BY DEF Exists
<1>3. Blank'
  BY <1>1, KeepsBlank DEF IInv
<1>4. OnDisk'
  BY <1>2, KeepsOnDisk DEF IInv
<1>5. Books'
  BY KeepsBooks DEF IInv
<1>6. Trees'
  BY KeepsTrees DEF IInv
<1>7. Reports'
  BY <1>2, KeepsReports DEF IInv, SummaryFile
<1> QED BY <1>3, <1>4, <1>5, <1>6, <1>7

-----------------------------------------------------------------------------
\* The first step that raises, and what it may leave of its file.
LEMMA OwnFile ==
  ASSUME IInv, Running
  PROVE  /\ File # SummaryFile
         /\ \A t \in Task : File = <<t, "intent">> => Passed(t, "bind") /\ SummaryFile \notin stable
         /\ File # Sidecar => Sidecar \in stable
         /\ File = Sidecar <=> ~Began
<1>1. alive /\ ~failed /\ task <= Len(Plan)
  BY DEF Running
<1>2. /\ Doing = "sidecar" <=> ~Began
      /\ Doing \notin {"spawn_identity", "package_summary"}
      /\ Doing = "intent" => Passed(task, "bind") /\ task \in Task
      /\ task = 0 \/ task \in Task
  BY <1>1, Place DEF IInv
<1>3. Began => Sidecar \in stable /\ SummaryFile \notin stable
  BY <1>1, Undisturbed
<1>4. File = Sidecar <=> ~Began
  BY <1>2, Plans DEF File, Sidecar, Began
<1>5. File # SummaryFile
  BY <1>2 DEF File, SummaryFile
<1>6. ASSUME NEW t \in Task, File = <<t, "intent">>
      PROVE  Passed(t, "bind") /\ SummaryFile \notin stable
  BY <1>2, <1>3, <1>6 DEF File
<1> QED BY <1>3, <1>4, <1>5, <1>6

LEMMA FailKeeps ==
  ASSUME IInv, Fail, IF Doing \in Quiet THEN UNCHANGED disk ELSE Breaks(File)
  PROVE  IInv'
<1>1. /\ Running /\ at = "idle" /\ failed' = TRUE
      /\ UNCHANGED <<clock, tree, launches, current, at, seen>>
      /\ UNCHANGED <<boot, life, alive, task, step, summary, published>>
      /\ UNCHANGED <<debited, active, prepared, committed>>
  BY DEF Fail, launchVars, memory
<1>2. stable \subseteq stable'
  BY DEF disk, Breaks, Create
<1>3. Blank' /\ OnDisk' /\ Books' /\ Trees' /\ Reports'
  <2>1. CASE UNCHANGED <<torn, stable>>
    BY <1>1, <2>1, NoFileKeeps
  <2>2. CASE Breaks(File)
    BY <1>1, <2>2, OwnFile, FileKeeps
  <2> QED BY <2>1, <2>2 DEF disk
<1>4. Typed'
  BY <1>1 DEF IInv, Typed
<1>5. Observing'
  BY <1>1, <1>2, IdleObserving DEF IInv
<1> QED BY <1>3, <1>4, <1>5 DEF IInv

LEMMA RefusedKeeps == IInv /\ Refused => IInv'
<1> SUFFICES ASSUME IInv, Refused PROVE IInv'
  OBVIOUS
<1>1. Fail /\ UNCHANGED disk
  BY DEF Refused
<1>2. IF Doing \in Quiet THEN UNCHANGED disk ELSE Breaks(File)
  BY <1>1 DEF disk, Breaks
<1> QED BY <1>1, <1>2, FailKeeps

LEMMA BrokenKeeps == IInv /\ Broken => IInv'
BY FailKeeps DEF Broken

\* Where the worker is while it observes.
LEMMA InLaunch ==
  ASSUME IInv, at # "idle"
  PROVE  /\ alive /\ ~failed /\ task \in Launch /\ task \in Task /\ task <= Len(Plan)
         /\ task # 0 /\ Doing = "observe" /\ current = task /\ summary = NoSummary /\ Began
         /\ Sidecar \in stable /\ SummaryFile \notin stable
         /\ <<task, "intent">> \in stable /\ <<task, "preparation">> \in stable
         /\ ~Passed(task, "observe") /\ ~Passed(task, "verdict") /\ Watching
<1>1. /\ alive /\ ~failed /\ task \in Launch /\ Doing = "observe" /\ current = task
      /\ summary = NoSummary
  BY DEF IInv, Observing
<1>2. task \in Task /\ task <= Len(Plan) /\ task # 0 /\ Began /\ task \in 0 .. Len(Plan)
  BY <1>1, Plans DEF Began
<1>3. Sidecar \in stable /\ SummaryFile \notin stable
  BY <1>1, <1>2, Undisturbed
<1>4. /\ Passed(task, "intent") /\ Passed(task, "preparation")
      /\ ~Passed(task, "observe") /\ ~Passed(task, "verdict")
  BY <1>1, <1>2, Place DEF IInv
<1>5. /\ "intent" \in StepsOf(task) \ Quiet /\ "preparation" \in StepsOf(task) \ Quiet
  BY <1>1, <1>2, Order DEF Quiet
<1>6. <<task, "intent">> \in stable /\ <<task, "preparation">> \in stable
  BY <1>2, <1>4, <1>5 DEF IInv, OnDisk
<1> QED BY <1>1, <1>2, <1>3, <1>4, <1>6 DEF Watching

\* A step of the observation that leaves the processes alone: what it must
\* show of the observation.
LEMMA WatchKeeps ==
  ASSUME IInv, at # "idle", UNCHANGED <<tree, launches, current, task, step, others>>,
         stable \subseteq stable',
         at' \in {"prelaunch", "popen", "identity", "callback", "loop", "kill",
                  "check", "leftover", "close", "done"},
         seen' \in [attempted : BOOLEAN, handle : BOOLEAN, identity : BOOLEAN, persisted : BOOLEAN,
                    failure : BOOLEAN, cleaned : BOOLEAN, rc : {"none", "zero", "bad"}],
         at' \in {"prelaunch", "popen", "leftover"} => ~seen'.handle,
         at' \notin {"close", "done"} => ~seen'.cleaned,
         at' \in {"prelaunch", "popen"} => Fresh(task),
         seen'.persisted => <<task, "spawn_identity">> \in stable',
         seen'.cleaned /\ seen'.handle => Resting(task)
  PROVE  Typed' /\ Observing'
<1>1. /\ UNCHANGED <<alive, failed, summary, current, tree, launches, task, step>>
      /\ UNCHANGED <<debited, committed, active>>
  BY DEF others, memory
<1>2. /\ alive /\ ~failed /\ task \in Launch /\ Doing = "observe" /\ current = task
      /\ summary = NoSummary
  BY InLaunch
<1>3. Doing' = Doing /\ Fresh(task)' = Fresh(task) /\ Resting(task)' = Resting(task)
  BY <1>1 DEF Doing, Fresh, Resting
<1>4. Typed'
  BY <1>1 DEF IInv, Typed
<1>5. Observing'
  BY <1>1, <1>2, <1>3 DEF Observing, NoSummary
<1> QED BY <1>4, <1>5

LEMMA OnSpawnKeeps == IInv /\ OnSpawn => IInv'
<1> SUFFICES ASSUME IInv, OnSpawn PROVE IInv'
  OBVIOUS
<1>1. /\ at = "callback" /\ at' = "loop" /\ seen' = [seen EXCEPT !["persisted"] = TRUE]
      /\ Create(Identity) /\ UNCHANGED <<clock, tree, launches, current, task, step, others>>
  BY DEF OnSpawn, Acknowledged, Goto, See
<1>2. /\ UNCHANGED <<alive, failed, summary, published>> /\ UNCHANGED <<debited, committed, active>>
  BY <1>1 DEF others, memory
<1>3. ~seen.cleaned
  BY <1>1 DEF IInv, Observing
<1>4. /\ seen' \in [attempted : BOOLEAN, handle : BOOLEAN, identity : BOOLEAN, persisted : BOOLEAN,
                    failure : BOOLEAN, cleaned : BOOLEAN, rc : {"none", "zero", "bad"}]
      /\ ~seen'.cleaned
  BY <1>1, <1>3 DEF IInv, Typed
<1>5. stable \subseteq stable' /\ <<task, "spawn_identity">> \in stable'
  BY <1>1 DEF Create, Identity
<1>6. Typed' /\ Observing'
  BY <1>1, <1>4, <1>5, WatchKeeps
<1>7. Identity # SummaryFile /\ (\A t \in Task : Identity # <<t, "intent">>) /\ Sidecar \in stable
  BY <1>1, InLaunch DEF Identity, SummaryFile
<1>8. Breaks(Identity)
  BY <1>1 DEF Breaks
<1>9. Blank' /\ OnDisk' /\ Books' /\ Trees' /\ Reports'
  BY <1>1, <1>2, <1>7, <1>8, FileKeeps
<1> QED BY <1>6, <1>9 DEF IInv

LEMMA WatchRaisesKeeps == IInv /\ WatchRaises => IInv'
<1> SUFFICES ASSUME IInv, WatchRaises PROVE IInv'
  OBVIOUS
<1>1. /\ Raises \/ CleanupEnds
      /\ IF at = "callback" THEN Breaks(Identity) ELSE UNCHANGED disk
      /\ UNCHANGED <<task, step, others>>
  BY DEF WatchRaises
<1>2. /\ UNCHANGED <<clock, tree, launches, current>> /\ at # "idle"
      /\ at' \in {"leftover", "kill", "close"} /\ ~seen.cleaned
      /\ seen' = [seen EXCEPT !["failure"] = TRUE] \/ seen' = seen
      /\ at' = "leftover" => at = "prelaunch"
  BY <1>1 DEF Raises, CleanupEnds, See, IInv, Observing
<1>3. /\ UNCHANGED <<alive, failed, summary, published>> /\ UNCHANGED <<debited, committed, active>>
  BY <1>1 DEF others, memory
<1>4. /\ seen' \in [attempted : BOOLEAN, handle : BOOLEAN, identity : BOOLEAN, persisted : BOOLEAN,
                    failure : BOOLEAN, cleaned : BOOLEAN, rc : {"none", "zero", "bad"}]
      /\ ~seen'.cleaned /\ seen'.handle = seen.handle /\ seen'.persisted = seen.persisted
  BY <1>2 DEF IInv, Typed
<1>5. stable \subseteq stable'
  BY <1>1 DEF Breaks, Create, disk
<1>6. at' = "leftover" => ~seen.handle
  BY <1>2 DEF IInv, Observing
<1>7. seen.persisted => <<task, "spawn_identity">> \in stable
  BY <1>2, InLaunch DEF IInv, Observing
<1>8. Typed' /\ Observing'
  BY <1>1, <1>2, <1>4, <1>5, <1>6, <1>7, WatchKeeps
<1>9. Identity # SummaryFile /\ (\A t \in Task : Identity # <<t, "intent">>) /\ Sidecar \in stable
  BY <1>2, InLaunch DEF Identity, SummaryFile
<1>10. Blank' /\ OnDisk' /\ Books' /\ Trees' /\ Reports'
  <2>1. CASE Breaks(Identity)
    BY <1>1, <1>2, <1>3, <1>9, <2>1, FileKeeps
  <2>2. CASE UNCHANGED disk
    BY <1>1, <1>2, <1>3, <2>2, NoFileKeeps DEF disk
  <2> QED BY <1>1, <2>1, <2>2
<1> QED BY <1>8, <1>10 DEF IInv

LEMMA ObserveKeeps == IInv /\ Observe => IInv'
<1> SUFFICES ASSUME IInv, Observe PROVE IInv'
  OBVIOUS
<1>1. /\ Running /\ Doing = "observe" /\ at = "idle" /\ at' = "prelaunch" /\ current' = task
      /\ seen' = NotSeen /\ UNCHANGED <<clock, tree, launches, torn, stable, task, step, others>>
  BY DEF Observe, Enter, Goto, disk
<1>2. /\ UNCHANGED <<alive, failed, summary, published>> /\ UNCHANGED <<debited, committed, active>>
  BY <1>1 DEF others, memory
<1>3. alive /\ ~failed /\ task <= Len(Plan)
  BY <1>1 DEF Running
<1>4. task \in Launch /\ task \in Task /\ ~Passed(task, "observe") /\ task # 0 /\ Began
  BY <1>1, <1>3, Place, Plans DEF IInv, Began
<1>5. summary = NoSummary
  BY <1>3, Undisturbed
<1>6. Fresh(task)
  BY <1>1, <1>3, <1>4 DEF IInv, Observing
<1>7. Doing' = Doing /\ Fresh(task)' = Fresh(task)
  BY <1>1 DEF Doing, Fresh
<1>8. Blank' /\ OnDisk' /\ Books' /\ Trees' /\ Reports'
  BY <1>1, <1>2, NoFileKeeps
<1>9. Typed'
  BY <1>1, <1>2, <1>4 DEF IInv, Typed, NotSeen
<1>10. Observing'
  BY <1>1, <1>2, <1>3, <1>4, <1>5, <1>6, <1>7 DEF Observing, NotSeen, NoSummary
<1> QED BY <1>8, <1>9, <1>10 DEF IInv

\* The observer's steps that leave the processes alone.
LEMMA QuietObserverKeeps ==
  ASSUME IInv, Watch,
         Prelaunch \/ Identify \/ Raises \/ CleanupEnds \/ Leftover \/ Return
  PROVE  IInv'
<1>1. UNCHANGED <<torn, stable, task, step, others>> /\ UNCHANGED <<tree, launches, current>>
  BY DEF Watch, disk, Prelaunch, Identify, Raises, CleanupEnds, Leftover, Return
<1>2. /\ UNCHANGED <<alive, failed, summary, published>> /\ UNCHANGED <<debited, committed, active>>
  BY <1>1 DEF others, memory
<1>3. at # "idle"
  BY DEF Prelaunch, Identify, Raises, CleanupEnds, Leftover, Return, Goto
<1>4. Blank' /\ OnDisk' /\ Books' /\ Trees' /\ Reports'
  BY <1>1, <1>2, NoFileKeeps
<1>5. /\ seen.persisted => <<task, "spawn_identity">> \in stable
      /\ seen.cleaned /\ seen.handle => Resting(task)
      /\ at \in {"prelaunch", "popen"} => Fresh(task)
      /\ at \in {"prelaunch", "popen", "leftover"} => ~seen.handle
      /\ at \notin {"idle", "close", "done"} => ~seen.cleaned
  BY <1>3, InLaunch DEF IInv, Observing
<1>6. seen \in [attempted : BOOLEAN, handle : BOOLEAN, identity : BOOLEAN, persisted : BOOLEAN,
                failure : BOOLEAN, cleaned : BOOLEAN, rc : {"none", "zero", "bad"}]
  BY DEF IInv, Typed
<1>7. Typed' /\ Observing'
  <2>1. CASE Prelaunch
    BY <1>1, <1>3, <1>5, <1>6, <2>1, WatchKeeps DEF Prelaunch, Goto
  <2>2. CASE Identify
    BY <1>1, <1>3, <1>5, <1>6, <2>2, WatchKeeps DEF Identify, Goto, See
  <2>3. CASE Raises
    BY <1>1, <1>3, <1>5, <1>6, <2>3, WatchKeeps DEF Raises, See
  <2>4. CASE CleanupEnds
    BY <1>1, <1>3, <1>5, <1>6, <2>4, WatchKeeps DEF CleanupEnds
  <2>5. CASE Leftover
    <3>1. at = "leftover" /\ at' = "close"
      BY <2>5 DEF Leftover, Goto
    <3>2. PICK clean \in {FALSE, \A l \in Launch : ~DirectChild(l)} :
            seen' = [seen EXCEPT !["cleaned"] = clean]
      BY <2>5 DEF Leftover, See
    <3>3. clean \in BOOLEAN
      BY <3>2
    <3>4. /\ seen' \in [attempted : BOOLEAN, handle : BOOLEAN, identity : BOOLEAN, persisted : BOOLEAN,
                        failure : BOOLEAN, cleaned : BOOLEAN, rc : {"none", "zero", "bad"}]
          /\ seen'.handle = seen.handle /\ seen'.persisted = seen.persisted
      BY <1>6, <3>2, <3>3
    <3> QED BY <1>1, <1>3, <1>5, <3>1, <3>4, WatchKeeps
  <2>6. CASE Return
    <3>1. at = "close" /\ at' = "done"
      BY <2>6 DEF Return, Goto
    <3>2. PICK clean \in {seen.cleaned, seen.cleaned /\ ~seen.handle} :
            seen' = [seen EXCEPT !.cleaned = clean, !.failure = @ \/ ~clean]
      BY <2>6 DEF Return
    <3>3. clean \in BOOLEAN /\ (clean => seen.cleaned)
      BY <1>6, <3>2
    <3>4. /\ seen' \in [attempted : BOOLEAN, handle : BOOLEAN, identity : BOOLEAN, persisted : BOOLEAN,
                        failure : BOOLEAN, cleaned : BOOLEAN, rc : {"none", "zero", "bad"}]
          /\ seen'.handle = seen.handle /\ seen'.persisted = seen.persisted /\ seen'.cleaned = clean
      BY <1>6, <3>2, <3>3
    <3> QED BY <1>1, <1>3, <1>5, <3>1, <3>3, <3>4, WatchKeeps
  <2> QED BY <2>1, <2>2, <2>3, <2>4, <2>5, <2>6
<1> QED BY <1>4, <1>7 DEF IInv

\* While one launch is observed no process of another is left.
LEMMA Alone ==
  ASSUME IInv, at # "idle", NEW l \in Launch, l # task
  PROVE  ~Alive(l)
<1>1. l \in Task /\ task \in Task /\ alive /\ Began /\ task <= Len(Plan)
  BY InLaunch, Plans
<1>2. CASE l > task
  <2>1. Fresh(l)
    BY <1>1, <1>2 DEF IInv, Trees
  <2> QED BY <2>1 DEF Fresh, Alive
<1>3. CASE l < task
  <2>1. "verdict" \in StepsOf(l) /\ l \in 0 .. Len(Plan)
    BY <1>1, Order, Plans
  <2>2. Passed(l, "verdict")
    BY <1>3, <2>1 DEF Passed
  <2>3. Resting(l)
    BY <2>2 DEF IInv, Trees
  <2> QED BY <2>3 DEF Resting, Alive
<1> QED BY <1>1, <1>2, <1>3, Plans

\* A step of the observation on the processes of its own launch.
LEMMA TreeKeeps ==
  ASSUME IInv, at # "idle", UNCHANGED <<torn, stable, task, step, others>>,
         NEW r \in [leader : Leader, kid : Kid], tree' = [tree EXCEPT ![task] = r],
         r.leader # "none", r.kid # "orphan", r.kid = "child" => r.leader = "live",
         launches' = Cardinality(Started')
  PROVE  Blank' /\ OnDisk' /\ Books' /\ Trees' /\ Reports'
<1>1. /\ UNCHANGED <<alive, failed, summary, published>> /\ UNCHANGED <<debited, committed, active>>
  BY DEF others, memory
<1>2. /\ task \in Launch /\ task \in Task /\ Began /\ alive /\ Sidecar \in stable
      /\ <<task, "intent">> \in stable /\ <<task, "preparation">> \in stable
      /\ ~Passed(task, "verdict")
  BY InLaunch
<1>3. /\ tree \in [Launch -> [leader : Leader, kid : Kid]]
      /\ tree'[task] = r /\ \A l \in Launch : l # task => tree'[l] = tree[l]
  BY <1>2 DEF IInv, Typed
<1>4. (\A t, d : Passed(t, d)' = Passed(t, d)) /\ Began' = Began
  BY SamePlace
<1>5. Blank'
  BY <1>2 DEF Blank
<1>6. OnDisk'
  BY KeepsOnDisk DEF IInv, Exists
<1>7. Books'
  BY <1>1, KeepsBooks DEF IInv
<1>8. Reports'
  BY <1>1, KeepsReports DEF IInv, Exists, SummaryFile
<1>9. Trees'
  <2>1. (\A l \in Launch : /\ tree[l].leader = "none" => tree[l].kid = "none"
                           /\ tree[l].kid = "child" => tree[l].leader = "live"
                           /\ alive /\ Began => tree[l].kid # "orphan")'
    BY <1>1, <1>3, <1>4 DEF IInv, Trees
  <2>2. (\A l \in Started : {Sidecar, <<l, "intent">>, <<l, "preparation">>} \subseteq stable)'
    BY <1>2, <1>3 DEF IInv, Trees, Started, Sidecar
  <2>3. OneTree'
    <3>1. \A l \in Launch : l # task => ~Alive(l)
      BY Alone
    <3>2. \A l \in Launch : l # task => Alive(l)' = Alive(l)
      BY <1>3 DEF Alive
    <3> QED BY <1>2, <3>1, <3>2 DEF OneTree
  <2>4. (\A l \in Launch :
           /\ Passed(l, "verdict") => Resting(l) /\ <<l, "spawn_identity">> \in stable
           /\ alive /\ Began /\ l > task => Fresh(l))'
    <3> SUFFICES ASSUME NEW l \in Launch
                 PROVE  (/\ Passed(l, "verdict") => Resting(l) /\ <<l, "spawn_identity">> \in stable
                         /\ alive /\ Began /\ l > task => Fresh(l))'
      OBVIOUS
    <3>1. CASE l = task
      BY <1>2, <1>4, <3>1, Plans
    <3>2. CASE l # task
      <4>1. Resting(l)' = Resting(l) /\ Fresh(l)' = Fresh(l)
        BY <1>3, <3>2 DEF Resting, Fresh
      <4> QED BY <1>1, <1>4, <4>1 DEF IInv, Trees
    <3> QED BY <3>1, <3>2
  <2> QED BY <2>1, <2>2, <2>3, <2>4 DEF Trees
<1> QED BY <1>5, <1>6, <1>7, <1>8, <1>9

\* The observation, where the launch has been started.
LEMMA StartedObserving ==
  ASSUME IInv, at # "idle", UNCHANGED <<torn, stable, task, step, current, others>>,
         at' \in {"identity", "kill", "check", "leftover", "close"},
         seen' \in [attempted : BOOLEAN, handle : BOOLEAN, identity : BOOLEAN, persisted : BOOLEAN,
                    failure : BOOLEAN, cleaned : BOOLEAN, rc : {"none", "zero", "bad"}],
         seen'.persisted = seen.persisted,
         at' = "leftover" => ~seen'.handle,
         seen'.cleaned => at' = "close" /\ Resting(task)',
         tree' \in [Launch -> [leader : Leader, kid : Kid]], launches' \in Nat
  PROVE  Typed' /\ Observing'
<1>1. /\ UNCHANGED <<alive, failed, summary, published>> /\ UNCHANGED <<debited, committed, active>>
  BY DEF others, memory
<1>2. /\ alive /\ ~failed /\ task \in Launch /\ Doing = "observe" /\ current = task
      /\ summary = NoSummary /\ Watching
  BY InLaunch
<1>3. Typed'
  BY <1>1 DEF IInv, Typed
<1>4. Doing' = Doing
  BY DEF Doing
<1>5. seen.persisted => <<task, "spawn_identity">> \in stable
  BY <1>2 DEF IInv, Observing
<1>6. (alive /\ Watching /\ seen.persisted => <<task, "spawn_identity">> \in stable)'
  BY <1>5
<1>7. (alive /\ Watching /\ seen.cleaned /\ seen.handle => Resting(task))'
  OBVIOUS
<1>8. (at # "idle" => /\ alive /\ ~failed /\ task \in Launch /\ Doing = "observe"
                     /\ current = task /\ summary = NoSummary)'
  BY <1>1, <1>2, <1>4 DEF NoSummary
<1>9. (/\ at \in {"prelaunch", "popen", "leftover"} => ~seen.handle
       /\ at \notin {"idle", "close", "done"} => ~seen.cleaned
       /\ at \notin {"idle", "prelaunch", "popen"})'
  OBVIOUS
<1> QED BY <1>3, <1>6, <1>7, <1>8, <1>9 DEF Observing

LEMMA PopenKeeps == IInv /\ Watch /\ Popen => IInv'
<1> SUFFICES ASSUME IInv, Watch, Popen PROVE IInv'
  OBVIOUS
<1>1. at = "popen" /\ UNCHANGED <<torn, stable, task, step, current, others>>
  BY DEF Popen, Watch, disk
<1>2. PICK started \in BOOLEAN, handle \in BOOLEAN :
       /\ handle => started
       /\ at' = IF handle THEN "identity" ELSE "leftover"
       /\ seen' = [seen EXCEPT !.attempted = TRUE, !.handle = handle,
                               !.failure = ~handle]
       /\ launches' = launches + (IF started THEN 1 ELSE 0)
       /\ tree' = IF started
                    THEN [tree EXCEPT ![current] = [NoTree EXCEPT !.leader = "live"]]
                    ELSE tree
  BY DEF Popen
<1>3. current = task /\ task \in Launch /\ task \in Task
  BY <1>1, InLaunch
<1>4. Fresh(task) /\ ~seen.cleaned
  BY <1>1, InLaunch DEF IInv, Observing
<1>5. tree \in [Launch -> [leader : Leader, kid : Kid]] /\ launches \in Nat
      /\ seen \in [attempted : BOOLEAN, handle : BOOLEAN, identity : BOOLEAN, persisted : BOOLEAN,
                   failure : BOOLEAN, cleaned : BOOLEAN, rc : {"none", "zero", "bad"}]
  BY DEF IInv, Typed
<1>6. /\ seen' \in [attempted : BOOLEAN, handle : BOOLEAN, identity : BOOLEAN, persisted : BOOLEAN,
                    failure : BOOLEAN, cleaned : BOOLEAN, rc : {"none", "zero", "bad"}]
      /\ seen'.persisted = seen.persisted /\ seen'.handle = handle /\ ~seen'.cleaned
  BY <1>2, <1>4, <1>5
<1>7. /\ tree' \in [Launch -> [leader : Leader, kid : Kid]] /\ launches' \in Nat
  BY <1>2, <1>3, <1>5 DEF NoTree, Leader, Kid
<1>8. Typed' /\ Observing'
  BY <1>1, <1>2, <1>6, <1>7, StartedObserving
<1>9. CASE started
  <2> DEFINE r == [NoTree EXCEPT !.leader = "live"]
  <2>1. /\ r \in [leader : Leader, kid : Kid] /\ r.leader = "live" /\ r.kid = "none"
        /\ tree' = [tree EXCEPT ![task] = r]
    BY <1>2, <1>3, <1>9 DEF NoTree, Leader, Kid
  <2> HIDE DEF r
  <2>2. task \notin Started
    BY <1>4 DEF Started, Fresh
  <2>3. Started' = Started \cup {task}
    BY <1>3, <1>5, <2>1 DEF Started
  <2>4. IsFiniteSet(Started)
    <3>1. Started \in SUBSET Launch
      BY DEF Started
    <3> QED BY <3>1, Plans, FS_Subset
  <2>5. launches = Cardinality(Started)
    BY DEF IInv, Trees
  <2>6. Cardinality(Started \cup {task}) = Cardinality(Started) + 1
    BY <2>2, <2>4, FS_AddElement
  <2>7. launches' = Cardinality(Started')
    BY <1>2, <1>9, <2>3, <2>5, <2>6
  <2>8. Blank' /\ OnDisk' /\ Books' /\ Trees' /\ Reports'
    BY <1>1, <2>1, <2>7, TreeKeeps
  <2> QED BY <1>8, <2>8 DEF IInv
<1>10. CASE ~started
  <2>1. UNCHANGED <<tree, launches>>
    BY <1>2, <1>5, <1>10
  <2>2. /\ UNCHANGED <<alive, failed, summary, published>> /\ UNCHANGED <<debited, committed, active>>
    BY <1>1 DEF others, memory
  <2>3. Blank' /\ OnDisk' /\ Books' /\ Trees' /\ Reports'
    BY <1>1, <2>1, <2>2, NoFileKeeps
  <2> QED BY <1>8, <2>3 DEF IInv
<1> QED BY <1>9, <1>10

\* A launch that was started already goes on.
LEMMA StartedKeeps ==
  ASSUME IInv, at # "idle", UNCHANGED <<torn, stable, task, step, launches, others>>,
         NEW r \in [leader : Leader, kid : Kid], tree' = [tree EXCEPT ![task] = r],
         tree[task].leader # "none",
         r.leader # "none", r.kid # "orphan", r.kid = "child" => r.leader = "live"
  PROVE  Blank' /\ OnDisk' /\ Books' /\ Trees' /\ Reports'
<1>1. task \in Launch /\ tree \in [Launch -> [leader : Leader, kid : Kid]]
  BY InLaunch DEF IInv, Typed
<1>2. Started' = Started
  BY <1>1 DEF Started
<1>3. launches' = Cardinality(Started')
  BY <1>2 DEF IInv, Trees
<1> QED BY <1>3, TreeKeeps

\* What the invariant says of the launch observed.
LEMMA OwnTree ==
  ASSUME IInv, at # "idle"
  PROVE  /\ task \in Launch /\ current = task
         /\ tree \in [Launch -> [leader : Leader, kid : Kid]]
         /\ tree[task].leader \in Leader /\ tree[task].kid \in Kid /\ tree[task].kid # "orphan"
         /\ tree[task].leader = "none" => tree[task].kid = "none"
         /\ tree[task].kid = "child" => tree[task].leader = "live"
         /\ seen \in [attempted : BOOLEAN, handle : BOOLEAN, identity : BOOLEAN, persisted : BOOLEAN,
                      failure : BOOLEAN, cleaned : BOOLEAN, rc : {"none", "zero", "bad"}]
         /\ launches \in Nat
<1>1. /\ task \in Launch /\ current = task /\ alive /\ Began
  BY InLaunch
<1> QED BY <1>1 DEF IInv, Typed, Trees

LEMMA EndsKeeps == IInv /\ Watch /\ Ends => IInv'
<1> SUFFICES ASSUME IInv, Watch, Ends PROVE IInv'
  OBVIOUS
<1>1. /\ at = "loop" /\ at' = "kill" /\ tree[task].leader \in {"zero", "bad"}
      /\ seen' = [seen EXCEPT !["rc"] = tree[task].leader]
      /\ tree' = [tree EXCEPT ![task].leader = "reaped"]
      /\ UNCHANGED <<torn, stable, task, step, launches, current, others>>
  BY OwnTree DEF Ends, Watch, disk, Goto, Exited, Reaped, See
<1>2. ~seen.cleaned
  BY <1>1 DEF IInv, Observing
<1> DEFINE r == [tree[task] EXCEPT !.leader = "reaped"]
<1>3. /\ r \in [leader : Leader, kid : Kid] /\ r.leader = "reaped" /\ r.kid = tree[task].kid
      /\ tree' = [tree EXCEPT ![task] = r]
  BY <1>1, OwnTree DEF Leader
<1> HIDE DEF r
<1>4. /\ seen' \in [attempted : BOOLEAN, handle : BOOLEAN, identity : BOOLEAN, persisted : BOOLEAN,
                    failure : BOOLEAN, cleaned : BOOLEAN, rc : {"none", "zero", "bad"}]
      /\ seen'.persisted = seen.persisted /\ ~seen'.cleaned
      /\ tree' \in [Launch -> [leader : Leader, kid : Kid]] /\ launches' \in Nat
  BY <1>1, <1>2, <1>3, OwnTree
<1>5. Typed' /\ Observing'
  BY <1>1, <1>4, StartedObserving
<1>6. Blank' /\ OnDisk' /\ Books' /\ Trees' /\ Reports'
  BY <1>1, <1>3, OwnTree, StartedKeeps
<1> QED BY <1>5, <1>6 DEF IInv

LEMMA KillKeeps == IInv /\ Watch /\ Kill => IInv'
<1> SUFFICES ASSUME IInv, Watch, Kill PROVE IInv'
  OBVIOUS
<1>1. /\ at = "kill" /\ at' = "check" /\ seen' = seen
      /\ UNCHANGED <<torn, stable, task, step, launches, current, others>>
  BY DEF Kill, Watch, disk, Goto
<1>2. PICK leader \in Leader, kid \in Kid :
       /\ \/ leader = tree[task].leader
          \/ leader = "bad" /\ tree[task].leader = "live"
       /\ \/ kid = IF leader # tree[task].leader THEN Adopt(tree[task].kid)
                                                 ELSE tree[task].kid
          \/ kid = "gone" /\ tree[task].kid = "adopted"
       /\ tree' = [tree EXCEPT ![task] = [leader |-> leader, kid |-> kid]]
  BY <1>1, OwnTree DEF Kill
<1> DEFINE r == [leader |-> leader, kid |-> kid]
<1>3. /\ r \in [leader : Leader, kid : Kid] /\ r.leader = leader /\ r.kid = kid
      /\ tree' = [tree EXCEPT ![task] = r]
  BY <1>2
<1> HIDE DEF r
<1>4. /\ kid # "orphan"
      /\ kid = "child" => leader = "live"
      /\ leader = "none" <=> tree[task].leader = "none"
      /\ leader = "none" => kid = "none"
  BY <1>1, <1>2, OwnTree DEF Adopt
<1>5. ~seen.cleaned
  BY <1>1 DEF IInv, Observing
<1>6. tree' \in [Launch -> [leader : Leader, kid : Kid]] /\ launches' \in Nat
  BY <1>1, <1>3, OwnTree
<1>7. Typed' /\ Observing'
  BY <1>1, <1>5, <1>6, OwnTree, StartedObserving
<1>8. CASE leader # "none"
  <2>1. Blank' /\ OnDisk' /\ Books' /\ Trees' /\ Reports'
    BY <1>1, <1>3, <1>4, <1>8, StartedKeeps
  <2> QED BY <1>7, <2>1 DEF IInv
<1>9. CASE leader = "none"
  <2>1. tree[task] = r
    <3>1. tree[task] \in [leader : Leader, kid : Kid] /\ tree[task].leader = "none"
          /\ tree[task].kid = "none"
      BY <1>1, <1>4, <1>9, OwnTree
    <3>2. r.leader = "none" /\ r.kid = "none"
      BY <1>3, <1>4, <1>9
    <3> QED BY <1>3, <3>1, <3>2
  <2>2. tree' = tree
    BY <1>1, <1>3, <2>1, OwnTree
  <2>3. /\ UNCHANGED <<alive, failed, summary, published>> /\ UNCHANGED <<debited, committed, active>>
    BY <1>1 DEF others, memory
  <2>4. Blank' /\ OnDisk' /\ Books' /\ Trees' /\ Reports'
    BY <1>1, <2>2, <2>3, NoFileKeeps
  <2> QED BY <1>7, <2>4 DEF IInv
<1> QED BY <1>8, <1>9

LEMMA CheckKeeps == IInv /\ Watch /\ Check => IInv'
<1> SUFFICES ASSUME IInv, Watch, Check PROVE IInv'
  OBVIOUS
<1> DEFINE clean == /\ tree'[task].leader = "reaped" /\ \A l \in Launch : ~DirectChild(l)'
           out == tree[task].leader \in {"zero", "bad"}
<1>1. /\ at = "check" /\ at' = IF clean THEN "close" ELSE "kill"
      /\ tree' = IF out THEN [tree EXCEPT ![task].leader = "reaped"] ELSE tree
      /\ seen' = [seen EXCEPT !.cleaned = clean, !.rc = IF out THEN tree[task].leader ELSE @]
      /\ UNCHANGED <<torn, stable, task, step, launches, current, others>>
  <2>1. at = "check" /\ current = task
    BY OwnTree DEF Check
  <2> QED BY <2>1 DEF Check, Watch, disk, Exited, Reaped
<1>2. clean => tree'[task].leader = "reaped" /\ tree'[task].kid # "adopted"
  <2>1. task \in Launch
    BY <1>1, OwnTree
  <2> QED BY <2>1 DEF DirectChild
<1> HIDE DEF clean
<1>3. /\ seen' \in [attempted : BOOLEAN, handle : BOOLEAN, identity : BOOLEAN, persisted : BOOLEAN,
                    failure : BOOLEAN, cleaned : BOOLEAN, rc : {"none", "zero", "bad"}]
      /\ seen'.persisted = seen.persisted /\ seen'.cleaned = clean
  <2>1. clean \in BOOLEAN
    BY DEF clean
  <2> QED BY <1>1, <2>1, OwnTree
<1> DEFINE r == IF out THEN [tree[task] EXCEPT !.leader = "reaped"] ELSE tree[task]
<1>4. /\ r \in [leader : Leader, kid : Kid] /\ r.kid = tree[task].kid
      /\ r.leader = IF out THEN "reaped" ELSE tree[task].leader
      /\ tree' = [tree EXCEPT ![task] = r] /\ tree'[task] = r
  BY <1>1, OwnTree DEF Leader
<1> HIDE DEF r
<1>5. r.kid # "orphan" /\ (r.kid = "child" => r.leader = "live")
      /\ (r.leader = "none" <=> tree[task].leader = "none")
  BY <1>1, <1>4, OwnTree
<1>6. clean => Resting(task)'
  <2>1. tree'[task] = r /\ r.kid \in Kid
    BY <1>4
  <2>2. clean => r.leader = "reaped" /\ r.kid # "adopted"
    BY <1>2, <2>1
  <2>3. clean => r.kid \in {"none", "gone"}
    BY <1>5, <2>1, <2>2 DEF Kid
  <2>4. task' = task
    BY <1>1
  <2> QED BY <2>1, <2>2, <2>3, <2>4 DEF Resting
<1>7. tree' \in [Launch -> [leader : Leader, kid : Kid]] /\ launches' \in Nat
  BY <1>1, <1>4, OwnTree
<1>8. Typed' /\ Observing'
  BY <1>1, <1>3, <1>6, <1>7, OwnTree, StartedObserving
<1>9. CASE tree[task].leader # "none"
  <2>1. Blank' /\ OnDisk' /\ Books' /\ Trees' /\ Reports'
    BY <1>1, <1>4, <1>5, <1>9, StartedKeeps
  <2> QED BY <1>8, <2>1 DEF IInv
<1>10. CASE tree[task].leader = "none"
  <2>1. tree' = tree
    BY <1>1, <1>10
  <2>2. /\ UNCHANGED <<alive, failed, summary, published>> /\ UNCHANGED <<debited, committed, active>>
    BY <1>1 DEF others, memory
  <2>3. Blank' /\ OnDisk' /\ Books' /\ Trees' /\ Reports'
    BY <1>1, <2>1, <2>2, NoFileKeeps
  <2> QED BY <1>8, <2>3 DEF IInv
<1> QED BY <1>9, <1>10

LEMMA WatchStepKeeps == IInv /\ Watch => IInv'
<1> SUFFICES ASSUME IInv, Watch PROVE IInv'
  OBVIOUS
<1>1. ObserverStep
  BY DEF Watch
<1>2. CASE Popen
  BY <1>2, PopenKeeps
<1>3. CASE Ends
  BY <1>3, EndsKeeps
<1>4. CASE Kill
  BY <1>4, KillKeeps
<1>5. CASE Check
  BY <1>5, CheckKeeps
<1>6. CASE Prelaunch \/ Identify \/ Raises \/ CleanupEnds \/ Leftover \/ Return
  BY <1>6, QuietObserverKeeps
<1> QED BY <1>1, <1>2, <1>3, <1>4, <1>5, <1>6 DEF ObserverStep

\* The processes and the clock go on by themselves.
LEMMA LivesKeeps ==
  ASSUME IInv, NEW l \in Launch, Lives(l), UNCHANGED <<disk, task, step, others>>
  PROVE  IInv'
<1>1. /\ UNCHANGED <<torn, stable, task, step, alive, failed, summary, published>>
      /\ UNCHANGED <<debited, committed, active, launches, current, at, seen>>
  BY DEF disk, others, memory, Lives
<1>2. tree \in [Launch -> [leader : Leader, kid : Kid]]
  BY DEF IInv, Typed
<1>3. /\ tree[l].leader = "none" => tree[l].kid = "none"
      /\ tree[l].kid = "child" => tree[l].leader = "live"
      /\ tree[l].leader \in Leader /\ tree[l].kid \in Kid
  BY <1>2 DEF IInv, Trees
<1>4. PICK r \in [leader : Leader, kid : Kid] :
        /\ tree' = [tree EXCEPT ![l] = r]
        /\ r.leader = "none" <=> tree[l].leader = "none"
        /\ r.leader = "none" => r.kid = "none"
        /\ r.kid = "child" => r.leader = "live"
        /\ r.kid = "orphan" => tree[l].kid = "orphan"
        /\ ~Fresh(l) /\ ~Resting(l)
        /\ r.leader \in {"live", "orphan"} \/ r.kid \in {"child", "adopted", "orphan"} => Alive(l)
  <2>1. CASE tree[l].leader = "live" /\ tree[l].kid = "none" /\ tree' = [tree EXCEPT ![l].kid = "child"]
    <3> DEFINE r == [tree[l] EXCEPT !.kid = "child"]
    <3>1. r \in [leader : Leader, kid : Kid] /\ r.leader = "live" /\ r.kid = "child"
          /\ tree' = [tree EXCEPT ![l] = r]
      BY <1>2, <2>1 DEF Kid
    <3> HIDE DEF r
    <3> QED BY <2>1, <3>1 DEF Fresh, Resting, Alive
  <2>2. CASE /\ tree[l].leader = "live"
             /\ \E rc \in {"zero", "bad"} :
                  tree' = [tree EXCEPT ![l] = [leader |-> rc, kid |-> Adopt(@.kid)]]
    <3>1. PICK rc \in {"zero", "bad"} :
                  tree' = [tree EXCEPT ![l] = [leader |-> rc, kid |-> Adopt(tree[l].kid)]]
      BY <2>2
    <3> DEFINE r == [leader |-> rc, kid |-> Adopt(tree[l].kid)]
    <3>2. r \in [leader : Leader, kid : Kid] /\ r.leader = rc /\ r.kid = Adopt(tree[l].kid)
          /\ tree' = [tree EXCEPT ![l] = r]
      BY <1>3, <3>1 DEF Kid, Leader, Adopt
    <3> HIDE DEF r
    <3> QED BY <1>3, <2>2, <3>2 DEF Fresh, Resting, Alive, Adopt
  <2>3. CASE tree[l].leader = "orphan" /\ tree' = [tree EXCEPT ![l].leader = "reaped"]
    <3> DEFINE r == [tree[l] EXCEPT !.leader = "reaped"]
    <3>1. r \in [leader : Leader, kid : Kid] /\ r.leader = "reaped" /\ r.kid = tree[l].kid
          /\ tree' = [tree EXCEPT ![l] = r]
      BY <1>2, <2>3 DEF Leader
    <3> HIDE DEF r
    <3> QED BY <1>3, <2>3, <3>1 DEF Fresh, Resting, Alive
  <2>4. CASE /\ tree[l].kid \in {"child", "adopted", "orphan"}
             /\ tree' = [tree EXCEPT ![l].kid = "gone"]
    <3> DEFINE r == [tree[l] EXCEPT !.kid = "gone"]
    <3>1. r \in [leader : Leader, kid : Kid] /\ r.leader = tree[l].leader /\ r.kid = "gone"
          /\ tree' = [tree EXCEPT ![l] = r]
      BY <1>2, <2>4 DEF Kid
    <3> HIDE DEF r
    <3> QED BY <1>3, <2>4, <3>1 DEF Fresh, Resting, Alive
  <2> QED BY <2>1, <2>2, <2>3, <2>4 DEF Lives
<1>5. tree'[l] = r /\ \A k \in Launch : k # l => tree'[k] = tree[k]
  BY <1>2, <1>4
<1>6. \A k \in Launch : /\ Fresh(k) => Fresh(k)'
                        /\ Resting(k) => Resting(k)'
                        /\ Alive(k)' => Alive(k)
  BY <1>4, <1>5 DEF Fresh, Resting, Alive
<1>7. Started' = Started
  BY <1>4, <1>5 DEF Started
<1>8. Blank'
  BY <1>1, <1>6, KeepsBlank DEF IInv
<1>9. OnDisk'
  BY <1>1, KeepsOnDisk DEF IInv, Exists
<1>10. Books'
  BY <1>1, KeepsBooks DEF IInv
<1>11. Reports'
  BY <1>1, KeepsReports DEF IInv, Exists, SummaryFile
<1>12. Observing'
  BY <1>1, <1>6, KeepsObserving DEF IInv
<1>13. Typed'
  <2>1. tree' \in [Launch -> [leader : Leader, kid : Kid]]
    BY <1>2, <1>4
  <2> QED BY <1>1, <2>1 DEF IInv, Typed
<1>14. Trees'
  <2>1. (\A t, d : Passed(t, d)' = Passed(t, d)) /\ Began' = Began
    BY <1>1, SamePlace
  <2>2. (\A k \in Launch : /\ tree[k].leader = "none" => tree[k].kid = "none"
                           /\ tree[k].kid = "child" => tree[k].leader = "live"
                           /\ alive /\ Began => tree[k].kid # "orphan")'
    BY <1>1, <1>4, <1>5, <2>1 DEF IInv, Trees
  <2>3. (\A k \in Started : {Sidecar, <<k, "intent">>, <<k, "preparation">>} \subseteq stable)'
    BY <1>1, <1>7 DEF IInv, Trees, Sidecar
  <2>4. OneTree'
    BY <1>6 DEF IInv, Trees, OneTree
  <2>5. (\A k \in Launch :
           /\ Passed(k, "verdict") => Resting(k) /\ <<k, "spawn_identity">> \in stable
           /\ alive /\ Began /\ k > task => Fresh(k))'
    BY <1>1, <1>6, <2>1 DEF IInv, Trees
  <2>6. launches' = Cardinality(Started')
    BY <1>1, <1>7 DEF IInv, Trees
  <2> QED BY <2>2, <2>3, <2>4, <2>5, <2>6 DEF Trees
<1> QED BY <1>8, <1>9, <1>10, <1>11, <1>12, <1>13, <1>14 DEF IInv

LEMMA EnvironmentKeeps == IInv /\ Environment => IInv'
<1> SUFFICES ASSUME IInv, Environment PROVE IInv'
  OBVIOUS
<1>1. CASE Tick
  <2>1. /\ UNCHANGED <<torn, stable, task, step, alive, failed, summary, published>>
        /\ UNCHANGED <<debited, committed, active, tree, launches, current, at, seen>>
    BY <1>1 DEF Environment, disk, others, memory, Tick
  <2>2. Blank' /\ OnDisk' /\ Books' /\ Trees' /\ Reports'
    BY <2>1, NoFileKeeps
  <2>3. Observing'
    BY <2>1, KeepsObserving DEF IInv, Fresh, Resting
  <2>4. Typed'
    BY <2>1 DEF IInv, Typed
  <2> QED BY <2>2, <2>3, <2>4 DEF IInv
<1>2. CASE \E l \in Launch : Lives(l)
  BY <1>2, LivesKeeps DEF Environment
<1> QED BY <1>1, <1>2 DEF Environment

-----------------------------------------------------------------------------
\* The worker goes on.  Each step keeps what is passed on stable storage.
LEMMA Onward ==
  ASSUME IInv, alive, ~failed, task <= Len(Plan), Advance,
         UNCHANGED <<alive, failed, summary, tree, launches, current, torn, published>>,
         at' = "idle", seen' = seen,
         Began \/ ~Exists(Sidecar),
         stable' = stable \/ stable' = stable \cup {<<task, Doing>>},
         ~Began => Sidecar \in stable',
         Doing \notin Quiet => <<task, Doing>> \in stable',
         task \in Launch /\ Doing = "verdict" =>
           Resting(task) /\ <<task, "spawn_identity">> \in stable,
         task \in Launch /\ Doing = "observe" =>
           /\ seen.persisted => <<task, "spawn_identity">> \in stable
           /\ seen.cleaned /\ seen.handle => Resting(task),
         debited' \in [Kinds -> Nat]
  PROVE  Typed' /\ Blank' /\ OnDisk' /\ Trees' /\ Observing'
<1>1. /\ Began'
      /\ \A t, d : Passed(t, d)' <=> Passed(t, d) \/ (t = task /\ d = Doing)
      /\ task' \in 0 .. Len(Plan) + 1 /\ step' \in Nat \ {0}
      /\ task' <= Len(Plan) => step' \in DOMAIN Script(task')
      /\ \/ step = Len(Script(task)) /\ task' = task + 1 /\ step' = 1
         \/ step # Len(Script(task)) /\ task' = task /\ step' = step + 1
  BY Advances DEF IInv
<1>2. /\ Began => Sidecar \in stable
      /\ ~Began => \A l \in Launch : Fresh(l)
      /\ stable \subseteq stable' /\ Sidecar \in stable'
  BY Undisturbed
<1>3. /\ \A l : Fresh(l)' = Fresh(l) /\ Resting(l)' = Resting(l) /\ Alive(l)' = Alive(l)
      /\ Started' = Started
  BY DEF Fresh, Resting, Alive, Started
<1>4. Typed'
  BY <1>1 DEF IInv, Typed
<1>5. Blank'
  BY <1>2 DEF Blank, Sidecar
<1>6. OnDisk'
  <2>1. ASSUME NEW t \in 0 .. Len(Plan), NEW d \in StepsOf(t) \ Quiet, Passed(t, d)'
        PROVE  <<t, d>> \in stable'
    <3>1. CASE Passed(t, d)
      BY <1>2, <3>1 DEF IInv, OnDisk
    <3>2. CASE t = task /\ d = Doing
      BY <3>2
    <3> QED BY <1>1, <2>1, <3>1, <3>2
  <2>2. ASSUME NEW t \in Task, Exists(<<t, "intent">>)'
        PROVE  Passed(t, "bind")'
    <3>1. CASE Exists(<<t, "intent">>)
      <4>1. Began
        BY <3>1, Undisturbed, Plans DEF IInv, Blank, Exists, Sidecar
      <4> QED BY <1>1, <3>1, <4>1 DEF IInv, OnDisk
    <3>2. CASE ~Exists(<<t, "intent">>)
      <4>1. t = task /\ Doing = "intent"
        BY <2>2, <3>2 DEF Exists
      <4> QED BY <1>1, <4>1, Place DEF IInv
    <3> QED BY <3>1, <3>2
  <2>3. (\A t \in 0 .. Len(Plan) : \A d \in StepsOf(t) \ Quiet : Passed(t, d) => <<t, d>> \in stable)'
    BY <2>1
  <2> QED BY <2>2, <2>3 DEF OnDisk
<1>7. Trees'
  <2>1. (\A l \in Launch : /\ tree[l].leader = "none" => tree[l].kid = "none"
                           /\ tree[l].kid = "child" => tree[l].leader = "live"
                           /\ alive /\ Began => tree[l].kid # "orphan")'
    BY <1>1, <1>2 DEF IInv, Trees, Fresh
  <2>2. (\A l \in Started : {Sidecar, <<l, "intent">>, <<l, "preparation">>} \subseteq stable)'
    BY <1>2, <1>3 DEF IInv, Trees, Sidecar
  <2>3. OneTree'
    BY <1>3 DEF IInv, Trees, OneTree
  <2>4. ASSUME NEW l \in Launch
        PROVE  (/\ Passed(l, "verdict") => Resting(l) /\ <<l, "spawn_identity">> \in stable
                /\ alive /\ Began /\ l > task => Fresh(l))'
    <3>1. (Passed(l, "verdict") => Resting(l) /\ <<l, "spawn_identity">> \in stable)'
      BY <1>1, <1>2, <1>3 DEF IInv, Trees
    <3>2. (alive /\ Began /\ l > task => Fresh(l))'
      <4>1. l > task' => l > task
        <5>1. l \in Nat /\ task \in Nat
          BY Plans DEF IInv, Typed
        <5> QED BY <1>1, <5>1
      <4> QED BY <1>2, <1>3, <4>1 DEF IInv, Trees
    <3> QED BY <3>1, <3>2
  <2>5. launches' = Cardinality(Started')
    BY <1>3 DEF IInv, Trees
  <2> QED BY <2>1, <2>2, <2>3, <2>4, <2>5 DEF Trees
<1>8. Observing'
  <2>1. CASE task' = task
    <3>1. Passed(task, "observe")' <=> Passed(task, "observe") \/ Doing = "observe"
      BY <1>1, <2>1
    <3>2. task \in Launch /\ Passed(task, "observe") => Watching
      BY DEF Watching
    <3>3. Watching' <=> task \in Launch /\ (Passed(task, "observe") \/ Doing = "observe")
      BY <2>1, <3>1 DEF Watching
    <3>4. (alive /\ Watching /\ seen.persisted => <<task, "spawn_identity">> \in stable)'
      BY <1>2, <2>1, <3>2, <3>3 DEF IInv, Observing
    <3>5. (alive /\ Watching /\ seen.cleaned /\ seen.handle => Resting(task))'
      BY <1>3, <2>1, <3>2, <3>3 DEF IInv, Observing
    <3>6. ASSUME task \in Launch, ~Passed(task, "observe")' PROVE Fresh(task)'
      <4>1. ~Passed(task, "observe") /\ Doing # "observe"
        BY <3>1, <3>6
      <4>2. at \in {"idle", "prelaunch", "popen"} /\ Began => Fresh(task)
        BY <3>6, <4>1 DEF IInv, Observing
      <4>3. at = "idle"
        BY <4>1 DEF IInv, Observing
      <4> QED BY <1>2, <1>3, <2>1, <3>6, <4>2, <4>3
    <3>7. (alive /\ Began /\ task \in Launch /\ ~Passed(task, "observe") /\ at \in {"idle", "prelaunch", "popen"} =>
             Fresh(task))'
      BY <2>1, <3>6
    <3> QED BY <3>4, <3>5, <3>7 DEF Observing
  <2>2. CASE task' = task + 1
    <3>1. task' # task /\ task' > task /\ ~(task' < task)
      BY <2>2, Plans DEF IInv, Typed
    <3>2. \A d : ~Passed(task', d)
      BY <3>1 DEF Passed
    <3>3. ~Passed(task, "observe")'
      <4>1. step' = 1
        BY <1>1, <3>1
      <4>2. ~\E i \in 1 .. step' - 1 : TRUE
        BY <4>1
      <4>3. ~(task' < task')
        BY <2>2, Plans DEF IInv, Typed
      <4> QED BY <4>2, <4>3 DEF Passed
    <3>4. ~Watching'
      BY <3>3 DEF Watching
    <3>5. task' \in Launch => Fresh(task')
      BY <1>2, <3>1 DEF IInv, Trees
    <3>6. (alive /\ Began /\ task \in Launch /\ ~Passed(task, "observe") /\ at \in {"idle", "prelaunch", "popen"} =>
             Fresh(task))'
      BY <3>5 DEF Fresh
    <3> QED BY <3>4, <3>6 DEF Observing
  <2> QED BY <1>1, <2>1, <2>2
<1> QED BY <1>4, <1>5, <1>6, <1>7, <1>8

\* It has published nothing of the summary before.
LEMMA NoReport ==
  ASSUME IInv, Running, Began \/ ~Exists(Sidecar), Began',
         UNCHANGED <<summary, published>>, SummaryFile \notin stable'
  PROVE  Reports'
<1>1. summary = NoSummary
  BY Undisturbed DEF Running
<1> QED BY <1>1 DEF Reports, NoSummary, SummaryFile

LEMMA ObservedKeeps == IInv /\ Observed => IInv'
<1> SUFFICES ASSUME IInv, Observed PROVE IInv'
  OBVIOUS
<1>1. /\ at = "done" /\ at' = "idle" /\ Advance
      /\ UNCHANGED <<clock, tree, launches, current, seen, torn, stable>>
      /\ UNCHANGED <<alive, failed, summary, published>> /\ UNCHANGED <<debited, committed, active>>
  BY DEF Observed, Goto, disk, others, memory
<1>2. /\ alive /\ ~failed /\ task \in Launch /\ task \in Task /\ task <= Len(Plan)
      /\ Doing = "observe" /\ Began /\ Sidecar \in stable /\ SummaryFile \notin stable /\ Watching
      /\ "observe" \in Quiet /\ Running
  BY <1>1, InLaunch DEF Quiet, Running
<1>3. /\ seen.persisted => <<task, "spawn_identity">> \in stable
      /\ seen.cleaned /\ seen.handle => Resting(task)
      /\ debited \in [Kinds -> Nat]
  BY <1>2 DEF IInv, Observing, Typed
<1>4. Typed' /\ Blank' /\ OnDisk' /\ Trees' /\ Observing'
  BY <1>1, <1>2, <1>3, Onward DEF IInv
<1>5. /\ Began' /\ task' = task
      /\ \A t, d : Passed(t, d)' <=> Passed(t, d) \/ (t = task /\ d = Doing)
  BY <1>1, <1>2, Advances, Place DEF IInv
<1>6. Reports'
  BY <1>1, <1>2, <1>5, NoReport DEF SummaryFile
<1>7. Books'
  <2>1. \A t : Passed(t, "bind")' <=> Passed(t, "bind")
    BY <1>2, <1>5
  <2>2. \A t : Passed(t, "intent") => Passed(t, "intent")'
    BY <1>5
  <2>3. Debits' = Debits
    BY <1>1 DEF Debits
  <2> QED BY <1>1, <1>5, <2>1, <2>2, <2>3 DEF IInv, Books, Sidecar
<1> QED BY <1>4, <1>6, <1>7 DEF IInv

LEMMA PublishKeeps == IInv /\ Publish => IInv'
<1> SUFFICES ASSUME IInv, Publish PROVE IInv'
  OBVIOUS
<1>1. /\ alive /\ ~failed /\ task <= Len(Plan) /\ Doing \notin Quiet /\ ~Exists(File) /\ Running
      /\ stable' = stable \cup {<<task, Doing>>} /\ File = <<task, Doing>>
      /\ committed' = IF Doing = "ack" THEN committed \cup {task} ELSE committed
      /\ Advance
      /\ UNCHANGED <<clock, tree, launches, current, at, seen, torn, debited>>
      /\ UNCHANGED <<alive, failed, summary, published>>
  BY DEF Publish, Able, Running, launchVars, File
<1>2. active' = CASE Doing \in {"sidecar", "intent"} -> {task}
                  [] Doing = "ack" -> {}
                  [] OTHER -> active
  BY DEF Publish
<1>3. at = "idle"
  BY <1>1 DEF IInv, Observing, Quiet
<1>4. /\ task = 0 \/ task \in Task
      /\ Doing = "sidecar" <=> ~Began
      /\ task \in Task => (Doing = "ack" <=> step = Len(Script(task)))
      /\ Doing \in {"ack", "intent"} => task \in Task
      /\ Doing # "package_summary" /\ Doing # "bind" /\ Doing \notin {"observe", "verdict"}
      /\ DOMAIN Script(task) = 1 .. Len(Script(task))
  BY <1>1, Place DEF IInv, Quiet
<1>5. Began \/ ~Exists(Sidecar)
  BY <1>1, OwnFile
<1>6. ~Began => Sidecar \in stable'
  BY <1>1, OwnFile
<1>7. /\ Began'
      /\ \A t, d : Passed(t, d)' <=> Passed(t, d) \/ (t = task /\ d = Doing)
      /\ \/ step = Len(Script(task)) /\ task' = task + 1 /\ step' = 1
         \/ step # Len(Script(task)) /\ task' = task /\ step' = step + 1
  BY <1>1, Advances DEF IInv
<1>8. debited' \in [Kinds -> Nat]
  BY <1>1 DEF IInv, Typed
<1>9. Typed' /\ Blank' /\ OnDisk' /\ Trees' /\ Observing'
  BY <1>1, <1>3, <1>4, <1>5, <1>6, <1>8, Onward
<1>10. Reports'
  <2>1. SummaryFile \notin stable
    BY <1>1, <1>5, Undisturbed
  <2>2. <<task, Doing>> # SummaryFile
    BY <1>4 DEF SummaryFile
  <2>3. SummaryFile \notin stable'
    BY <1>1, <2>1, <2>2
  <2> QED BY <1>1, <1>5, <1>7, <2>3, NoReport
<1>11. Sidecar \in stable'
  BY <1>1, <1>6, Undisturbed
<1>12. Books'
  <2>1. Debits' = Debits
    BY <1>1 DEF Debits
  <2>2. task \in 0 .. Len(Plan) /\ Len(Plan) \in Nat /\ Task = 1 .. Len(Plan)
    BY <1>1, Plans DEF IInv, Typed
  <2>3. \A t \in Task : Passed(t, "bind")' <=> Passed(t, "bind")
    BY <1>4, <1>7
  <2>4. committed' = {t \in Task : t < task'}
    <3>1. committed = {t \in Task : t < task}
      BY DEF IInv, Books
    <3>2. CASE task' = task
      BY <1>1, <1>4, <1>7, <2>2, <3>1, <3>2
    <3>3. CASE task' = task + 1
      <4>1. \A t \in Task : t < task + 1 <=> t < task \/ t = task
        BY <2>2
      <4>2. task \in Task => Doing = "ack"
        BY <1>4, <1>7, <2>2, <3>3
      <4>3. task \notin Task => committed' = committed
        BY <1>1, <1>4
      <4> QED BY <1>1, <1>4, <3>1, <3>3, <4>1, <4>2, <4>3
    <3> QED BY <1>7, <3>2, <3>3
  <2>5. Debits' = IF task' = 0 THEN 0 ELSE IF Passed(task, "bind")' THEN task' ELSE task' - 1
    <3>1. Debits = IF task = 0 THEN 0 ELSE IF Passed(task, "bind") THEN task ELSE task - 1
      BY DEF IInv, Books
    <3>2. CASE task' = task
      <4>1. Passed(task, "bind")' <=> Passed(task, "bind")
        BY <1>4, <1>7, <3>2
      <4> QED BY <2>1, <3>1, <3>2, <4>1
    <3>3. CASE task' = task + 1
      <4>1. ~Passed(task, "bind")'
        <5>1. step' = 1
          BY <1>7, <2>2, <3>3
        <5>2. ~\E i \in 1 .. step' - 1 : TRUE
          BY <5>1
        <5>3. ~(task' < task')
          BY <2>2, <3>3
        <5> QED BY <5>2, <5>3 DEF Passed
      <4>2. task \in Task => Passed(task, "bind")
        <5> SUFFICES ASSUME task \in Task PROVE Passed(task, "bind")
          OBVIOUS
        <5>1. PICK k \in Task : k = task
          OBVIOUS
        <5>2. "bind" \in StepsOf(k)
          BY Order
        <5>3. Passed(k, "bind")'
          BY <2>2, <3>3, <5>1, <5>2 DEF Passed
        <5> QED BY <2>3, <5>1, <5>3
      <4> QED BY <1>4, <2>1, <2>2, <3>1, <3>3, <4>1, <4>2
    <3> QED BY <1>7, <3>2, <3>3
  <2>6. ASSUME NEW t \in Task, Passed(t, "bind")'
        PROVE  Plan[t].parent = 0 \/ Plan[t].parent \in committed'
    <3>1. Plan[t].parent = 0 \/ Plan[t].parent \in committed
      BY <2>3, <2>6 DEF IInv, Books
    <3> QED BY <1>1, <3>1
  <2>7. ASSUME NEW t \in active'
        PROVE  \/ t = 0 /\ Sidecar \in stable'
               \/ t = task' /\ t \in Task /\ Passed(t, "intent")'
    <3>1. CASE Doing = "sidecar"
      <4>1. t = 0
        BY <1>2, <1>4, <2>7, <3>1, <2>2 DEF Began
      <4> QED BY <1>11, <4>1
    <3>2. CASE Doing = "intent"
      <4>1. t = task /\ task \in Task /\ task' = task
        BY <1>2, <1>4, <1>7, <2>7, <3>2
      <4> QED BY <1>7, <3>2, <4>1
    <3>3. CASE Doing = "ack"
      BY <1>2, <2>7, <3>3
    <3>4. CASE Doing \notin {"sidecar", "intent", "ack"}
      <4>1. t \in active
        BY <1>2, <2>7, <3>4
      <4>2. \/ t = 0 /\ Sidecar \in stable
            \/ t = task /\ t \in Task /\ Passed(t, "intent")
        BY <4>1 DEF IInv, Books
      <4>3. task \in Task => task' = task
        BY <1>4, <1>7, <3>4
      <4> QED BY <1>7, <1>11, <4>2, <4>3
    <3> QED BY <3>1, <3>2, <3>3, <3>4
  <2> HIDE DEF Sidecar
  <2> QED BY <2>4, <2>5, <2>6, <2>7 DEF Books
<1> QED BY <1>9, <1>10, <1>12 DEF IInv

LEMMA WorkKeeps == IInv /\ Work => IInv'
<1> SUFFICES ASSUME IInv, Work PROVE IInv'
  OBVIOUS
<1>1. /\ alive /\ ~failed /\ task <= Len(Plan) /\ Doing \in Quiet \ {"observe"} /\ Running
      /\ Doing = "bind" => Bindable(task)
      /\ Doing = "verdict" => Accepted
      /\ debited' = IF Doing = "bind" THEN [debited EXCEPT ![Plan[task].kind] = @ + 1]
                                      ELSE debited
      /\ Advance
      /\ UNCHANGED <<clock, tree, launches, current, at, seen, torn, stable, active, committed>>
      /\ UNCHANGED <<alive, failed, summary, published>>
  BY DEF Work, Able, Running, launchVars, disk
<1>2. at = "idle"
  BY <1>1 DEF IInv, Observing
<1>3. /\ task = 0 \/ task \in Task
      /\ Doing = "sidecar" <=> ~Began
      /\ step # Len(Script(task))
      /\ Doing \in {"bind", "verdict"} => task \in Task
      /\ Doing = "verdict" => Passed(task, "observe")
      /\ Doing = "bind" => ~Passed(task, "bind")
      /\ Doing # "intent"
  BY <1>1, Place DEF IInv, Quiet
<1>4. Began /\ Sidecar \in stable /\ SummaryFile \notin stable
  BY <1>1, <1>3, Undisturbed DEF Quiet
<1>5. /\ Began' /\ task' = task
      /\ \A t, d : Passed(t, d)' <=> Passed(t, d) \/ (t = task /\ d = Doing)
  BY <1>1, <1>3, Advances DEF IInv
<1>6. debited \in [Kinds -> Nat] /\ debited' \in [Kinds -> Nat]
  <2>1. task \in Task => Plan[task].kind \in Kinds
    BY Plans DEF Kinds
  <2> QED BY <1>1, <1>3, <2>1 DEF IInv, Typed
<1>7. task \in Launch /\ Doing = "verdict" =>
        Resting(task) /\ <<task, "spawn_identity">> \in stable
  <2> SUFFICES ASSUME task \in Launch, Doing = "verdict"
               PROVE  Resting(task) /\ <<task, "spawn_identity">> \in stable
    OBVIOUS
  <2>1. seen.persisted /\ seen.cleaned /\ seen.handle
    BY <1>1 DEF Accepted
  <2>2. Watching
    BY <1>3 DEF Watching
  <2> QED BY <1>1, <2>1, <2>2 DEF IInv, Observing
<1>8. Typed' /\ Blank' /\ OnDisk' /\ Trees' /\ Observing'
  BY <1>1, <1>2, <1>4, <1>6, <1>7, Onward
<1>9. Reports'
  BY <1>1, <1>4, <1>5, NoReport DEF SummaryFile
<1>10. Books'
  <2>1. task \in 0 .. Len(Plan) /\ Len(Plan) \in Nat /\ Task = 1 .. Len(Plan)
    BY <1>1, Plans DEF IInv, Typed
  <2>2. Debits = IF task = 0 THEN 0 ELSE IF Passed(task, "bind") THEN task ELSE task - 1
    BY DEF IInv, Books
  <2>3. CASE Doing = "bind"
    <3>1. PICK k \in Task : k = task
      BY <1>3, <2>3
    <3>2. Plan[k].kind \in {"TESSENT", "TRANSLATION"}
      BY Plans
    <3>3. debited' = [debited EXCEPT ![Plan[k].kind] = @ + 1]
      BY <1>1, <2>3, <3>1
    <3>4. Debits' = Debits + 1
      BY <1>6, <3>2, <3>3 DEF Debits, Kinds
    <3>5. Passed(task, "bind")' /\ ~Passed(task, "bind") /\ task # 0
      BY <1>3, <1>5, <2>1, <2>3, <3>1
    <3>6. Debits' = IF task' = 0 THEN 0 ELSE IF Passed(task, "bind")' THEN task' ELSE task' - 1
      BY <1>5, <2>1, <2>2, <3>4, <3>5
    <3>7. ASSUME NEW t \in Task, Passed(t, "bind")'
          PROVE  Plan[t].parent = 0 \/ Plan[t].parent \in committed'
      <4>1. CASE Passed(t, "bind")
        BY <1>1, <4>1 DEF IInv, Books
      <4>2. CASE t = task
        BY <1>1, <2>3, <4>2 DEF Bindable
      <4> QED BY <1>5, <3>7, <4>1, <4>2
    <3>8. committed' = {t \in Task : t < task'}
      BY <1>1, <1>5 DEF IInv, Books
    <3>9. (\A t \in active : \/ t = 0 /\ Sidecar \in stable
                             \/ t = task /\ t \in Task /\ Passed(t, "intent"))'
      BY <1>1, <1>5 DEF IInv, Books, Sidecar
    <3> QED BY <3>6, <3>7, <3>8, <3>9 DEF Books
  <2>4. CASE Doing # "bind"
    <3>1. \A t : Passed(t, "bind")' <=> Passed(t, "bind")
      BY <1>5, <2>4
    <3>2. Debits' = Debits
      BY <1>1, <2>4 DEF Debits
    <3>3. (\A t \in active : \/ t = 0 /\ Sidecar \in stable
                             \/ t = task /\ t \in Task /\ Passed(t, "intent"))'
      BY <1>1, <1>5 DEF IInv, Books, Sidecar
    <3> QED BY <1>1, <1>5, <3>1, <3>2, <3>3 DEF IInv, Books
  <2> QED BY <2>3, <2>4
<1> QED BY <1>8, <1>9, <1>10 DEF IInv

-----------------------------------------------------------------------------
\* The end of a process, and the beginning of another.
LEMMA SummariseKeeps == IInv /\ Summarise => IInv'
<1> SUFFICES ASSUME IInv, Summarise PROVE IInv'
  OBVIOUS
<1>1. /\ alive /\ at = "idle" /\ summary = NoSummary
      /\ failed \/ task > Len(Plan)
      /\ failed' \in {failed, TRUE}
      /\ summary' = [status |-> IF failed' THEN "stopped" ELSE "collected",
                     debited |-> debited, completed |-> committed,
                     named |-> IF failed' THEN active ELSE {}]
      /\ UNCHANGED <<clock, tree, launches, current, at, seen, torn, stable, task, step>>
      /\ UNCHANGED <<alive, published, debited, active, committed>>
  BY DEF Summarise, launchVars, disk, memory
<1>2. Typed'
  BY <1>1 DEF IInv, Typed
<1>3. Blank'
  BY <1>1, KeepsBlank DEF IInv, Fresh
<1>4. OnDisk'
  BY <1>1, KeepsOnDisk DEF IInv, Exists
<1>5. Books'
  BY <1>1, KeepsBooks DEF IInv
<1>6. Trees'
  BY <1>1, KeepsTrees DEF IInv
<1>7. Observing'
  BY <1>1, IdleObserving DEF IInv
<1>8. Reports'
  <2>1. (summary # NoSummary =>
           /\ failed \/ task > Len(Plan)
           /\ summary.status \in {"stopped", "collected"}
           /\ summary.debited = debited /\ summary.completed = committed
           /\ summary.named \subseteq active
           /\ summary.status = "collected" => task > Len(Plan))'
    BY <1>1
  <2>2. Began' = Began
    BY <1>1, SamePlace
  <2> QED BY <1>1, <2>1, <2>2 DEF IInv, Reports, SummaryFile, Exists
<1> QED BY <1>2, <1>3, <1>4, <1>5, <1>6, <1>7, <1>8 DEF IInv

\* What a summary says, when it is published.
LEMMA Truthful ==
  ASSUME IInv, Began, summary # NoSummary
  PROVE  /\ summary.status = "collected" => summary.completed = Task
         /\ summary.completed \subseteq Task
         /\ \A t \in summary.completed : FilesOf(t) \subseteq stable
         /\ \E n \in 0 .. Len(Plan) :
              /\ summary.debited["TESSENT"] + summary.debited["TRANSLATION"] = n
              /\ \A t \in Task : /\ Exists(<<t, "intent">>) => t <= n
                                 /\ t < n => <<t, "intent">> \in stable
         /\ \A t \in summary.named : /\ t \notin summary.completed
                                     /\ <<t, IF t = 0 THEN "sidecar" ELSE "intent">> \in stable
<1>1. /\ task \in 0 .. Len(Plan) + 1 /\ Len(Plan) \in Nat /\ Task = 1 .. Len(Plan)
  BY Plans DEF IInv, Typed
<1>2. /\ summary.debited = debited /\ summary.completed = committed
      /\ summary.named \subseteq active
      /\ summary.status = "collected" => task > Len(Plan)
  BY DEF IInv, Reports
<1>3. committed = {t \in Task : t < task}
  BY DEF IInv, Books
<1>4. summary.status = "collected" => summary.completed = Task
  BY <1>1, <1>2, <1>3
<1>5. ASSUME NEW t \in committed PROVE FilesOf(t) \subseteq stable
  <2>1. t \in Task /\ t < task /\ t \in 0 .. Len(Plan)
    BY <1>1, <1>3
  <2>2. ASSUME NEW d \in StepsOf(t) \ Quiet PROVE <<t, d>> \in stable
    BY <2>1 DEF IInv, OnDisk, Passed
  <2>3. ASSUME t \in Launch PROVE <<t, "spawn_identity">> \in stable
    <3>1. "verdict" \in StepsOf(t)
      BY <2>1, <2>3, Order
    <3>2. Passed(t, "verdict")
      BY <2>1, <3>1 DEF Passed
    <3> QED BY <2>3, <3>2 DEF IInv, Trees
  <2> QED BY <2>2, <2>3 DEF FilesOf, StepsOf
<1>6. ASSUME NEW t \in Task PROVE {"bind", "intent"} \subseteq StepsOf(t) /\ "intent" \notin Quiet
  BY Order DEF Quiet
<1> DEFINE n == IF task = 0 THEN 0 ELSE IF Passed(task, "bind") THEN task ELSE task - 1
<1>7. summary.debited["TESSENT"] + summary.debited["TRANSLATION"] = n
  BY <1>2 DEF IInv, Books, Debits
<1>8. n \in 0 .. Len(Plan)
  <2>1. task = Len(Plan) + 1 => ~Passed(task, "bind")
    BY <1>1 DEF Passed
  <2> QED BY <1>1, <2>1
<1>9. ASSUME NEW t \in Task, Exists(<<t, "intent">>) PROVE t <= n
  <2>1. Passed(t, "bind")
    BY <1>9 DEF IInv, OnDisk
  <2>2. \/ t < task
        \/ t = task /\ Passed(task, "bind")
    BY <2>1 DEF Passed
  <2> QED BY <1>1, <2>2
<1>10. ASSUME NEW t \in Task, t < n PROVE <<t, "intent">> \in stable
  <2>1. t < task /\ t \in 0 .. Len(Plan)
    BY <1>1, <1>10
  <2> QED BY <1>6, <2>1 DEF IInv, OnDisk, Passed
<1>11. ASSUME NEW t \in active
       PROVE  t \notin committed /\ <<t, IF t = 0 THEN "sidecar" ELSE "intent">> \in stable
  <2>1. \/ t = 0 /\ Sidecar \in stable
        \/ t = task /\ t \in Task /\ Passed(t, "intent")
    BY DEF IInv, Books
  <2>2. CASE t = 0 /\ Sidecar \in stable
    BY <1>1, <1>3, <2>2 DEF Sidecar
  <2>3. CASE t = task /\ t \in Task /\ Passed(t, "intent")
    <3>1. t # 0 /\ t \in 0 .. Len(Plan) /\ ~(t < task)
      BY <1>1, <2>3
    <3>2. <<t, "intent">> \in stable
      BY <1>6, <2>3, <3>1 DEF IInv, OnDisk
    <3> QED BY <1>3, <3>1, <3>2
  <2> QED BY <2>1, <2>2, <2>3
<1> HIDE DEF n
<1>12. \E k \in 0 .. Len(Plan) :
         /\ summary.debited["TESSENT"] + summary.debited["TRANSLATION"] = k
         /\ \A t \in Task : /\ Exists(<<t, "intent">>) => t <= k
                            /\ t < k => <<t, "intent">> \in stable
  BY <1>7, <1>8, <1>9, <1>10
<1> QED BY <1>2, <1>3, <1>4, <1>5, <1>11, <1>12

LEMMA FinishKeeps == IInv /\ Finish => IInv'
<1> SUFFICES ASSUME IInv, Finish PROVE IInv'
  OBVIOUS
<1>1. /\ alive /\ summary # NoSummary /\ alive' = FALSE
      /\ UNCHANGED <<clock, tree, launches, current, at, seen, task, step>>
      /\ UNCHANGED <<summary, debited, active, committed>>
  BY DEF Finish, launchVars, memory
<1>2. \/ UNCHANGED <<torn, stable, failed, published>>
      \/ /\ JournalReady /\ ~Exists(SummaryFile) /\ published' = summary
         /\ stable' = stable \cup {SummaryFile} /\ torn' = torn /\ failed' \in {failed, TRUE}
      \/ /\ JournalReady /\ ~Exists(SummaryFile) /\ published' = summary
         /\ torn' = torn \cup {SummaryFile} /\ stable' = stable /\ failed' = TRUE
  BY DEF Finish, disk
<1>3. at = "idle"
  BY <1>1 DEF IInv, Observing
<1>4. JournalReady => Began
  BY DEF JournalReady, Began, IInv, Typed
<1>5. Began => Sidecar \in stable
  BY DEF IInv, Blank
<1>6. /\ stable \subseteq stable' /\ (failed => failed') /\ failed' \in BOOLEAN
      /\ \A t \in Task : Exists(<<t, "intent">>)' <=> Exists(<<t, "intent">>)
  BY <1>2 DEF Exists, SummaryFile, IInv, Typed
<1>7. Typed'
  BY <1>1, <1>6 DEF IInv, Typed
<1>8. Blank'
  <2>1. Sidecar \notin stable' => stable' = stable /\ torn' \subseteq torn \cup {Sidecar}
    BY <1>2, <1>4, <1>5, <1>6
  <2> QED BY <1>1, <1>6, <2>1, KeepsBlank DEF IInv, Fresh
<1>9. OnDisk'
  BY <1>1, <1>6, KeepsOnDisk DEF IInv
<1>10. Books'
  BY <1>1, <1>6, KeepsBooks DEF IInv
<1>11. Trees'
  BY <1>1, <1>6, KeepsTrees DEF IInv
<1>12. Observing'
  BY <1>1, <1>3, <1>6, IdleObserving DEF IInv
<1>13. Reports'
  <2>1. (summary # NoSummary =>
           /\ failed \/ task > Len(Plan)
           /\ summary.status \in {"stopped", "collected"}
           /\ summary.debited = debited /\ summary.completed = committed
           /\ summary.named \subseteq active
           /\ summary.status = "collected" => task > Len(Plan))'
    BY <1>1, <1>6 DEF IInv, Reports, NoSummary
  <2>2. CASE UNCHANGED <<torn, stable, failed, published>>
    BY <1>1, <1>6, <2>2, KeepsReports DEF IInv, SummaryFile
  <2>3. CASE /\ JournalReady /\ ~Exists(SummaryFile)
             /\ torn' = torn \cup {SummaryFile} /\ stable' = stable
    <3>1. SummaryFile \notin stable'
      BY <2>3 DEF Exists
    <3> QED BY <1>1, <2>1, <3>1 DEF Reports, SummaryFile
  <2>4. CASE /\ JournalReady /\ published' = summary
    <3>1. /\ published'.status = "collected" => published'.completed = Task
          /\ published'.completed \subseteq Task
          /\ \A t \in published'.completed : FilesOf(t) \subseteq stable
          /\ \E n \in 0 .. Len(Plan) :
              /\ published'.debited["TESSENT"] + published'.debited["TRANSLATION"] = n
              /\ \A t \in Task : /\ Exists(<<t, "intent">>) => t <= n
                                 /\ t < n => <<t, "intent">> \in stable
          /\ \A t \in published'.named : /\ t \notin published'.completed
                                         /\ <<t, IF t = 0 THEN "sidecar" ELSE "intent">> \in stable
      BY <1>1, <1>4, <2>4, Truthful
    <3>2. (\E n \in 0 .. Len(Plan) :
              /\ published.debited["TESSENT"] + published.debited["TRANSLATION"] = n
              /\ \A t \in Task : /\ Exists(<<t, "intent">>) => t <= n
                                 /\ t < n => <<t, "intent">> \in stable)'
      <4>1. PICK n \in 0 .. Len(Plan) :
              /\ published'.debited["TESSENT"] + published'.debited["TRANSLATION"] = n
              /\ \A t \in Task : /\ Exists(<<t, "intent">>) => t <= n
                                 /\ t < n => <<t, "intent">> \in stable
        BY <3>1
      <4>2. \A t \in Task : /\ Exists(<<t, "intent">>)' => t <= n
                            /\ t < n => <<t, "intent">> \in stable'
        BY <1>6, <4>1
      <4> QED BY <4>1, <4>2
    <3>3. (\A t \in published.completed : FilesOf(t) \subseteq stable)'
      BY <1>6, <3>1
    <3>4. (\A t \in published.named : /\ t \notin published.completed
                                      /\ <<t, IF t = 0 THEN "sidecar" ELSE "intent">> \in stable)'
      BY <1>6, <3>1
    <3>5. (published.status = "collected" => published.completed = Task)'
          /\ (published.completed \subseteq Task)'
      BY <3>1
    <3> QED BY <1>1, <2>1, <3>2, <3>3, <3>4, <3>5 DEF Reports
  <2> QED BY <1>2, <2>2, <2>3, <2>4
<1> QED BY <1>7, <1>8, <1>9, <1>10, <1>11, <1>12, <1>13 DEF IInv

LEMMA StartKeeps == IInv /\ Start => IInv'
<1> SUFFICES ASSUME IInv, Start PROVE IInv'
  OBVIOUS
<1>1. /\ task' = 0 /\ step' = 1 /\ failed' = FALSE /\ alive' = TRUE
      /\ debited' = [k \in Kinds |-> 0] /\ active' = {} /\ committed' = {}
      /\ summary' = NoSummary /\ at' = "idle" /\ seen' = NotSeen
      /\ UNCHANGED <<clock, tree, launches, current, torn, stable, published>>
  BY DEF Start, disk
<1>2. Len(Plan) \in Nat /\ Task = 1 .. Len(Plan) /\ Launch \subseteq Task
  BY Plans
<1>3. ~Began'
  BY <1>1 DEF Began
<1>4. \A t, d : ~Passed(t, d)'
  <2>1. \A t, d : ~(t \in 0 .. Len(Plan) /\ t < 0 /\ d \in StepsOf(t))
    BY <1>2
  <2>2. ~\E i \in 1 .. 1 - 1 : TRUE
    OBVIOUS
  <2> QED BY <1>1, <2>1, <2>2 DEF Passed
<1>5. Typed'
  <2>1. step' \in DOMAIN Script(task') /\ step' \in Nat \ {0}
    BY <1>1, SetupOrder
  <2>2. task' \in 0 .. Len(Plan) + 1
    BY <1>1, <1>2
  <2>3. seen' \in [attempted : BOOLEAN, handle : BOOLEAN, identity : BOOLEAN, persisted : BOOLEAN,
                   failure : BOOLEAN, cleaned : BOOLEAN, rc : {"none", "zero", "bad"}]
    BY <1>1 DEF NotSeen
  <2>4. debited' \in [Kinds -> Nat]
    BY <1>1
  <2>5. launches' \in Nat /\ current' \in Launch /\ tree' \in [Launch -> [leader : Leader, kid : Kid]]
        /\ alive' \in BOOLEAN /\ failed' \in BOOLEAN
    BY <1>1 DEF IInv, Typed
  <2> QED BY <2>1, <2>2, <2>3, <2>4, <2>5 DEF Typed
<1>6. Blank'
  BY <1>1, <1>3 DEF IInv, Blank, Sidecar, Fresh
<1>7. OnDisk'
  BY <1>3, <1>4 DEF OnDisk
<1>8. Books'
  <2>1. Debits' = 0
    BY <1>1 DEF Debits, Kinds
  <2>2. {t \in Task : t < 0} = {}
    BY <1>2
  <2> QED BY <1>1, <1>4, <2>1, <2>2 DEF Books
<1>9. Trees'
  <2>1. Started' = Started /\ \A l : Alive(l)' = Alive(l)
    BY <1>1 DEF Started, Alive
  <2>2. OneTree'
    BY <2>1 DEF IInv, Trees, OneTree
  <2> QED BY <1>1, <1>3, <1>4, <2>1, <2>2 DEF IInv, Trees, Sidecar
<1>10. Observing'
  <2>1. ~Watching'
    BY <1>1, <1>4 DEF Watching
  <2> QED BY <1>1, <1>3, <2>1 DEF Observing
<1>11. Reports'
  BY <1>1, <1>3 DEF IInv, Reports, NoSummary, SummaryFile, Exists
<1> QED BY <1>5, <1>6, <1>7, <1>8, <1>9, <1>10, <1>11 DEF IInv

\* The worker dies, by itself or with the host.
LEMMA DeathKeeps ==
  ASSUME IInv, alive' = FALSE, at' = "idle",
         tree' \in [Launch -> [leader : Leader, kid : Kid]],
         \A l \in Launch : /\ Fresh(l) => Fresh(l)'
                           /\ Resting(l) => Resting(l)'
                           /\ Alive(l)' => Alive(l)
                           /\ tree[l].leader = "none" <=> tree'[l].leader = "none"
                           /\ tree'[l].leader = "none" => tree'[l].kid = "none"
                           /\ tree'[l].kid # "child",
         UNCHANGED <<launches, current, seen, task, step, failed, summary, published>>,
         UNCHANGED <<debited, active, committed>>,
         \/ Running /\ Breaks(File)
         \/ UNCHANGED stable /\ torn' \subseteq torn
  PROVE  IInv'
<1>1. stable \subseteq stable'
  BY DEF Breaks, Create
<1>2. /\ SummaryFile \in stable' => SummaryFile \in stable
      /\ \A t \in Task : Exists(<<t, "intent">>)' =>
           Exists(<<t, "intent">>) \/ (Passed(t, "bind") /\ SummaryFile \notin stable)
      /\ Sidecar \notin stable' => stable' = stable /\ torn' \subseteq torn \cup {Sidecar}
  <2>1. CASE Running /\ Breaks(File)
    <3>1. /\ stable' \subseteq stable \cup {File} /\ torn' \subseteq torn \cup {File}
      BY <2>1 DEF Breaks, Create
    <3>2. /\ File # SummaryFile
          /\ \A t \in Task : File = <<t, "intent">> => Passed(t, "bind") /\ SummaryFile \notin stable
          /\ File # Sidecar => Sidecar \in stable
      BY <2>1, OwnFile
    <3>3. SummaryFile \in stable' => SummaryFile \in stable
      BY <3>1, <3>2
    <3>4. Sidecar \notin stable' => stable' = stable /\ torn' \subseteq torn \cup {Sidecar}
      BY <1>1, <3>1, <3>2
    <3>5. ASSUME NEW t \in Task, Exists(<<t, "intent">>)', ~Exists(<<t, "intent">>)
          PROVE  Passed(t, "bind") /\ SummaryFile \notin stable
      <4>1. <<t, "intent">> = File
        BY <3>1, <3>5 DEF Exists
      <4> QED BY <3>2, <4>1
    <3> QED BY <3>3, <3>4, <3>5
  <2>2. CASE UNCHANGED stable /\ torn' \subseteq torn
    BY <2>2 DEF Exists
  <2> QED BY <2>1, <2>2
<1>3. (\A t, d : Passed(t, d)' = Passed(t, d)) /\ Began' = Began
  BY SamePlace
<1>4. Typed'
  BY DEF IInv, Typed
<1>5. Blank'
  BY <1>1, <1>2, KeepsBlank DEF IInv
<1>6. OnDisk'
  BY <1>1, <1>2, KeepsOnDisk DEF IInv
<1>7. Books'
  BY <1>1, KeepsBooks DEF IInv
<1>8. Observing'
  BY DEF IInv, Observing
<1>9. Reports'
  BY <1>1, <1>2, KeepsReports DEF IInv
<1>10. Trees'
  <2>1. Started' = Started
    BY DEF Started
  <2>2. OneTree'
    BY DEF IInv, Trees, OneTree
  <2>3. (\A l \in Launch : Passed(l, "verdict") => Resting(l) /\ <<l, "spawn_identity">> \in stable)'
    BY <1>1, <1>3 DEF IInv, Trees
  <2>4. (\A l \in Started : {Sidecar, <<l, "intent">>, <<l, "preparation">>} \subseteq stable)'
    BY <1>1, <2>1 DEF IInv, Trees, Sidecar
  <2> QED BY <2>1, <2>2, <2>3, <2>4 DEF IInv, Trees
<1> QED BY <1>4, <1>5, <1>6, <1>7, <1>8, <1>9, <1>10 DEF IInv

LEMMA KilledKeeps == IInv /\ Killed => IInv'
<1> SUFFICES ASSUME IInv, Killed PROVE IInv'
  OBVIOUS
<1>1. /\ alive' = FALSE /\ at' = "idle" /\ tree' = [l \in Launch |-> Orphan(tree[l])]
      /\ UNCHANGED <<launches, current, seen, task, step, failed, summary, published>>
      /\ UNCHANGED <<debited, active, committed>>
  BY DEF Killed, memory
<1>2. \/ Running /\ Breaks(File)
      \/ UNCHANGED stable /\ torn' \subseteq torn
  BY DEF Killed, disk
<1>3. ASSUME NEW l \in Launch
      PROVE  /\ tree'[l] \in [leader : Leader, kid : Kid]
             /\ Fresh(l) => Fresh(l)'
             /\ Resting(l) => Resting(l)'
             /\ Alive(l)' => Alive(l)
             /\ tree[l].leader = "none" <=> tree'[l].leader = "none"
             /\ tree'[l].leader = "none" => tree'[l].kid = "none"
             /\ tree'[l].kid # "child"
  <2>1. tree[l].leader \in Leader /\ tree[l].kid \in Kid
        /\ (tree[l].leader = "none" => tree[l].kid = "none")
    BY DEF IInv, Typed, Trees
  <2>2. /\ tree'[l].leader = CASE tree[l].leader = "live" -> "orphan"
                               [] tree[l].leader \in {"zero", "bad"} -> "reaped"
                               [] OTHER -> tree[l].leader
        /\ tree'[l].kid = IF tree[l].kid \in {"child", "adopted"} THEN "orphan" ELSE tree[l].kid
        /\ tree'[l] = [leader |-> tree'[l].leader, kid |-> tree'[l].kid]
    BY <1>1 DEF Orphan
  <2>3. tree'[l].leader \in Leader /\ tree'[l].kid \in Kid
    BY <2>1, <2>2 DEF Leader, Kid
  <2>4. tree'[l] \in [leader : Leader, kid : Kid]
    BY <2>2, <2>3
  <2>5. /\ tree[l].leader = "none" <=> tree'[l].leader = "none"
        /\ tree'[l].leader = "none" => tree'[l].kid = "none"
        /\ tree'[l].kid # "child"
    BY <2>1, <2>2
  <2>6. /\ Fresh(l) => Fresh(l)'
        /\ Resting(l) => Resting(l)'
        /\ Alive(l)' => Alive(l)
    BY <2>1, <2>2 DEF Fresh, Resting, Alive, Leader
  <2> QED BY <2>4, <2>5, <2>6
<1>4. tree' \in [Launch -> [leader : Leader, kid : Kid]]
  BY <1>1, <1>3
<1> QED BY <1>1, <1>2, <1>3, <1>4, DeathKeeps

LEMMA PowerLostKeeps == IInv /\ PowerLost => IInv'
<1> SUFFICES ASSUME IInv, PowerLost PROVE IInv'
  OBVIOUS
<1>1. /\ alive' = FALSE /\ at' = "idle"
      /\ tree' = [l \in Launch |-> IF tree[l].leader = "none" THEN NoTree
                                   ELSE [leader |-> "reaped", kid |-> "gone"]]
      /\ UNCHANGED <<launches, current, seen, task, step, failed, summary, published>>
      /\ UNCHANGED <<debited, active, committed>>
      /\ UNCHANGED stable /\ torn' \subseteq torn
  BY DEF PowerLost, memory, LosePower
<1>2. ASSUME NEW l \in Launch
      PROVE  /\ tree'[l] \in [leader : Leader, kid : Kid]
             /\ Fresh(l) => Fresh(l)'
             /\ Resting(l) => Resting(l)'
             /\ Alive(l)' => Alive(l)
             /\ tree[l].leader = "none" <=> tree'[l].leader = "none"
             /\ tree'[l].leader = "none" => tree'[l].kid = "none"
             /\ tree'[l].kid # "child"
  <2>1. CASE tree[l].leader = "none"
    <3>1. tree'[l] = [leader |-> "none", kid |-> "none"]
      BY <1>1, <2>1 DEF NoTree
    <3> QED BY <2>1, <3>1 DEF Fresh, Resting, Alive, Leader, Kid
  <2>2. CASE tree[l].leader # "none"
    <3>1. tree'[l] = [leader |-> "reaped", kid |-> "gone"]
      BY <1>1, <2>2
    <3> QED BY <2>2, <3>1 DEF Fresh, Resting, Alive, Leader, Kid
  <2> QED BY <2>1, <2>2
<1>3. tree' \in [Launch -> [leader : Leader, kid : Kid]]
  BY <1>1, <1>2
<1> QED BY <1>1, <1>2, <1>3, DeathKeeps

LEMMA InitInv == Init => IInv
<1> SUFFICES ASSUME Init PROVE IInv
  OBVIOUS
<1>1. /\ task = 0 /\ step = 1 /\ failed = FALSE /\ alive = FALSE
      /\ debited = [k \in Kinds |-> 0] /\ active = {} /\ committed = {}
      /\ summary = NoSummary /\ at = "idle" /\ seen = NotSeen /\ torn = {} /\ stable = {}
      /\ tree = [l \in Launch |-> NoTree] /\ launches = 0 /\ current \in Launch
  BY DEF Init, LaunchInit
<1>2. Len(Plan) \in Nat /\ Task = 1 .. Len(Plan) /\ Launch \subseteq Task
  BY Plans
<1>3. ~Began
  BY <1>1 DEF Began
<1>4. \A t, d : ~Passed(t, d)
  <2>1. \A t, d : ~(t \in 0 .. Len(Plan) /\ t < 0 /\ d \in StepsOf(t))
    BY <1>2
  <2>2. ~\E i \in 1 .. 1 - 1 : TRUE
    OBVIOUS
  <2> QED BY <1>1, <2>1, <2>2 DEF Passed
<1>5. \A l \in Launch : /\ Fresh(l) /\ ~Alive(l)
                        /\ tree[l].leader = "none" /\ tree[l].kid = "none"
                        /\ tree[l] \in [leader : Leader, kid : Kid]
  BY <1>1 DEF Fresh, Alive, NoTree, Leader, Kid
<1>6. Typed
  <2>1. step \in DOMAIN Script(task) /\ step \in Nat \ {0} /\ task \in 0 .. Len(Plan) + 1
    BY <1>1, <1>2, SetupOrder
  <2>2. seen \in [attempted : BOOLEAN, handle : BOOLEAN, identity : BOOLEAN, persisted : BOOLEAN,
                  failure : BOOLEAN, cleaned : BOOLEAN, rc : {"none", "zero", "bad"}]
    BY <1>1 DEF NotSeen
  <2>3. tree \in [Launch -> [leader : Leader, kid : Kid]]
    BY <1>1, <1>5
  <2>4. debited \in [Kinds -> Nat]
    BY <1>1
  <2>5. alive \in BOOLEAN /\ failed \in BOOLEAN /\ launches \in Nat /\ current \in Launch
    BY <1>1
  <2> QED BY <2>1, <2>2, <2>3, <2>4, <2>5 DEF Typed
<1>7. Blank
  BY <1>1, <1>3, <1>5 DEF Blank
<1>8. OnDisk
  BY <1>3, <1>4 DEF OnDisk
<1>9. Books
  <2>1. Debits = 0
    BY <1>1 DEF Debits, Kinds
  <2>2. {t \in Task : t < 0} = {}
    BY <1>2
  <2> QED BY <1>1, <1>4, <2>1, <2>2 DEF Books
<1>10. Trees
  <2>1. Started = {}
    BY <1>5 DEF Started
  <2>2. launches = Cardinality(Started)
    BY <1>1, <2>1, FS_EmptySet
  <2> QED BY <1>3, <1>4, <1>5, <2>1, <2>2 DEF Trees, OneTree
<1>11. Observing
  BY <1>1, <1>3, <1>4 DEF Observing
<1>12. Reports
  BY <1>1 DEF Reports
<1> QED BY <1>6, <1>7, <1>8, <1>9, <1>10, <1>11, <1>12 DEF IInv

LEMMA StepInv == IInv /\ [Next]_vars => IInv'
<1> SUFFICES ASSUME IInv, [Next]_vars PROVE IInv'
  OBVIOUS
<1>1. CASE Publish
  BY <1>1, PublishKeeps
<1>2. CASE Work
  BY <1>2, WorkKeeps
<1>3. CASE Refused
  BY <1>3, RefusedKeeps
<1>4. CASE Observe
  BY <1>4, ObserveKeeps
<1>5. CASE Watch
  BY <1>5, WatchStepKeeps
<1>6. CASE OnSpawn
  BY <1>6, OnSpawnKeeps
<1>7. CASE Observed
  BY <1>7, ObservedKeeps
<1>8. CASE Summarise
  BY <1>8, SummariseKeeps
<1>9. CASE Finish
  BY <1>9, FinishKeeps
<1>10. CASE Broken
  BY <1>10, BrokenKeeps
<1>11. CASE WatchRaises
  BY <1>11, WatchRaisesKeeps
<1>12. CASE Start
  BY <1>12, StartKeeps
<1>13. CASE Killed
  BY <1>13, KilledKeeps
<1>14. CASE PowerLost
  BY <1>14, PowerLostKeeps
<1>15. CASE Environment
  BY <1>15, EnvironmentKeeps
<1>16. CASE UNCHANGED vars
  <2>1. /\ UNCHANGED <<torn, stable, task, step, alive, failed, summary, published>>
        /\ UNCHANGED <<debited, committed, active, tree, launches, current, at, seen>>
    BY <1>16 DEF vars, launchVars, disk, memory
  <2>2. Blank' /\ OnDisk' /\ Books' /\ Trees' /\ Reports'
    BY <2>1, NoFileKeeps
  <2>3. Observing'
    BY <2>1, KeepsObserving DEF IInv, Fresh, Resting
  <2>4. Typed'
    BY <2>1 DEF IInv, Typed
  <2> QED BY <2>2, <2>3, <2>4 DEF IInv
<1> QED BY <1>1, <1>2, <1>3, <1>4, <1>5, <1>6, <1>7, <1>8, <1>9, <1>10, <1>11, <1>12, <1>13,
           <1>14, <1>15, <1>16 DEF Next, Progress

-----------------------------------------------------------------------------
\* The controller's place in its plan, its files, its books and the processes
\* it started agree, in every life of the package: e116's run() over e113's
\* observe_tessent(), whatever is killed, refused or lost.
THEOREM Inductive == Spec => []IInv
BY InitInv, StepInv, PTL DEF Spec

\* Every launcher ever started has its own debit and preparation on stable
\* storage: what Popen in observe_tessent() was given was paid for, once.
THEOREM PaidFor == Spec => []SpawnPaidFor
<1>1. IInv => SpawnPaidFor
  <2> SUFFICES ASSUME IInv PROVE SpawnPaidFor
    OBVIOUS
  <2> DEFINE Paid == {l \in Launch : <<l, "intent">> \in stable}
  <2>1. Started \in SUBSET Paid
    BY DEF IInv, Trees, Started
  <2>2. IsFiniteSet(Paid)
    <3>1. Paid \in SUBSET Launch
      OBVIOUS
    <3> QED BY <3>1, Plans, FS_Subset
  <2> HIDE DEF Paid
  <2>3. Cardinality(Started) <= Cardinality(Paid)
    BY <2>1, <2>2, FS_Subset
  <2>4. launches <= Cardinality(Paid)
    BY <2>3 DEF IInv, Trees
  <2>5. \A l \in Launch : tree[l].leader # "none" =>
          {<<0, "sidecar">>, <<l, "intent">>, <<l, "preparation">>} \subseteq stable
    BY DEF IInv, Trees, Started, Sidecar
  <2> QED BY <2>4, <2>5 DEF SpawnPaidFor, Paid
<1> QED BY <1>1, Inductive, PTL

\* The processes of two launches are never alive together: the controller
\* starts none while it cannot tell that the last has ended, and a worker
\* that starts after a killed one finds the sidecar.
THEOREM OneAtATime == Spec => []OneTree
<1>1. IInv => OneTree
  BY DEF IInv, Trees
<1> QED BY <1>1, Inductive, PTL

\* What the binder's commit() hands on is whole: every file of the task is on
\* stable storage, its parent is committed, and nothing it started is left.
THEOREM Whole == Spec => []CommittedIsWhole
<1>1. IInv => CommittedIsWhole
  <2> SUFFICES ASSUME IInv, NEW t \in committed
               PROVE  /\ FilesOf(t) \subseteq stable
                      /\ Plan[t].parent # 0 => Plan[t].parent \in committed
                      /\ t \in Launch => ~Alive(t) /\ ~DirectChild(t)
    BY DEF CommittedIsWhole
  <2>1. t \in Task /\ t < task /\ t \in 0 .. Len(Plan)
    BY Plans DEF IInv, Books
  <2>2. /\ {"bind", "intent"} \subseteq StepsOf(t)
        /\ t \in Launch => {"preparation", "observe", "verdict"} \subseteq StepsOf(t)
    BY <2>1, Order
  <2>3. \A d \in StepsOf(t) : Passed(t, d)
    BY <2>1 DEF Passed
  <2>4. t \in Launch => Resting(t) /\ <<t, "spawn_identity">> \in stable
    BY <2>2, <2>3 DEF IInv, Trees
  <2>5. FilesOf(t) \subseteq stable
    <3>1. \A d \in StepsOf(t) \ Quiet : <<t, d>> \in stable
      BY <2>1, <2>3 DEF IInv, OnDisk
    <3> QED BY <2>4, <3>1 DEF FilesOf, StepsOf
  <2>6. Plan[t].parent # 0 => Plan[t].parent \in committed
    BY <2>1, <2>2, <2>3 DEF IInv, Books
  <2>7. t \in Launch => ~Alive(t) /\ ~DirectChild(t)
    BY <2>4 DEF Resting, Alive, DirectChild
  <2> QED BY <2>5, <2>6, <2>7
<1> QED BY <1>1, Inductive, PTL

\* What the summary says, in whatever life it is read, is true of the disk:
\* the debits, the completed tasks and the task it names.
THEOREM Accounts == Spec => []SummaryAccounts
<1>1. IInv => SummaryAccounts
  <2> SUFFICES ASSUME IInv, SummaryFile \in stable PROVE SummaryAccounts
    BY DEF SummaryAccounts
  <2>1. /\ published.status = "collected" => published.completed = Task
        /\ published.completed \subseteq Task
        /\ \A t \in published.completed : FilesOf(t) \subseteq stable
        /\ \A t \in published.named : /\ t \notin published.completed
                                      /\ <<t, IF t = 0 THEN "sidecar" ELSE "intent">> \in stable
    BY DEF IInv, Reports
  <2>2. PICK n \in 0 .. Len(Plan) :
            /\ published.debited["TESSENT"] + published.debited["TRANSLATION"] = n
            /\ \A t \in Task : /\ Exists(<<t, "intent">>) => t <= n
                               /\ t < n => <<t, "intent">> \in stable
    BY DEF IInv, Reports
  <2>3. Len(Plan) \in Nat /\ Task = 1 .. Len(Plan)
    BY Plans
  <2>4. n \in {Intents, Intents + 1}
    <3> DEFINE I == {t \in Task : Exists(<<t, "intent">>)}
    <3>1. \A t \in Task : t < n => t \in I
      BY <2>2 DEF Exists
    <3>2. \A t \in I : t <= n
      BY <2>2
    <3>3. CASE n \in I
      <4>1. I = 1 .. n
        BY <2>3, <3>1, <3>2, <3>3
      <4>2. Cardinality(1 .. n) = n
        BY <2>3, FS_Interval
      <4> QED BY <4>1, <4>2 DEF Intents
    <3>4. CASE n \notin I
      <4>1. I = 1 .. n - 1
        BY <2>3, <3>1, <3>2, <3>4
      <4>2. n = 0 => I = {}
        BY <4>1
      <4>3. n # 0 => Cardinality(1 .. n - 1) = n - 1
        BY <2>3, FS_Interval
      <4>4. Cardinality(I) = IF n = 0 THEN 0 ELSE n - 1
        BY <4>1, <4>2, <4>3, FS_EmptySet
      <4>5. n # 0 => Intents + 1 = n
        BY <2>3, <4>4 DEF Intents
      <4>6. n = 0 => Intents = n
        BY <4>4 DEF Intents
      <4> QED BY <4>5, <4>6
    <3> QED BY <3>3, <3>4
  <2>5. \A t \in published.completed : <<t, "ack">> \in stable
    <3> SUFFICES ASSUME NEW t \in published.completed PROVE <<t, "ack">> \in stable
      OBVIOUS
    <3>1. t \in Task /\ FilesOf(t) \subseteq stable
      BY <2>1
    <3>2. /\ Len(Script(t)) \in DOMAIN Script(t) /\ Script(t)[Len(Script(t))] = "ack"
          /\ "ack" \notin Quiet
      <4>1. Len(Script(t)) \in DOMAIN Script(t)
        BY <3>1, Order
      <4> QED BY <3>1, <4>1, Order DEF Quiet
    <3> QED BY <3>1, <3>2 DEF FilesOf
  <2>6. published.status = "collected" =>
          published.completed = Task /\ \A t \in Task : FilesOf(t) \subseteq stable
    BY <2>1
  <2> QED BY <2>1, <2>2, <2>4, <2>5, <2>6 DEF SummaryAccounts
<1> QED BY <1>1, Inductive, PTL
=============================================================================
