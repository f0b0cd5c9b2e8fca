--------------------------- MODULE TopKReplay_proofs ---------------------------
(***************************************************************************)
(* For any number of calls, rankings and actions: the first event of the   *)
(* ledger, written exclusively, makes its call the only one that ever      *)
(* opens the outcomes; and what that call publishes is made of the frozen  *)
(* ranking, unless the ranking was written under it.                       *)
(*                                                                         *)
(* The loop that published it stops at the first positive and charges all  *)
(* up to it: it is a fold, as the sum of the costs is, a fold from the     *)
(* left is a run over the sequence, and the two runs go together up to the *)
(* first label, which is that of the first positive behind the checks of   *)
(* the dataset.  The sum of one or two costs is also that of math.fsum();  *)
(* of more it need not be.                                                 *)
(*                                                                         *)
(* What aggregate_charges() accepts is what a serial executor leaves: both *)
(* are the rows of a number of stages, of the last try of each, and of the *)
(* status of the last one.  A history grows by one such row at a time; an  *)
(* accepted set has as many rows of a stage as its retries count.          *)
(***************************************************************************)
EXTENDS TopKReplay, FiniteSetTheorems, SequenceTheorems, NaturalsInduction, TLAPS

\* The events of the access ledger.
Verified == "PREOUTCOME_RECEIPT_VERIFIED"
Recorded == <<Verified, "OUTCOMES_OPENED_AFTER_FREEZE">>
Event == {Verified, "OUTCOMES_OPENED_AFTER_FREEZE", "TORN"}

\* The types of what the calls share and of what each holds.
Typed ==
  /\ at \in [Caller -> {"start", "validate", "read", "receipt", "open", "record",
                        "replay", "digest", "write", "gone"}]
  /\ held \in [Caller -> Rankings \cup {NotRead}]
  /\ sha \in [Caller -> Rankings \cup {NotRead}]
  /\ ledger \in Seq(Event)
  /\ opened \subseteq Caller
  /\ outcome \in Outcomes /\ ranking \in Rankings /\ frozen \in Rankings

\* The calls that wrote the first event and went on, or have opened.
Holding == {c \in Caller : at[c] \in {"open", "record", "replay", "digest", "write"}}
Holders == opened \cup Holding

\* There is one holder at most, and the ledger shows its first event.
OneHolder ==
  /\ \A c, d \in Holders : c = d
  /\ Holders # {} => ledger # <<>> /\ ledger[1] = Verified

\* What a call relies on between two steps, and what the result was made of.
Events ==
  /\ \A c \in Caller : /\ at[c] \in {"open", "record"} => ledger = <<Verified>>
                       /\ at[c] \in {"replay", "digest", "write"} => ledger = Recorded
                       /\ at[c] \in {"record", "replay", "digest", "write"} => c \in opened
  /\ Published => /\ ledger = Recorded
                  /\ output.by \in opened /\ at[output.by] = "gone"

\* A call under which the ranking was not written has read the frozen one.
Undisturbed == \A c \in Caller \ disturbed :
  /\ at[c] \notin {"start", "validate", "gone"} => ranking = frozen
  /\ at[c] \in {"receipt", "open", "record", "replay", "digest", "write"} => held[c] = frozen
  /\ at[c] = "write" => sha[c] = frozen

\* The inductive invariant.
IInv == Typed /\ OneHolder /\ Events /\ Undisturbed

\* Before anything is called there is no holder and no event.
LEMMA InitInv == Init => IInv
<1> SUFFICES ASSUME Init PROVE IInv
  OBVIOUS
<1>1. Typed
  BY DEF Init, Typed
<1>2. Holders = {}
  BY DEF Init, Holders, Holding
<1>3. OneHolder
  BY <1>2 DEF OneHolder
<1>4. Events
  BY DEF Init, Events, Published, NoOutput
<1>5. Undisturbed
  BY DEF Init, Undisturbed
<1> QED BY <1>1, <1>3, <1>4, <1>5 DEF IInv

\* What an event does to the ledger it is appended to.
LEMMA AppendKeepsFirst ==
  ASSUME NEW s \in Seq(Event), NEW e \in Event
  PROVE  /\ Append(s, e) \in Seq(Event)
         /\ Append(s, e) # <<>>
         /\ s # <<>> => Append(s, e)[1] = s[1]
<1>1. /\ Append(s, e) \in Seq(Event)
      /\ Append(s, e) # <<>>
      /\ \A i \in 1 .. Len(s) : Append(s, e)[i] = s[i]
  BY AppendProperties
<1>2. s # <<>> => Len(s) \in Nat \ {0}
  BY EmptySeq
<1>3. s # <<>> => 1 \in 1 .. Len(s)
  BY <1>2
<1> QED BY <1>1, <1>3

\* The ledger of a call that wrote its first event, and of one that wrote both.
LEMMA Ledgers ==
  /\ <<Verified>> \in Seq(Event) /\ <<Verified>> # <<>> /\ <<Verified>>[1] = Verified
  /\ Append(<<Verified>>, "OUTCOMES_OPENED_AFTER_FREEZE") = Recorded
<1>1. <<Verified>> \in Seq(Event) /\ <<Verified>> # <<>> /\ <<Verified>>[1] = Verified
  BY DEF Event
<1> DEFINE e == "OUTCOMES_OPENED_AFTER_FREEZE"
           s == Append(<<Verified>>, e)
<1>2. s \in Seq(Event) /\ Len(s) = 2 /\ s[1] = Verified /\ s[2] = e
  <2>1. e \in Event /\ Len(<<Verified>>) = 1 /\ 1 \in 1 .. Len(<<Verified>>)
    BY DEF Event
  <2> QED BY <1>1, <2>1, AppendProperties
<1>3. Recorded \in Seq(Event) /\ Len(Recorded) = 2 /\ Recorded[1] = Verified /\ Recorded[2] = e
  BY DEF Recorded, Event
<1>4. \A i \in 1 .. Len(s) : s[i] = Recorded[i]
  BY <1>2, <1>3
<1>5. s = Recorded
  <2> HIDE DEF s
  <2> QED BY <1>2, <1>3, <1>4, SeqEqual
<1> QED BY <1>1, <1>5

\* The step of one call keeps the invariant.
LEMMA CallInv == ASSUME IInv, NEW c \in Caller, Call(c) PROVE IInv'
<1>1. CASE Start(c)
  <2>1. Typed'
    BY <1>1 DEF IInv, Typed, Start, Goto, files
  <2>2. OneHolder'
    BY <1>1 DEF IInv, Typed, OneHolder, Events, Holders, Holding, Start, Goto, files
  <2>3. Events'
    BY <1>1 DEF IInv, Typed, OneHolder, Events, Holders, Holding, Published, NoOutput, Recorded, Start, Goto, files
  <2>4. Undisturbed'
    BY <1>1 DEF IInv, Typed, Undisturbed, Start, Goto, files
  <2> QED BY <2>1, <2>2, <2>3, <2>4 DEF IInv
<1>2. CASE Validate(c)
  <2>1. Typed'
    BY <1>2 DEF IInv, Typed, Validate, Goto, files
  <2>2. OneHolder'
    BY <1>2 DEF IInv, Typed, OneHolder, Events, Holders, Holding, Validate, Goto, files
  <2>3. Events'
    BY <1>2 DEF IInv, Typed, OneHolder, Events, Holders, Holding, Published, NoOutput, Recorded, Validate, Goto, files
  <2>4. Undisturbed'
    BY <1>2 DEF IInv, Typed, Undisturbed, Validate, Goto, files
  <2> QED BY <2>1, <2>2, <2>3, <2>4 DEF IInv
<1>3. CASE Read(c)
  <2>1. Typed'
    BY <1>3 DEF IInv, Typed, Read, Goto, files
  <2>2. OneHolder'
    BY <1>3 DEF IInv, Typed, OneHolder, Events, Holders, Holding, Read, Goto, files
  <2>3. Events'
    BY <1>3 DEF IInv, Typed, OneHolder, Events, Holders, Holding, Published, NoOutput, Recorded, Read, Goto, files
  <2>4. Undisturbed'
    BY <1>3 DEF IInv, Typed, Undisturbed, Read, Goto, files
  <2> QED BY <2>1, <2>2, <2>3, <2>4 DEF IInv
<1>4. CASE Receipt(c)
  <2>1. Typed'
    BY <1>4, Ledgers DEF IInv, Typed, Receipt, Goto, Verified
  <2>2. OneHolder'
    BY <1>4, Ledgers DEF IInv, Typed, OneHolder, Events, Holders, Holding, Receipt, Goto, Verified
  <2>3. Events'
    BY <1>4, Ledgers DEF IInv, Typed, OneHolder, Events, Holders, Holding, Published, Recorded, Receipt, Goto, Verified
  <2>4. Undisturbed'
    BY <1>4 DEF IInv, Typed, Undisturbed, Receipt, Goto
  <2> QED BY <2>1, <2>2, <2>3, <2>4 DEF IInv
<1>5. CASE Open(c)
  <2>1. Typed'
    BY <1>5 DEF IInv, Typed, Open, Goto, files
  <2>2. OneHolder'
    BY <1>5 DEF IInv, Typed, OneHolder, Events, Holders, Holding, Open, Goto, files
  <2>3. Events'
    BY <1>5 DEF IInv, Typed, OneHolder, Events, Holders, Holding, Published, NoOutput, Recorded, Open, Goto, files
  <2>4. Undisturbed'
    BY <1>5 DEF IInv, Typed, Undisturbed, Open, Goto, files
  <2> QED BY <2>1, <2>2, <2>3, <2>4 DEF IInv
<1>6. CASE Record(c)
  <2>1. Typed'
    BY <1>6, AppendKeepsFirst DEF IInv, Typed, Record, Goto, Event
  <2>2. OneHolder'
    BY <1>6, AppendKeepsFirst DEF IInv, Typed, OneHolder, Events, Holders, Holding, Record, Goto
  <2>3. Events'
    BY <1>6, Ledgers DEF IInv, Typed, OneHolder, Events, Holders, Holding, Published, Record, Goto
  <2>4. Undisturbed'
    BY <1>6, AppendKeepsFirst DEF IInv, Typed, Undisturbed, Record, Goto
  <2> QED BY <2>1, <2>2, <2>3, <2>4 DEF IInv
<1>7. CASE Replay(c)
  <2>1. Typed'
    BY <1>7 DEF IInv, Typed, Replay, Goto, files
  <2>2. OneHolder'
    BY <1>7 DEF IInv, Typed, OneHolder, Events, Holders, Holding, Replay, Goto, files
  <2>3. Events'
    BY <1>7 DEF IInv, Typed, OneHolder, Events, Holders, Holding, Published, NoOutput, Recorded, Replay, Goto, files
  <2>4. Undisturbed'
    BY <1>7 DEF IInv, Typed, Undisturbed, Replay, Goto, files
  <2> QED BY <2>1, <2>2, <2>3, <2>4 DEF IInv
<1>8. CASE Digest(c)
  <2>1. Typed'
    BY <1>8 DEF IInv, Typed, Digest, Goto, files
  <2>2. OneHolder'
    BY <1>8 DEF IInv, Typed, OneHolder, Events, Holders, Holding, Digest, Goto, files
  <2>3. Events'
    BY <1>8 DEF IInv, Typed, OneHolder, Events, Holders, Holding, Published, NoOutput, Recorded, Digest, Goto, files
  <2>4. Undisturbed'
    BY <1>8 DEF IInv, Typed, Undisturbed, Digest, Goto, files
  <2> QED BY <2>1, <2>2, <2>3, <2>4 DEF IInv
<1>9. CASE Write(c)
  <2>1. Typed'
    BY <1>9 DEF IInv, Typed, Write, Goto
  <2>2. OneHolder'
    BY <1>9 DEF IInv, Typed, OneHolder, Events, Holders, Holding, Write, Goto
  <2>3. Events'
    BY <1>9 DEF IInv, Typed, OneHolder, Events, Holders, Holding, Published, NoOutput, Recorded, Write, Goto
  <2>4. Undisturbed'
    BY <1>9 DEF IInv, Typed, Undisturbed, Write, Goto
  <2> QED BY <2>1, <2>2, <2>3, <2>4 DEF IInv
<1>10. CASE Ends(c)
  <2>1. Typed'
    BY <1>10, AppendKeepsFirst DEF IInv, Typed, Ends, Event
  <2>2. OneHolder'
    <3>1. Holders' \subseteq Holders
      BY <1>10 DEF IInv, Typed, Holders, Holding, Ends
    <3>2. ledger # <<>> => ledger' # <<>> /\ ledger'[1] = ledger[1]
      BY <1>10, AppendKeepsFirst DEF IInv, Typed, Ends, Event
    <3> QED BY <3>1, <3>2 DEF IInv, OneHolder
  <2>3. Events'
    BY <1>10, AppendKeepsFirst DEF IInv, Typed, OneHolder, Events, Holders, Holding, Published, NoOutput, Recorded, Ends
  <2>4. Undisturbed'
    BY <1>10, AppendKeepsFirst DEF IInv, Typed, Undisturbed, Ends
  <2> QED BY <2>1, <2>2, <2>3, <2>4 DEF IInv
<1> QED BY <1>1, <1>2, <1>3, <1>4, <1>5, <1>6, <1>7, <1>8, <1>9, <1>10 DEF Call

\* A ranking generated again disturbs the calls that rely on the old one.
LEMMA RerankInv == ASSUME IInv, Rerank PROVE IInv'
<1>1. Typed'
  BY DEF IInv, Typed, Rerank
<1>2. OneHolder'
  BY DEF IInv, OneHolder, Holders, Holding, Rerank
<1>3. Events'
  BY DEF IInv, Events, Published, Rerank
<1>4. Undisturbed'
  BY DEF IInv, Typed, Undisturbed, Rerank
<1> QED BY <1>1, <1>2, <1>3, <1>4 DEF IInv

\* Every step keeps it.
LEMMA StepInv == IInv /\ [Next]_vars => IInv'
<1> SUFFICES ASSUME IInv, [Next]_vars PROVE IInv'
  OBVIOUS
<1>1. CASE UNCHANGED vars
  BY <1>1 DEF IInv, Typed, OneHolder, Events, Undisturbed, Holders, Holding, Published, vars, files
<1> QED BY <1>1, CallInv, RerankInv DEF Next

\* The invariant holds in every state.
THEOREM Invariant == Spec => []IInv
BY InitInv, StepInv, PTL DEF Spec

\* A set of calls that are all the same has at most one member.
LEMMA AtMostOne == IInv => OpenedOnce
<1> SUFFICES ASSUME IInv PROVE OpenedOnce
  OBVIOUS
<1>1. opened = {} \/ \E c \in opened : opened = {c}
  BY DEF IInv, OneHolder, Holders
<1>2. Cardinality(opened) <= 1
  BY <1>1, FS_EmptySet, FS_Singleton
<1>3. opened # {} => ledger # <<>> /\ ledger[1] = Verified
  BY DEF IInv, OneHolder, Holders
<1> QED BY <1>2, <1>3 DEF OpenedOnce, Verified

\* The outcomes are opened by one of the calls at most, however many run, stop
\* or are started again, and only behind the event that the freeze was verified.
THEOREM OutcomesOpenedOnce == Spec => []OpenedOnce
BY Invariant, AtMostOne, PTL

-----------------------------------------------------------------------------
\* The order on numbers as a relation.
Less == {ss \in Nat \X Nat : ss[1] < ss[2]}

\* It has no infinite descent.
LEMMA NatLessFounded == IsWellFoundedOn(Less, Nat)
BY NatLessThanWellFounded, Zenon DEF OpToRel, Less

\* Some numbers have a least one; it takes the place of an induction.
LEMMA LeastNumber ==
  ASSUME NEW T \in SUBSET Nat, T # {}
  PROVE  \E m \in T : \A n \in T : m <= n
<1>1. PICK m \in T : \A n \in T : ~(<<n, m>> \in Less)
  BY NatLessFounded, WFMin
<1>2. \A n \in T : ~(n < m)
  BY <1>1 DEF Less
<1> QED
  BY <1>2

\* A set of numbers below a bound has a greatest one.
LEMMA GreatestNumber ==
  ASSUME NEW n \in Nat, NEW S \in SUBSET (1 .. n), S # {}
  PROVE  Max(S) \in S /\ \A y \in S : y <= Max(S)
<1> DEFINE B == {b \in Nat : \A y \in S : y <= b}
<1>1. n \in B
  OBVIOUS
<1>2. PICK m \in B : \A b \in B : m <= b
  <2> B \in SUBSET Nat /\ B # {}
    BY <1>1
  <2> HIDE DEF B
  <2> QED BY LeastNumber
<1>3. m \in S
  <2>1. SUFFICES ASSUME m \notin S PROVE FALSE
    OBVIOUS
  <2>2. PICK y \in S : TRUE
    OBVIOUS
  <2>3. m - 1 \in Nat /\ \A z \in S : z <= m - 1
    BY <1>2, <2>1, <2>2
  <2> QED BY <1>2, <2>3
<1>4. \E x \in S : \A y \in S : x >= y
  BY <1>2, <1>3
<1> QED BY <1>4 DEF Max

\* The last index of an interval, and what is left without it.
LEMMA LastOfInterval ==
  ASSUME NEW n \in Nat
  PROVE  Max(1 .. (n + 1)) = n + 1 /\ (1 .. (n + 1)) \ {n + 1} = 1 .. n
<1> DEFINE N == n + 1
           S == 1 .. N
<1>1. N \in Nat /\ S \in SUBSET (1 .. N) /\ N \in S
  OBVIOUS
<1>2. Max(S) \in S /\ \A y \in S : y <= Max(S)
  <2> HIDE DEF N, S
  <2> QED BY <1>1, GreatestNumber
<1>3. Max(S) = N
  <2> DEFINE x == Max(S)
  <2>1. x \in S /\ N <= x
    BY <1>1, <1>2
  <2> HIDE DEF x
  <2>2. x = N
    BY <2>1
  <2> QED BY <2>2 DEF x
<1> QED BY <1>3

-----------------------------------------------------------------------------
\* g folds F over the elements of seq whose indices are in s, last index outermost.
IsFold(g, F, b, seq, s) ==
  g[s] = IF s = {} THEN b ELSE F[<<g[s \ {Max(s)}], seq[Max(s)]>>]

\* It does so for every set of indices, with values in T.
Folds(g, F, b, T, seq) ==
  \A s \in SUBSET (1 .. Len(seq)) : g[s] \in T /\ IsFold(g, F, b, seq, s)

\* It does so wherever the value it needs is in T.
FoldsIfTyped(g, F, b, T, seq) ==
  /\ g[{}] = b
  /\ \A s \in SUBSET (1 .. Len(seq)) :
       s # {} /\ g[s \ {Max(s)}] \in T => g[s] = F[<<g[s \ {Max(s)}], seq[Max(s)]>>]

\* There is such a function on the sets of indices: the least n up to which there
\* is none would be one more than an n up to which there is.
LEMMA FoldExists ==
  ASSUME NEW T, NEW A, NEW F \in [T \X A -> T], NEW b \in T, NEW seq \in Seq(A)
  PROVE  \E g \in [SUBSET (1 .. Len(seq)) -> T] :
            \A s \in SUBSET (1 .. Len(seq)) : IsFold(g, F, b, seq, s)
<1> DEFINE N == Len(seq)
           G == [SUBSET (1 .. N) -> T]
           Bad == {n \in 0 .. N : ~ \E g \in G : \A s \in SUBSET (1 .. n) : IsFold(g, F, b, seq, s)}
<1>0. N \in Nat
  OBVIOUS
<1> HIDE DEF N
<1>1. SUFFICES ASSUME Bad # {} PROVE FALSE
  <2>1. N \notin Bad
    BY <1>1
  <2>2. \E g \in G : \A s \in SUBSET (1 .. N) : IsFold(g, F, b, seq, s)
    <3>1. N \in 0 .. N
      BY <1>0
    <3> QED BY <2>1, <3>1, Zenon
  <2> QED BY <2>2 DEF N
<1>2. PICK m \in Bad : \A n \in Bad : m <= n
  <2> Bad \in SUBSET Nat
    BY <1>0
  <2> HIDE DEF Bad
  <2> QED BY <1>1, LeastNumber
<1>3. CASE m = 0
  <2> DEFINE g == [s \in SUBSET (1 .. N) |-> b]
  <2>1. g \in G
    OBVIOUS
  <2>2. \A s \in SUBSET (1 .. 0) : s = {} /\ g[s] = b
    OBVIOUS
  <2> QED BY <1>2, <1>3, <2>1, <2>2 DEF IsFold
<1>4. CASE m # 0
  <2>1. m - 1 \in 0 .. N /\ m \in 1 .. N /\ m - 1 \notin Bad
    <3>1. m \in 0 .. N
      BY <1>2
    <3>2. m - 1 \in 0 .. N /\ m \in 1 .. N /\ ~(m <= m - 1)
      BY <1>0, <1>4, <3>1
    <3> HIDE DEF Bad
    <3> QED BY <1>2, <3>2
  <2>2. PICK f \in G : \A s \in SUBSET (1 .. (m - 1)) : IsFold(f, F, b, seq, s)
    BY <2>1
  <2> DEFINE Next1(s) == F[<<f[s \ {Max(s)}], seq[Max(s)]>>]
             g == [s \in SUBSET (1 .. N) |-> IF s = {} THEN b ELSE IF m \in s THEN Next1(s) ELSE f[s]]
  <2>3. \A s \in SUBSET (1 .. N) : s # {} => Max(s) \in s /\ Next1(s) \in T
    <3> SUFFICES ASSUME NEW s \in SUBSET (1 .. N), s # {} PROVE Max(s) \in s /\ Next1(s) \in T
      OBVIOUS
    <3>1. Max(s) \in s
      BY <1>0, GreatestNumber
    <3>2. s \ {Max(s)} \in SUBSET (1 .. N) /\ seq[Max(s)] \in A
      <4> DEFINE x == Max(s)
      <4>1. x \in 1 .. N
        BY <3>1
      <4> HIDE DEF x
      <4>2. seq[x] \in A
        BY <4>1 DEF N
      <4> QED BY <4>2 DEF x
    <3>3. f[s \ {Max(s)}] \in T
      BY <2>2, <3>2
    <3> QED BY <3>1, <3>2, <3>3
  <2>4. g \in G
    <3> HIDE DEF Next1
    <3> QED BY <2>2, <2>3
  <2>5. ASSUME NEW s \in SUBSET (1 .. m) PROVE IsFold(g, F, b, seq, s)
    <3>0. s \in SUBSET (1 .. N)
      BY <1>0, <2>1
    <3>1. CASE s = {}
      BY <3>0, <3>1 DEF IsFold
    <3>2. CASE s # {}
      <4>1. Max(s) \in s /\ \A y \in s : y <= Max(s)
        BY <3>0, <3>2, <1>0, GreatestNumber
      <4> DEFINE r == s \ {Max(s)}
      <4>2. r \in SUBSET (1 .. (m - 1)) /\ r \in SUBSET (1 .. N) /\ m \notin r
        <5> DEFINE x == Max(s)
        <5>1. x \in s /\ \A y \in s : y <= x
          BY <4>1
        <5> HIDE DEF x
        <5>2. \A y \in s \ {x} : y \in 1 .. (m - 1)
          BY <2>1, <5>1
        <5>3. m \notin s \ {x}
          BY <2>1, <5>2
        <5>4. s \ {x} \in SUBSET (1 .. N)
          BY <3>0
        <5> QED BY <5>2, <5>3, <5>4 DEF x
      <4> HIDE DEF r
      <4>3. g[r] = f[r]
        <5>1. CASE r = {}
          BY <2>2, <4>2, <5>1 DEF IsFold
        <5>2. CASE r # {}
          BY <4>2, <5>2
        <5> QED BY <5>1, <5>2
      <4>4. g[s] = F[<<f[r], seq[Max(s)]>>]
        <5>1. CASE m \in s
          BY <3>0, <3>2, <5>1 DEF r
        <5>2. CASE m \notin s
          <6>1. s \in SUBSET (1 .. (m - 1))
            BY <2>1, <5>2
          <6>2. f[s] = F[<<f[r], seq[Max(s)]>>]
            BY <2>2, <6>1, <3>2 DEF IsFold, r
          <6> QED BY <3>0, <3>2, <5>2, <6>2
        <5> QED BY <5>1, <5>2
      <4>5. g[s] = F[<<g[r], seq[Max(s)]>>]
        BY <4>3, <4>4
      <4> HIDE DEF g
      <4> QED BY <3>2, <4>5 DEF IsFold, r
    <3> QED BY <3>1, <3>2
  <2> HIDE DEF g
  <2> QED BY <1>2, <2>4, <2>5
<1> QED BY <1>3, <1>4

\* A function that obeys the equation of a fold wherever its argument is typed
\* is typed everywhere: a least bound of a set on which it is not.
LEMMA FoldTyped ==
  ASSUME NEW T, NEW A, NEW F \in [T \X A -> T], NEW b \in T, NEW seq \in Seq(A), NEW g,
         FoldsIfTyped(g, F, b, T, seq)
  PROVE  Folds(g, F, b, T, seq)
<1> USE DEF FoldsIfTyped
<1> DEFINE N == Len(seq)
           Bad == {n \in 0 .. N : \E s \in SUBSET (1 .. n) : g[s] \notin T}
<1>0. N \in Nat
  OBVIOUS
<1>1. ASSUME NEW s \in SUBSET (1 .. N), s # {}, g[s \ {Max(s)}] \in T
      PROVE  g[s] = F[<<g[s \ {Max(s)}], seq[Max(s)]>>] /\ g[s] \in T
  <2> DEFINE x == Max(s)
  <2>1. x \in 1 .. N
    BY <1>0, <1>1, GreatestNumber
  <2>2. g[s \ {x}] \in T /\ g[s] = F[<<g[s \ {x}], seq[x]>>]
    BY <1>1
  <2> HIDE DEF x
  <2>3. seq[x] \in A
    BY <2>1
  <2>4. g[s] \in T
    BY <2>2, <2>3
  <2> QED BY <2>2, <2>4 DEF x
<1> HIDE DEF N
<1>2. Bad = {}
  <2>1. SUFFICES ASSUME Bad # {} PROVE FALSE
    OBVIOUS
  <2>2. PICK m \in Bad : \A n \in Bad : m <= n
    <3> Bad \in SUBSET Nat
      BY <1>0
    <3> HIDE DEF Bad
    <3> QED BY <2>1, LeastNumber
  <2>3. PICK s \in SUBSET (1 .. m) : g[s] \notin T
    BY <2>2
  <2>4. s # {} /\ s \subseteq 1 .. m
    BY <2>3
  <2>5. m \in 1 .. N /\ s \in SUBSET (1 .. N)
    <3>1. m \in 0 .. N
      BY <2>2
    <3>2. m # 0
      <4>1. PICK y \in s : y \in 1 .. m
        BY <2>3, <2>4
      <4> QED BY <4>1
    <3> QED BY <1>0, <3>1, <3>2
  <2>6. g[s \ {Max(s)}] \notin T
    BY <1>1, <2>3, <2>4, <2>5
  <2>7. s \ {Max(s)} \in SUBSET (1 .. (m - 1))
    <3> DEFINE x == Max(s)
    <3>1. x \in s /\ \A y \in s : y <= x
      BY <1>0, <2>4, <2>5, GreatestNumber
    <3> HIDE DEF x
    <3>2. s \ {x} \in SUBSET (1 .. (m - 1))
      BY <2>5, <3>1
    <3> QED BY <3>2 DEF x
  <2>8. m - 1 \in Bad
    BY <1>0, <2>5, <2>6, <2>7
  <2>9. ~(m <= m - 1)
    BY <2>5
  <2> HIDE DEF Bad
  <2> QED BY <2>2, <2>8, <2>9
<1>3. \A s \in SUBSET (1 .. N) : g[s] \in T
  <2> N \in 0 .. N
    BY <1>0
  <2> QED BY <1>2
<1>4. ASSUME NEW s \in SUBSET (1 .. N) PROVE IsFold(g, F, b, seq, s)
  <2>1. CASE s = {}
    BY <2>1 DEF IsFold
  <2>2. CASE s # {}
    <3>1. s \ {Max(s)} \in SUBSET (1 .. N)
      OBVIOUS
    <3>2. g[s \ {Max(s)}] \in T
      BY <1>3, <3>1
    <3> QED BY <1>1, <2>2, <3>2 DEF IsFold
  <2> QED BY <2>1, <2>2
<1> QED BY <1>3, <1>4 DEF N, Folds

\* What a fold over a sequence passes through, element by element.
IsRun(p, F, b, seq) ==
  /\ p[0] = b
  /\ \A i \in 0 .. Len(seq) - 1 : p[i + 1] = F[<<p[i], seq[i + 1]>>]

\* A run that ends in the value of the fold.
HasRun(g, F, b, T, seq) ==
  \E p \in [0 .. Len(seq) -> T] : IsRun(p, F, b, seq) /\ p[Len(seq)] = g[1 .. Len(seq)]

\* A fold from the left is a run over the sequence, one element after another.
LEMMA FoldRuns ==
  ASSUME NEW T, NEW A, NEW F \in [T \X A -> T], NEW b \in T, NEW seq \in Seq(A),
         NEW g, Folds(g, F, b, T, seq)
  PROVE  HasRun(g, F, b, T, seq)
<1> USE DEF Folds, HasRun
<1> DEFINE N == Len(seq)
           p == [i \in 0 .. N |-> g[1 .. i]]
<1>0. N \in Nat
  OBVIOUS
<1>1. p \in [0 .. N -> T]
  BY <1>0
<1>2. p[0] = b
  <2>1. 1 .. 0 = {} /\ {} \in SUBSET (1 .. N)
    OBVIOUS
  <2>2. g[{}] = b
    BY <2>1 DEF IsFold
  <2> QED BY <1>0, <2>1, <2>2
<1>3. ASSUME NEW i \in 0 .. N - 1 PROVE p[i + 1] = F[<<p[i], seq[i + 1]>>]
  <2> DEFINE s == 1 .. (i + 1)
  <2>1. s \in SUBSET (1 .. N) /\ s # {} /\ i \in 0 .. N /\ i + 1 \in 0 .. N
    <3> HIDE DEF N
    <3> i \in Nat /\ i + 1 <= N
      BY <1>0
    <3>1. i + 1 \in s
      OBVIOUS
    <3>2. s \in SUBSET (1 .. N)
      BY <1>0
    <3>3. i \in 0 .. N /\ i + 1 \in 0 .. N
      BY <1>0
    <3> HIDE DEF s
    <3> QED BY <3>1, <3>2, <3>3
  <2>2. Max(s) = i + 1 /\ s \ {i + 1} = 1 .. i
    <3> i \in Nat
      BY <1>0
    <3> QED BY LastOfInterval
  <2>3. g[s] = F[<<g[s \ {Max(s)}], seq[Max(s)]>>]
    BY <2>1 DEF IsFold
  <2>4. g[s] = F[<<g[1 .. i], seq[i + 1]>>]
    BY <2>2, <2>3
  <2> QED BY <2>1, <2>4
<1>4. p[N] = g[1 .. N]
  BY <1>0
<1> HIDE DEF p
<1> QED BY <1>1, <1>2, <1>3, <1>4 DEF IsRun

-----------------------------------------------------------------------------
\* What the loop of replay() counts.
Tally == [hit : Nat, attempted : Nat, charged : Float]
NoTally == [hit |-> 0, attempted |-> 0, charged |-> 0]

\* One round of the loop of replay(), and one more charge of the sum.
Round(s, a, table) ==
  IF s.hit # 0 THEN s
  ELSE [hit |-> IF table[a].hit THEN s.attempted + 1 ELSE 0,
        attempted |-> s.attempted + 1,
        charged |-> Plus[<<s.charged, Cost[a]>>]]
Rounds(table) == [p \in Tally \X Action |-> Round(p[1], p[2], table)]
Charges == [p \in Float \X Action |-> Plus[<<p[1], Cost[p[2]]>>]]

\* The loop of replay(), as Replayed() has it.
Loop(table, order) ==
  FoldLeft(LAMBDA s, a : IF s.hit # 0 THEN s
                         ELSE [hit |-> IF table[a].hit THEN s.attempted + 1 ELSE 0,
                               attempted |-> s.attempted + 1,
                               charged |-> Plus[<<s.charged, Cost[a]>>]],
           [hit |-> 0, attempted |-> 0, charged |-> 0],
           order)

\* The folds as the functions that TLA+ chooses for them.
LoopChoice(table, order) == CHOOSE g : g = [s \in SUBSET (DOMAIN order) |->
  IF s = {} THEN NoTally ELSE Round(g[s \ {Max(s)}], order[Max(s)], table)]
ChargeChoice(order) == CHOOSE g : g = [s \in SUBSET (DOMAIN order) |->
  IF s = {} THEN 0 ELSE Plus[<<g[s \ {Max(s)}], Cost[order[Max(s)]]>>]]

\* The loop is the value that its fold has for all indices.
LEMMA LoopIsChoice ==
  ASSUME NEW table, NEW order
  PROVE  Loop(table, order) = LoopChoice(table, order)[DOMAIN order]
BY DEF Loop, LoopChoice, NoTally, Round, FoldLeft, MapThenFoldSet

\* So is the sum.
LEMMA ChargeIsChoice ==
  ASSUME NEW order
  PROVE  RunningSum(order) = ChargeChoice(order)[DOMAIN order]
BY DEF RunningSum, ChargeChoice, FoldLeft, MapThenFoldSet

\* A round takes a tally to a tally.
LEMMA RoundTyped ==
  ASSUME NEW table \in [Action -> Outcome]
  PROVE  Rounds(table) \in [Tally \X Action -> Tally] /\ NoTally \in Tally
<1>1. NoTally \in Tally
  BY FloatAssumption DEF NoTally, Tally
<1>2. ASSUME NEW s \in Tally, NEW a \in Action PROVE Round(s, a, table) \in Tally
  <2>1. Plus[<<s.charged, Cost[a]>>] \in Float
    BY ReplayAssumption, FloatAssumption DEF Tally
  <2> QED BY <2>1 DEF Round, Tally
<1> QED BY <1>1, <1>2 DEF Rounds

\* The last index of a set of them.
LEMMA LastElement ==
  ASSUME NEW order \in Seq(Action), NEW s \in SUBSET (1 .. Len(order)), s # {}
  PROVE  order[Max(s)] \in Action
<1> DEFINE x == Max(s)
<1>0. Len(order) \in Nat
  OBVIOUS
<1>1. x \in 1 .. Len(order)
  BY <1>0, GreatestNumber
<1> HIDE DEF x
<1>2. order[x] \in Action
  BY <1>1
<1> QED BY <1>2 DEF x

\* The loop is a run of rounds over the ranking.
LEMMA LoopRuns ==
  ASSUME NEW table \in [Action -> Outcome], NEW order \in Seq(Action)
  PROVE  \E p \in [0 .. Len(order) -> Tally] :
            IsRun(p, Rounds(table), NoTally, order) /\ p[Len(order)] = Loop(table, order)
<1> DEFINE D == SUBSET (1 .. Len(order))
           F == Rounds(table)
           h == LoopChoice(table, order)
<1>0. DOMAIN order = 1 .. Len(order) /\ Len(order) \in Nat
  OBVIOUS
<1>1. F \in [Tally \X Action -> Tally] /\ NoTally \in Tally /\ DOMAIN order = 1 .. Len(order)
  BY <1>0, RoundTyped
<1>2. PICK g \in [D -> Tally] : \A s \in D : IsFold(g, F, NoTally, order, s)
  <2> HIDE DEF F
  <2> QED BY <1>1, FoldExists
<1>3. \A s \in D : s # {} => order[Max(s)] \in Action
  BY LastElement
<1>4. g = [s \in D |-> IF s = {} THEN NoTally ELSE Round(g[s \ {Max(s)}], order[Max(s)], table)]
  <2>1. ASSUME NEW s \in D
        PROVE  g[s] = IF s = {} THEN NoTally ELSE Round(g[s \ {Max(s)}], order[Max(s)], table)
    <3>1. CASE s = {}
      BY <1>2, <3>1 DEF IsFold
    <3>2. CASE s # {}
      <4> DEFINE y == g[s \ {Max(s)}]
                 a == order[Max(s)]
      <4>1. y \in Tally /\ a \in Action
        BY <1>2, <1>3, <3>2
      <4>2. g[s] = F[<<y, a>>]
        BY <1>2, <3>2 DEF IsFold
      <4> HIDE DEF y, a
      <4>3. F[<<y, a>>] = Round(y, a, table)
        BY <4>1 DEF Rounds
      <4> QED BY <3>2, <4>2, <4>3 DEF y, a
    <3> QED BY <3>1, <3>2
  <2> QED BY <2>1
<1>5. h = [s \in D |-> IF s = {} THEN NoTally ELSE Round(h[s \ {Max(s)}], order[Max(s)], table)]
  BY <1>1, <1>4 DEF LoopChoice
<1> HIDE DEF h
<1>6. h[{}] = NoTally
  <2> {} \in D
    OBVIOUS
  <2> QED BY <1>5
<1>7. ASSUME NEW s \in D, s # {}, h[s \ {Max(s)}] \in Tally
      PROVE  h[s] = F[<<h[s \ {Max(s)}], order[Max(s)]>>]
  <2> DEFINE y == h[s \ {Max(s)}]
             a == order[Max(s)]
  <2>1. y \in Tally /\ a \in Action
    BY <1>3, <1>7
  <2>2. h[s] = Round(y, a, table)
    BY <1>5, <1>7
  <2> HIDE DEF y, a
  <2>3. F[<<y, a>>] = Round(y, a, table)
    BY <2>1 DEF Rounds
  <2> QED BY <2>2, <2>3 DEF y, a
<1> HIDE DEF F
<1>8. Folds(h, F, NoTally, Tally, order)
  <2>1. FoldsIfTyped(h, F, NoTally, Tally, order)
    BY <1>6, <1>7 DEF FoldsIfTyped
  <2> QED BY <1>1, <2>1, FoldTyped
<1>9. PICK p \in [0 .. Len(order) -> Tally] : IsRun(p, F, NoTally, order) /\ p[Len(order)] = h[1 .. Len(order)]
  <2>1. HasRun(h, F, NoTally, Tally, order)
    BY <1>1, <1>8, FoldRuns
  <2> QED BY <2>1 DEF HasRun
<1>10. h[1 .. Len(order)] = Loop(table, order)
  BY <1>1, LoopIsChoice DEF h
<1> QED BY <1>9, <1>10 DEF F

\* The charge is a run of additions over the ranking.
LEMMA ChargeRuns ==
  ASSUME NEW order \in Seq(Action)
  PROVE  \E p \in [0 .. Len(order) -> Float] :
            IsRun(p, Charges, 0, order) /\ p[Len(order)] = RunningSum(order)
<1> DEFINE D == SUBSET (1 .. Len(order))
           h == ChargeChoice(order)
<1>0. DOMAIN order = 1 .. Len(order) /\ Len(order) \in Nat
  OBVIOUS
<1>1. Charges \in [Float \X Action -> Float] /\ 0 \in Float
  BY ReplayAssumption, FloatAssumption DEF Charges
<1>2. PICK g \in [D -> Float] : \A s \in D : IsFold(g, Charges, 0, order, s)
  BY <1>1, FoldExists
<1>3. \A s \in D : s # {} => order[Max(s)] \in Action
  BY LastElement
<1>4. g = [s \in D |-> IF s = {} THEN 0 ELSE Plus[<<g[s \ {Max(s)}], Cost[order[Max(s)]]>>]]
  <2>1. ASSUME NEW s \in D
        PROVE  g[s] = IF s = {} THEN 0 ELSE Plus[<<g[s \ {Max(s)}], Cost[order[Max(s)]]>>]
    <3>1. CASE s = {}
      BY <1>2, <3>1 DEF IsFold
    <3>2. CASE s # {}
      <4> DEFINE y == g[s \ {Max(s)}]
                 a == order[Max(s)]
      <4>1. y \in Float /\ a \in Action
        BY <1>2, <1>3, <3>2
      <4>2. g[s] = Charges[<<y, a>>]
        BY <1>2, <3>2 DEF IsFold
      <4> HIDE DEF y, a
      <4>3. Charges[<<y, a>>] = Plus[<<y, Cost[a]>>]
        BY <4>1 DEF Charges
      <4> QED BY <3>2, <4>2, <4>3 DEF y, a
    <3> QED BY <3>1, <3>2
  <2> QED BY <2>1
<1>5. h = [s \in D |-> IF s = {} THEN 0 ELSE Plus[<<h[s \ {Max(s)}], Cost[order[Max(s)]]>>]]
  BY <1>0, <1>4 DEF ChargeChoice
<1> HIDE DEF h
<1>6. h[{}] = 0
  <2> {} \in D
    OBVIOUS
  <2> QED BY <1>5
<1>7. ASSUME NEW s \in D, s # {}, h[s \ {Max(s)}] \in Float
      PROVE  h[s] = Charges[<<h[s \ {Max(s)}], order[Max(s)]>>]
  <2> DEFINE y == h[s \ {Max(s)}]
             a == order[Max(s)]
  <2>1. y \in Float /\ a \in Action
    BY <1>3, <1>7
  <2>2. h[s] = Plus[<<y, Cost[a]>>]
    BY <1>5, <1>7
  <2> HIDE DEF y, a
  <2>3. Charges[<<y, a>>] = Plus[<<y, Cost[a]>>]
    BY <2>1 DEF Charges
  <2> QED BY <2>2, <2>3 DEF y, a
<1>8. Folds(h, Charges, 0, Float, order)
  <2>1. FoldsIfTyped(h, Charges, 0, Float, order)
    BY <1>6, <1>7 DEF FoldsIfTyped
  <2> QED BY <1>1, <2>1, FoldTyped
<1>9. PICK p \in [0 .. Len(order) -> Float] : IsRun(p, Charges, 0, order) /\ p[Len(order)] = h[1 .. Len(order)]
  <2>1. HasRun(h, Charges, 0, Float, order)
    BY <1>1, <1>8, FoldRuns
  <2> QED BY <2>1 DEF HasRun
<1>10. h[1 .. Len(order)] = RunningSum(order)
  BY <1>0, ChargeIsChoice DEF h
<1> QED BY <1>9, <1>10

\* The charges of a prefix are the same in every sequence it is a prefix of.
LEMMA ChargesAgree ==
  ASSUME NEW u \in Seq(Action), NEW v \in Seq(Action), Len(v) <= Len(u),
         \A i \in 1 .. Len(v) : v[i] = u[i],
         NEW p \in [0 .. Len(u) -> Float], IsRun(p, Charges, 0, u),
         NEW q \in [0 .. Len(v) -> Float], IsRun(q, Charges, 0, v)
  PROVE  \A i \in 0 .. Len(v) : q[i] = p[i]
<1> DEFINE Bad == {i \in 0 .. Len(v) : q[i] # p[i]}
<1>0. Len(u) \in Nat /\ Len(v) \in Nat
  OBVIOUS
<1>1. SUFFICES ASSUME Bad # {} PROVE FALSE
  OBVIOUS
<1>2. PICK m \in Bad : \A n \in Bad : m <= n
  <2> Bad \in SUBSET Nat
    BY <1>0
  <2> HIDE DEF Bad
  <2> QED BY <1>1, LeastNumber
<1>3. m \in 0 .. Len(v) /\ q[m] # p[m]
  BY <1>2
<1>4. m # 0
  BY <1>3 DEF IsRun
<1> DEFINE l == m - 1
<1>5. l \in 0 .. Len(v) - 1 /\ l \in 0 .. Len(u) - 1 /\ m = l + 1 /\ ~(m <= l) /\ l \in 0 .. Len(v)
  BY <1>0, <1>3, <1>4
<1> HIDE DEF l
<1>6. l \notin Bad
  <2> HIDE DEF Bad
  <2> QED BY <1>2, <1>5
<1>7. q[l] = p[l]
  BY <1>5, <1>6
<1>8. q[m] = Charges[<<q[l], v[m]>>] /\ p[m] = Charges[<<p[l], u[m]>>]
  BY <1>5 DEF IsRun
<1>9. v[m] = u[m]
  BY <1>3, <1>4
<1> QED BY <1>3, <1>7, <1>8, <1>9

-----------------------------------------------------------------------------
\* What the loop has counted after i rounds: all of them, or up to the hit.
NoHit(table, u, i) == \A j \in 1 .. i : ~ table[u[j]].hit
\* The action at h is the first hit.
FirstHit(table, u, h) == table[u[h]].hit /\ NoHit(table, u, h - 1)
Counted(table, u, p, c, i) ==
  /\ NoHit(table, u, i) => p[i] = [hit |-> 0, attempted |-> i, charged |-> c[i]]
  /\ \A h \in 1 .. i : FirstHit(table, u, h) =>
        p[i] = [hit |-> h, attempted |-> h, charged |-> c[h]]

\* The loop has counted so after every round.
LEMMA LoopCounts ==
  ASSUME NEW table \in [Action -> Outcome], NEW u \in Seq(Action),
         NEW p \in [0 .. Len(u) -> Tally], IsRun(p, Rounds(table), NoTally, u),
         NEW c \in [0 .. Len(u) -> Float], IsRun(c, Charges, 0, u)
  PROVE  \A i \in 0 .. Len(u) : Counted(table, u, p, c, i)
<1> DEFINE Bad == {i \in 0 .. Len(u) : ~ Counted(table, u, p, c, i)}
<1>0. Len(u) \in Nat
  OBVIOUS
<1>1. SUFFICES ASSUME Bad # {} PROVE FALSE
  OBVIOUS
<1>2. PICK m \in Bad : \A n \in Bad : m <= n
  <2> Bad \in SUBSET Nat
    BY <1>0
  <2> HIDE DEF Bad
  <2> QED BY <1>1, LeastNumber
<1>3. m \in 0 .. Len(u) /\ ~ Counted(table, u, p, c, m)
  BY <1>2
<1>4. CASE m = 0
  <2>1. p[0] = NoTally /\ c[0] = 0
    BY DEF IsRun
  <2> QED BY <1>3, <1>4, <2>1 DEF Counted, NoTally
<1>5. CASE m # 0
  <2> DEFINE l == m - 1
             a == u[m]
  <2>1. l \in 0 .. Len(u) - 1 /\ m = l + 1 /\ ~(m <= l) /\ l \in 0 .. Len(u) /\ m \in 1 .. Len(u)
    BY <1>0, <1>3, <1>5
  <2>2. a \in Action /\ table[a].hit \in BOOLEAN
    BY <2>1 DEF Outcome
  <2> HIDE DEF l, a
  <2>3. l \notin Bad
    <3> HIDE DEF Bad
    <3> QED BY <1>2, <2>1
  <2>4. Counted(table, u, p, c, l)
    BY <2>1, <2>3
  <2>5. p[m] = Rounds(table)[<<p[l], a>>] /\ c[m] = Charges[<<c[l], a>>]
    BY <2>1 DEF IsRun, a
  <2>6. p[m] = Round(p[l], a, table) /\ c[m] = Plus[<<c[l], Cost[a]>>]
    BY <2>1, <2>2, <2>5 DEF Rounds, Charges
  <2>7. ASSUME NoHit(table, u, l), ~ table[a].hit
        PROVE  p[m] = [hit |-> 0, attempted |-> m, charged |-> c[m]]
    <3>1. p[l].hit = 0 /\ p[l].attempted = l /\ p[l].charged = c[l]
      BY <2>1, <2>4, <2>7 DEF Counted
    <3>2. Round(p[l], a, table) = [hit |-> 0, attempted |-> l + 1, charged |-> Plus[<<c[l], Cost[a]>>]]
      BY <2>1, <2>7, <3>1 DEF Round
    <3> QED BY <2>1, <2>6, <3>2
  <2>8. ASSUME NoHit(table, u, l), table[a].hit
        PROVE  p[m] = [hit |-> m, attempted |-> m, charged |-> c[m]]
    <3>1. p[l].hit = 0 /\ p[l].attempted = l /\ p[l].charged = c[l]
      BY <2>1, <2>4, <2>8 DEF Counted
    <3>2. Round(p[l], a, table) = [hit |-> l + 1, attempted |-> l + 1, charged |-> Plus[<<c[l], Cost[a]>>]]
      BY <2>1, <2>8, <3>1 DEF Round
    <3> QED BY <2>1, <2>6, <3>2
  <2>9. ASSUME NEW h \in 1 .. l, FirstHit(table, u, h)
        PROVE  p[m] = [hit |-> h, attempted |-> h, charged |-> c[h]]
    BY <2>1, <2>4, <2>6, <2>9 DEF Counted, Round
  <2>10. NoHit(table, u, m) => NoHit(table, u, l) /\ ~ table[a].hit
    BY <2>1 DEF NoHit, a
  <2>11. ASSUME NEW h \in 1 .. m, FirstHit(table, u, h)
         PROVE  h \in 1 .. l \/ (h = m /\ NoHit(table, u, l) /\ table[a].hit)
    <3>1. CASE h = m
      BY <2>1, <2>11, <3>1 DEF FirstHit, a, l
    <3>2. CASE h # m
      BY <2>1, <3>2
    <3> QED BY <3>1, <3>2
  <2> QED BY <1>3, <2>7, <2>8, <2>9, <2>10, <2>11 DEF Counted
<1> QED BY <1>4, <1>5

\* The lesser of two numbers, and the least of some.
LEMMA LeastOfTwo ==
  ASSUME NEW i \in Nat, NEW j \in Nat
  PROVE  Min({i, j}) \in Nat /\ Min({i, j}) <= j
<1>1. \E x \in {i, j} : \A y \in {i, j} : x =< y
  OBVIOUS
<1> QED BY <1>1 DEF Min

\* The least of some numbers is one of them.
LEMMA LeastOfMany ==
  ASSUME NEW S \in SUBSET Nat, S # {}
  PROVE  Min(S) \in S /\ \A y \in S : Min(S) <= y
<1>1. \E x \in S : \A y \in S : x =< y
  BY LeastNumber
<1> QED BY <1>1 DEF Min

\* The first positive is within the ranking, and how many are charged too.
LEMMA PrefixTyped ==
  ASSUME NEW positives, NEW order \in Seq(Action)
  PROVE  /\ Prefix(positives, order, K).attempted \in 0 .. Len(order)
         /\ Prefix(positives, order, K).hit \in Nat
<1> DEFINE last == Min({K, Len(order)})
           hits == {n \in 1 .. last : order[n] \in positives}
<1>1. last \in 0 .. Len(order) /\ Len(order) \in Nat
  <2>1. K \in Nat /\ Len(order) \in Nat
    BY ReplayAssumption
  <2> HIDE DEF last
  <2>2. last \in Nat /\ last <= Len(order)
    BY <2>1, LeastOfTwo DEF last
  <2> QED BY <2>1, <2>2
<1>2. Prefix(positives, order, K) =
        IF hits = {} THEN [hit |-> 0, attempted |-> last]
                     ELSE [hit |-> Min(hits), attempted |-> Min(hits)]
  BY DEF Prefix
<1>3. hits # {} => Min(hits) \in 1 .. last
  <2> hits \in SUBSET Nat /\ hits \subseteq 1 .. last
    BY <1>1
  <2> HIDE DEF hits, last
  <2> QED BY LeastOfMany
<1> HIDE DEF hits, last
<1> QED BY <1>1, <1>2, <1>3

\* The loop of replay() stops at the first positive and charges all up to it,
\* when the labels it goes by are the positives.
LEMMA LoopIsPrefix ==
  ASSUME NEW table \in [Action -> Outcome], NEW order \in Seq(Action), NEW positives,
         {a \in Action : table[a].hit} = positives
  PROVE  LET p == Prefix(positives, order, K)
         IN Replayed(table, order) = [hit |-> p.hit, attempted |-> p.attempted,
                                      charged |-> RunningSum(SubSeq(order, 1, p.attempted))]
<1> DEFINE last == Min({K, Len(order)})
           hits == {n \in 1 .. last : order[n] \in positives}
           stop == IF hits = {} THEN last ELSE Min(hits)
           u == SubSeq(order, 1, last)
           v == SubSeq(order, 1, stop)
<1>1. last \in 0 .. Len(order) /\ Len(order) \in Nat
  <2>1. K \in Nat /\ Len(order) \in Nat
    BY ReplayAssumption
  <2> HIDE DEF last
  <2>2. last \in Nat /\ last <= Len(order)
    BY <2>1, LeastOfTwo DEF last
  <2> QED BY <2>1, <2>2
<1>2. hits # {} => Min(hits) \in hits /\ \A y \in hits : Min(hits) <= y
  <2> hits \in SUBSET Nat
    BY <1>1
  <2> HIDE DEF hits
  <2> QED BY LeastOfMany
<1>3. Replayed(table, order) = Loop(table, u)
  BY DEF Replayed, Loop
<1> DEFINE p0 == Prefix(positives, order, K)
<1>4. p0.hit = (IF hits = {} THEN 0 ELSE stop) /\ p0.attempted = stop
  BY DEF Prefix
<1> SUFFICES Loop(table, u) = [hit |-> IF hits = {} THEN 0 ELSE stop, attempted |-> stop,
                               charged |-> RunningSum(v)]
  BY <1>3, <1>4
<1> HIDE DEF p0
<1>5. stop \in 0 .. last
  <2> HIDE DEF last
  <2> QED BY <1>1, <1>2
<1> HIDE DEF last
<1>6. \A n \in 1 .. last : order[n] \in Action /\ (n \in hits <=> table[order[n]].hit)
  <2> SUFFICES ASSUME NEW n \in 1 .. last
               PROVE  order[n] \in Action /\ (n \in hits <=> table[order[n]].hit)
    OBVIOUS
  <2>1. order[n] \in Action
    BY <1>1
  <2>2. table[order[n]].hit <=> order[n] \in positives
    BY <2>1
  <2> QED BY <2>1, <2>2
<1> HIDE DEF hits
<1>7. u \in Seq(Action) /\ Len(u) = last /\ \A i \in 1 .. last : u[i] = order[i]
  BY <1>1
<1>8. v \in Seq(Action) /\ Len(v) = stop /\ \A i \in 1 .. stop : v[i] = order[i]
  <2> HIDE DEF stop
  <2> QED BY <1>1, <1>5
<1>9. \A i \in 1 .. stop : v[i] = u[i]
  <2> HIDE DEF stop, u, v
  <2> QED BY <1>1, <1>5, <1>7, <1>8
<1> HIDE DEF u, v
<1>10. PICK p \in [0 .. last -> Tally] : IsRun(p, Rounds(table), NoTally, u) /\ p[last] = Loop(table, u)
  BY <1>7, LoopRuns
<1>11. PICK c \in [0 .. last -> Float] : IsRun(c, Charges, 0, u)
  BY <1>7, ChargeRuns
<1>12. PICK d \in [0 .. stop -> Float] : IsRun(d, Charges, 0, v) /\ d[stop] = RunningSum(v)
  <2> HIDE DEF stop
  <2> QED BY <1>8, ChargeRuns
<1>13. c[stop] = RunningSum(v)
  <2> HIDE DEF stop
  <2>1. \A i \in 0 .. Len(v) : d[i] = c[i]
    <3>1. Len(v) <= Len(u) /\ \A i \in 1 .. Len(v) : v[i] = u[i]
      BY <1>1, <1>5, <1>7, <1>8, <1>9
    <3>2. c \in [0 .. Len(u) -> Float] /\ d \in [0 .. Len(v) -> Float]
      BY <1>7, <1>8
    <3> QED BY <1>7, <1>8, <1>11, <1>12, <3>1, <3>2, ChargesAgree
  <2> QED BY <1>1, <1>5, <1>8, <1>12, <2>1
<1>14. Counted(table, u, p, c, last)
  <2>1. \A i \in 0 .. Len(u) : Counted(table, u, p, c, i)
    BY <1>7, <1>10, <1>11, LoopCounts
  <2> QED BY <1>1, <1>7, <2>1
<1>15. CASE hits = {}
  <2>1. NoHit(table, u, last)
    BY <1>6, <1>7, <1>15 DEF NoHit
  <2>2. p[last] = [hit |-> 0, attempted |-> last, charged |-> c[last]]
    BY <1>14, <2>1 DEF Counted
  <2> QED BY <1>10, <1>13, <1>15, <2>2
<1>16. CASE hits # {}
  <2>1. stop \in hits /\ \A y \in hits : stop <= y
    BY <1>2, <1>16
  <2> HIDE DEF stop
  <2>2. stop \in 1 .. last
    BY <2>1 DEF hits
  <2>3. FirstHit(table, u, stop)
    <3>1. table[u[stop]].hit
      BY <1>6, <1>7, <2>1, <2>2
    <3>2. ASSUME NEW j \in 1 .. (stop - 1) PROVE ~ table[u[j]].hit
      <4>1. j \in 1 .. last /\ ~(stop <= j)
        BY <1>1, <2>2
      <4>2. j \notin hits
        BY <2>1, <4>1
      <4> QED BY <1>6, <1>7, <4>1, <4>2
    <3> QED BY <3>1, <3>2 DEF FirstHit, NoHit
  <2>4. p[last] = [hit |-> stop, attempted |-> stop, charged |-> c[stop]]
    BY <1>14, <2>2, <2>3 DEF Counted
  <2> QED BY <1>10, <1>13, <1>16, <2>4
<1> QED BY <1>15, <1>16

-----------------------------------------------------------------------------
\* Of one or two costs the running sum is that of math.fsum().
LEMMA ShortSum ==
  ASSUME NEW order \in Seq(Action), Len(order) <= 2
  PROVE  RunningSum(order) = FSum([i \in 1 .. Len(order) |-> Cost[order[i]]])
<1>1. PICK c \in [0 .. Len(order) -> Float] :
        IsRun(c, Charges, 0, order) /\ c[Len(order)] = RunningSum(order)
  BY ChargeRuns
<1>2. c[0] = 0
  BY <1>1 DEF IsRun
<1>3. ASSUME NEW i \in 0 .. Len(order) - 1
      PROVE  /\ Cost[order[i + 1]] \in Float
             /\ c[i + 1] = Plus[<<c[i], Cost[order[i + 1]]>>]
  <2>1. order[i + 1] \in Action /\ i \in 0 .. Len(order)
    OBVIOUS
  <2>2. c[i] \in Float /\ Cost[order[i + 1]] \in Float
    BY <1>1, <2>1, ReplayAssumption
  <2>3. c[i + 1] = Charges[<<c[i], order[i + 1]>>]
    BY <1>1 DEF IsRun
  <2> QED BY <2>1, <2>2, <2>3 DEF Charges
<1>4. CASE Len(order) = 0
  <2>1. [i \in 1 .. Len(order) |-> Cost[order[i]]] = <<>>
    BY <1>4
  <2> QED BY <1>1, <1>2, <1>4, <2>1, FloatAssumption
<1>5. CASE Len(order) = 1
  <2> DEFINE x == Cost[order[1]]
  <2>1. x \in Float /\ c[1] = Plus[<<c[0], x>>]
    BY <1>3, <1>5
  <2>2. [i \in 1 .. Len(order) |-> Cost[order[i]]] = <<x>>
    BY <1>5
  <2> HIDE DEF x
  <2> QED BY <1>1, <1>2, <1>5, <2>1, <2>2, FloatAssumption
<1>6. CASE Len(order) = 2
  <2> DEFINE x == Cost[order[1]]
             y == Cost[order[2]]
  <2>1. x \in Float /\ c[1] = Plus[<<c[0], x>>]
    BY <1>3, <1>6
  <2>2. y \in Float /\ c[2] = Plus[<<c[1], y>>]
    BY <1>3, <1>6
  <2>3. [i \in 1 .. Len(order) |-> Cost[order[i]]] = <<x, y>>
    BY <1>6
  <2> HIDE DEF x, y
  <2>4. c[1] = x
    BY <1>2, <2>1, FloatAssumption
  <2>5. FSum(<<x, y>>) = Plus[<<x, y>>]
    BY <2>1, <2>2, FloatAssumption
  <2> QED BY <1>1, <1>6, <2>2, <2>3, <2>4, <2>5
<1>7. Len(order) \in Nat
  OBVIOUS
<1> QED BY <1>4, <1>5, <1>6, <1>7

-----------------------------------------------------------------------------
\* What an undisturbed call has published was computed from the frozen ranking
\* and the outcomes, and names that ranking.
ResultOfFrozen == Published /\ output.by \notin disturbed =>
  /\ output.sha = frozen
  /\ output.result = Replayed(outcome, frozen)
  /\ ledger = Recorded

\* Neither the outcomes nor the freeze is ever written, so neither is the charge.
LEMMA FreezeIsFixed == ASSUME [Next]_vars
                       PROVE  UNCHANGED <<outcome, frozen>> /\ disturbed \subseteq disturbed'
BY DEF Next, Call, Start, Validate, Read, Receipt, Open, Record, Replay, Digest, Write, Ends,
       Rerank, vars, files

\* Every step keeps the result: it is written once, by the call that held the ranking.
LEMMA ResultStep == IInv /\ IInv' /\ ResultOfFrozen /\ [Next]_vars => ResultOfFrozen'
<1> SUFFICES ASSUME IInv, IInv', ResultOfFrozen, [Next]_vars, Published', output'.by \notin disturbed'
             PROVE  output'.sha = frozen' /\ output'.result = Replayed(outcome, frozen)' /\ ledger' = Recorded
  BY DEF ResultOfFrozen, Recorded, Verified
<1>1. ledger' = Recorded
  BY DEF IInv, Events, Recorded, Verified
<1>2. UNCHANGED <<outcome, frozen>> /\ disturbed \subseteq disturbed'
  BY FreezeIsFixed
<1>3. Replayed(outcome, frozen)' = Replayed(outcome, frozen)
  BY <1>2
<1>4. CASE output' = output
  BY <1>1, <1>2, <1>3, <1>4 DEF ResultOfFrozen, Published
<1>5. CASE output' # output
  <2>1. PICK c \in Caller : Write(c)
    BY <1>5 DEF Published, Next, Call, Start, Validate, Read, Receipt, Open, Record, Replay,
                Digest, Ends, Rerank, vars, files
  <2>2. held[c] = frozen /\ sha[c] = frozen
    BY <2>1, <1>2 DEF IInv, Undisturbed, Write, Goto
  <2>3. output'.sha = frozen /\ output'.result = Replayed(outcome, frozen)
    BY <2>1, <2>2 DEF Write
  <2> QED BY <1>1, <1>2, <1>3, <2>3
<1> QED BY <1>4, <1>5

\* The result of a call under which the ranking was not generated again is the
\* charge of the frozen ranking, and both events of its call are on record.
THEOREM PublishedReplaysTheFreeze == Spec => []ResultOfFrozen
<1>1. Init => ResultOfFrozen
  BY DEF Init, ResultOfFrozen, Published, NoOutput
<1> QED BY <1>1, Invariant, StepInv, ResultStep, PTL DEF Spec

\* What is written behind the checks of the dataset.
Checked ==
  /\ \A c \in Caller : at[c] \in {"digest", "write"} => DatasetOK
  /\ Published => DatasetOK

\* The dataset that was checked is the one that is replayed: it is never written.
LEMMA CheckedStep == IInv /\ Checked /\ [Next]_vars => Checked'
<1> SUFFICES ASSUME IInv, Checked, [Next]_vars PROVE Checked'
  OBVIOUS
<1>1. DatasetOK' <=> DatasetOK
  <2>1. outcome' = outcome
    BY FreezeIsFixed
  <2> QED BY <2>1 DEF DatasetOK
<1> HIDE DEF DatasetOK
<1>2. ASSUME NEW c \in Caller, at'[c] \in {"digest", "write"} PROVE DatasetOK
  <2>1. CASE at[c] \in {"digest", "write"}
    BY <2>1 DEF Checked
  <2>2. CASE at[c] \notin {"digest", "write"}
    BY <1>2, <2>2 DEF IInv, Typed, Next, Call, Start, Validate, Read, Receipt, Open, Record,
                      Replay, Digest, Write, Ends, Rerank, Goto, vars, files
  <2> QED BY <2>1, <2>2
<1>3. ASSUME Published' PROVE DatasetOK
  <2>1. CASE output' = output
    BY <1>3, <2>1 DEF Checked, Published
  <2>2. CASE output' # output
    <3>1. PICK c \in Caller : Write(c)
      BY <1>3, <2>2 DEF Published, Next, Call, Start, Validate, Read, Receipt, Open, Record,
                        Replay, Digest, Ends, Rerank, vars, files
    <3> QED BY <3>1 DEF Checked, Write, Goto
  <2> QED BY <2>1, <2>2
<1> QED BY <1>1, <1>2, <1>3 DEF Checked

\* No call computes a digest or a result of a dataset it has not checked.
LEMMA ChecksFirst == Spec => []Checked
<1>1. Init => Checked
  BY DEF Init, Checked, Published, NoOutput
<1> QED BY <1>1, Invariant, CheckedStep, PTL DEF Spec

\* Behind the checks, the loop stops at the first positive; where both rules
\* have the same positives, that is where replay_prefix() stops.
LEMMA CheckedResult == IInv /\ Checked /\ ResultOfFrozen => ResultIsOfTheFreeze
<1> DEFINE stop == Prefix(FloatPositives(outcome), frozen, K)
           other == PrefixReplay(outcome, Cost, frozen, K)
<1> SUFFICES ASSUME IInv, Checked, ResultOfFrozen, Published, output.by \notin disturbed
             PROVE  /\ output.sha = frozen
                    /\ output.result = [hit |-> stop.hit, attempted |-> stop.attempted,
                                        charged |-> RunningSum(SubSeq(frozen, 1, stop.attempted))]
                    /\ ledger = <<"PREOUTCOME_RECEIPT_VERIFIED", "OUTCOMES_OPENED_AFTER_FREEZE">>
                    /\ FloatPositives(outcome) = Positives(outcome) =>
                         /\ output.result.hit = other.hit
                         /\ output.result.attempted = other.attempted
                         /\ other.attempted <= 2 => output.result = other
  BY DEF ResultIsOfTheFreeze
<1>1. /\ output.sha = frozen
      /\ output.result = Replayed(outcome, frozen)
      /\ ledger = Recorded
  BY DEF ResultOfFrozen
<1>2. outcome \in [Action -> Outcome] /\ frozen \in Seq(Action)
  BY ReplayAssumption DEF IInv, Typed
<1>3. {a \in Action : outcome[a].hit} = FloatPositives(outcome)
  BY DEF Checked, DatasetOK
<1>4. output.result = [hit |-> stop.hit, attempted |-> stop.attempted,
                       charged |-> RunningSum(SubSeq(frozen, 1, stop.attempted))]
  BY <1>1, <1>2, <1>3, LoopIsPrefix
<1>5. ASSUME FloatPositives(outcome) = Positives(outcome)
      PROVE  other = [hit |-> stop.hit, attempted |-> stop.attempted,
                      charged |-> FSum([i \in 1 .. stop.attempted |-> Cost[frozen[i]]])]
  BY <1>5 DEF PrefixReplay
<1>6. stop.attempted \in 0 .. Len(frozen)
  BY <1>2, PrefixTyped
<1> HIDE DEF stop
<1>7. ASSUME stop.attempted <= 2
      PROVE  RunningSum(SubSeq(frozen, 1, stop.attempted)) =
               FSum([i \in 1 .. stop.attempted |-> Cost[frozen[i]]])
  <2> DEFINE v == SubSeq(frozen, 1, stop.attempted)
  <2>1. v \in Seq(Action) /\ Len(v) = stop.attempted /\ \A i \in 1 .. stop.attempted : v[i] = frozen[i]
    BY <1>2, <1>6
  <2> HIDE DEF v
  <2>2. RunningSum(v) = FSum([i \in 1 .. Len(v) |-> Cost[v[i]]])
    BY <1>7, <2>1, ShortSum
  <2>3. [i \in 1 .. Len(v) |-> Cost[v[i]]] = [i \in 1 .. stop.attempted |-> Cost[frozen[i]]]
    BY <2>1
  <2> QED BY <2>2, <2>3 DEF v
<1> HIDE DEF other
<1> QED BY <1>1, <1>4, <1>5, <1>7 DEF Recorded, Verified

\* The result of a call under which the ranking was not generated again names
\* the frozen ranking, both events of its call are on record, and it charges
\* every action of it up to the first positive, once.  It is what
\* replay_prefix() defines from the measured cycles where both label rules
\* agree, except that from the third action on the two sums round differently.
THEOREM ResultReplaysTheFreeze == Spec => []ResultIsOfTheFreeze
BY Invariant, PublishedReplaysTheFreeze, ChecksFirst, CheckedResult, PTL

-----------------------------------------------------------------------------
\* A history that a serial executor can leave, row by row.
Begins(scheme, r) == r.stage = scheme[1] /\ r.retry = 0
Follows(scheme, last, r) ==
  IF last.status = "SUCCESS"
    THEN r.retry = 0 /\ \E i \in 1 .. Len(scheme) - 1 :
                          scheme[i] = last.stage /\ scheme[i + 1] = r.stage
    ELSE r.retry = last.retry + 1 /\ r.stage = last.stage
Serial(scheme, h) ==
  /\ h \in Seq(Row)
  /\ \A i \in 1 .. Len(h) : IF i = 1 THEN Begins(scheme, h[1])
                            ELSE Follows(scheme, h[i - 1], h[i])

\* The history before the first row.
LEMMA EmptyIsSerial ==
  ASSUME NEW scheme
  PROVE  Serial(scheme, <<>>) /\ Len(<<>>) = 0
BY DEF Serial

\* A row more keeps a history serial if it begins it or follows its last row.
LEMMA AppendIsSerial ==
  ASSUME NEW scheme, NEW h, Serial(scheme, h), NEW r \in Row
  PROVE  Serial(scheme, Append(h, r)) <=>
           IF h = <<>> THEN Begins(scheme, r) ELSE Follows(scheme, h[Len(h)], r)
<1>1. h \in Seq(Row) /\ Len(h) \in Nat
  BY DEF Serial
<1> DEFINE g == Append(h, r)
<1>2. /\ g \in Seq(Row) /\ Len(g) = Len(h) + 1 /\ g[Len(h) + 1] = r
      /\ \A i \in 1 .. Len(h) : g[i] = h[i]
  BY <1>1, AppendProperties
<1> HIDE DEF g
<1>3. CASE h = <<>>
  <2>1. Len(h) = 0
    BY <1>3
  <2>2. Len(g) = 1 /\ g[1] = r
    BY <1>2, <2>1
  <2> QED BY <1>2, <1>3, <2>2 DEF Serial, g
<1>4. CASE h # <<>>
  <2> DEFINE n == Len(h)
  <2>1. n \in Nat \ {0}
    BY <1>1, <1>4, EmptySeq
  <2>2. Serial(scheme, g) => Follows(scheme, h[n], r)
    <3>1. n + 1 \in 1 .. Len(g) /\ n + 1 # 1 /\ (n + 1) - 1 = n /\ n \in 1 .. n
      BY <1>2, <2>1
    <3>2. g[n + 1] = r /\ g[n] = h[n]
      BY <1>2, <3>1
    <3> QED BY <3>1, <3>2 DEF Serial
  <2>3. ASSUME Follows(scheme, h[n], r) PROVE Serial(scheme, g)
    <3> SUFFICES ASSUME NEW i \in 1 .. Len(g)
                 PROVE  IF i = 1 THEN Begins(scheme, g[1]) ELSE Follows(scheme, g[i - 1], g[i])
      BY <1>2 DEF Serial
    <3>1. CASE i = n + 1
      <4>1. g[i] = r /\ i # 1 /\ i - 1 = n /\ g[n] = h[n]
        BY <1>2, <2>1, <3>1
      <4> QED BY <2>3, <4>1
    <3>2. CASE i # n + 1
      <4>1. i \in 1 .. n /\ g[i] = h[i] /\ (i # 1 => i - 1 \in 1 .. n /\ g[i - 1] = h[i - 1])
        BY <1>2, <2>1, <3>2
      <4> QED BY <4>1 DEF Serial
    <3> QED BY <3>1, <3>2
  <2> QED BY <1>4, <2>2, <2>3 DEF g
<1> QED BY <1>3, <1>4

\* An extension is one more row that keeps a history serial.
LEMMA ExtensionsAreSerial ==
  ASSUME NEW scheme, NEW h, Serial(scheme, h), NEW x
  PROVE  x \in Extensions(scheme, h) <=>
           \E r \in Row : x = Append(h, r) /\ Serial(scheme, Append(h, r))
<1>1. \A r \in Row : Serial(scheme, Append(h, r)) <=>
        IF h = <<>> THEN Begins(scheme, r) ELSE Follows(scheme, h[Len(h)], r)
  BY AppendIsSerial
<1>2. x \in Extensions(scheme, h) <=>
        \E r \in Row : x = Append(h, r) /\ IF h = <<>> THEN Begins(scheme, r)
                                           ELSE Follows(scheme, h[Len(h)], r)
  BY DEF Extensions, Begins, Follows, Last
<1> QED BY <1>1, <1>2

\* A history without its last row.
LEMMA SerialFront ==
  ASSUME NEW scheme, NEW x, Serial(scheme, x), Len(x) # 0
  PROVE  \E h : /\ Serial(scheme, h) /\ Len(x) = Len(h) + 1
                /\ \E r \in Row : x = Append(h, r)
<1> DEFINE n == Len(x) - 1
           h == SubSeq(x, 1, n)
<1>1. x \in Seq(Row) /\ Len(x) \in Nat \ {0}
  BY DEF Serial
<1>2. h \in Seq(Row) /\ Len(h) = n /\ \A i \in 1 .. n : h[i] = x[i]
  <2>1. n \in 0 .. Len(x)
    BY <1>1
  <2> HIDE DEF n
  <2> QED BY <1>1, <2>1, SubSeqProperties
<1>3. x[n + 1] \in Row /\ n \in Nat /\ n + 1 = Len(x)
  BY <1>1
<1>4. x = Append(h, x[n + 1])
  <2> DEFINE y == Append(h, x[n + 1])
  <2> HIDE DEF h, n
  <2>1. y \in Seq(Row) /\ Len(y) = n + 1 /\ y[n + 1] = x[n + 1] /\ \A i \in 1 .. n : y[i] = h[i]
    BY <1>2, <1>3, AppendProperties
  <2> HIDE DEF y
  <2>2. \A i \in 1 .. Len(x) : y[i] = x[i]
    BY <1>2, <1>3, <2>1
  <2>3. y = x
    BY <1>1, <1>3, <2>1, <2>2, SeqEqual
  <2> QED BY <2>3 DEF y
<1>5. Serial(scheme, h)
  <2> HIDE DEF h
  <2> SUFFICES ASSUME NEW i \in 1 .. Len(h)
               PROVE  IF i = 1 THEN Begins(scheme, h[1]) ELSE Follows(scheme, h[i - 1], h[i])
    BY <1>2 DEF Serial
  <2>1. i \in 1 .. Len(x) /\ h[i] = x[i] /\ (i # 1 => h[i - 1] = x[i - 1])
    BY <1>2, <1>3
  <2> QED BY <2>1 DEF Serial
<1> HIDE DEF h, n
<1> QED BY <1>2, <1>3, <1>4, <1>5

-----------------------------------------------------------------------------
\* The histories of at most n rows.
Grown(scheme, S) == S \cup UNION {Extensions(scheme, h) : h \in S}
\* H[n] are the histories of at most n rows, for every n up to N.
AreHistories(H, scheme, N) ==
  H = [n \in 0 .. N |-> IF n = 0 THEN {<<>>} ELSE H[n - 1] \cup UNION {Extensions(scheme, h) : h \in H[n - 1]}]
\* The most rows there can be.
Bound == 3 * (MaxRetry + 1)

\* Histories() is the value at the bound of such an H.
LEMMA HistoriesAreChosen ==
  ASSUME NEW scheme
  PROVE  Histories(scheme) = (CHOOSE H : AreHistories(H, scheme, Bound))[Bound] \ {<<>>}
BY DEF Histories, AreHistories, Bound

\* There is such an H for every N.
LEMMA HistoriesExist ==
  ASSUME NEW scheme, NEW N \in Nat
  PROVE  \E H : AreHistories(H, scheme, N)
<1> DEFINE T == {n \in Nat : ~ \E H : AreHistories(H, scheme, n)}
<1>1. SUFFICES ASSUME T # {} PROVE FALSE
  OBVIOUS
<1>2. PICK m \in T : \A n \in T : m <= n
  <2> T \in SUBSET Nat
    OBVIOUS
  <2> HIDE DEF T
  <2> QED BY <1>1, LeastNumber
<1>3. m \in Nat /\ ~ \E H : AreHistories(H, scheme, m)
  BY <1>2
<1>4. CASE m = 0
  <2>1. AreHistories([n \in 0 .. 0 |-> {<<>>}], scheme, 0)
    BY DEF AreHistories
  <2> QED BY <1>3, <1>4, <2>1
<1>5. CASE m # 0
  <2>1. m - 1 \in Nat /\ ~(m <= m - 1)
    BY <1>3, <1>5
  <2>2. m - 1 \notin T
    <3> HIDE DEF T
    <3> QED BY <1>2, <2>1
  <2>3. PICK g : AreHistories(g, scheme, m - 1)
    BY <2>1, <2>2
  <2>4. \A n \in 0 .. m - 1 : g[n] = IF n = 0 THEN {<<>>} ELSE Grown(scheme, g[n - 1])
    BY <2>3 DEF AreHistories, Grown
  <2> DEFINE H == [n \in 0 .. m |-> IF n = m THEN Grown(scheme, g[m - 1]) ELSE g[n]]
  <2>5. \A n \in 0 .. m : H[n] = IF n = 0 THEN {<<>>} ELSE Grown(scheme, H[n - 1])
    <3> SUFFICES ASSUME NEW n \in 0 .. m
                 PROVE  H[n] = IF n = 0 THEN {<<>>} ELSE Grown(scheme, H[n - 1])
      OBVIOUS
    <3>1. CASE n = m
      <4>1. n # 0 /\ n - 1 \in 0 .. m /\ n - 1 # m /\ m \in 0 .. m
        BY <1>3, <1>5, <3>1
      <4>2. H[n - 1] = g[m - 1]
        BY <3>1, <4>1
      <4>3. H[n] = Grown(scheme, g[m - 1])
        BY <3>1
      <4> QED BY <4>1, <4>2, <4>3
    <3>2. CASE n # m
      <4>1. n \in 0 .. m - 1 /\ H[n] = g[n]
        BY <1>3, <3>2
      <4>2. n # 0 => n - 1 \in 0 .. m /\ n - 1 # m /\ H[n - 1] = g[n - 1]
        BY <1>3, <4>1
      <4> HIDE DEF H
      <4> QED BY <2>4, <4>1, <4>2
    <3> QED BY <3>1, <3>2
  <2>6. H = [n \in 0 .. m |-> IF n = 0 THEN {<<>>} ELSE Grown(scheme, H[n - 1])]
    <3> DEFINE G == [n \in 0 .. m |-> IF n = 0 THEN {<<>>} ELSE Grown(scheme, H[n - 1])]
    <3>1. \A n \in 0 .. m : G[n] = H[n]
      BY <2>5
    <3>2. H = [n \in 0 .. m |-> H[n]] /\ G = [n \in 0 .. m |-> G[n]]
      OBVIOUS
    <3> HIDE DEF H, G
    <3>3. G = H
      BY <3>1, <3>2
    <3> QED BY <3>3 DEF G
  <2> HIDE DEF H
  <2>7. AreHistories(H, scheme, m)
    BY <2>6 DEF AreHistories, Grown
  <2> QED BY <1>3, <2>7
<1> QED BY <1>4, <1>5

\* And it holds the serial histories of at most n rows, no other ones and all of them.
LEMMA HistoriesOf ==
  ASSUME NEW scheme, NEW N \in Nat, NEW H, AreHistories(H, scheme, N)
  PROVE  \A n \in 0 .. N : \A h : h \in H[n] <=> Serial(scheme, h) /\ Len(h) <= n
<1> DEFINE Good(n) == \A h : h \in H[n] <=> Serial(scheme, h) /\ Len(h) <= n
           T == {n \in 0 .. N : ~ Good(n)}
<1>0. \A n \in 0 .. N : H[n] = IF n = 0 THEN {<<>>} ELSE Grown(scheme, H[n - 1])
  BY DEF AreHistories, Grown
<1>1. SUFFICES ASSUME T # {} PROVE FALSE
  OBVIOUS
<1>2. PICK m \in T : \A n \in T : m <= n
  <2> T \in SUBSET Nat
    OBVIOUS
  <2> HIDE DEF T
  <2> QED BY <1>1, LeastNumber
<1>3. m \in 0 .. N /\ ~ Good(m)
  BY <1>2
<1>4. CASE m = 0
  <2>1. H[0] = {<<>>}
    BY <1>0
  <2>2. \A h : Serial(scheme, h) /\ Len(h) <= 0 => h = <<>>
    BY EmptySeq DEF Serial
  <2>3. Good(0)
    BY <2>1, <2>2, EmptyIsSerial
  <2> HIDE DEF Good
  <2> QED BY <1>3, <1>4, <2>3
<1>5. CASE m # 0
  <2>1. m - 1 \in 0 .. N /\ ~(m <= m - 1)
    BY <1>3, <1>5
  <2>2. m - 1 \notin T
    <3> HIDE DEF T
    <3> QED BY <1>2, <2>1
  <2>3. \A h : h \in H[m - 1] <=> Serial(scheme, h) /\ Len(h) <= m - 1
    BY <2>1, <2>2
  <2>4. H[m] = Grown(scheme, H[m - 1])
    BY <1>0, <1>3, <1>5
  <2>5. ASSUME NEW x, x \in H[m] PROVE Serial(scheme, x) /\ Len(x) <= m
    <3>1. CASE x \in H[m - 1]
      BY <1>3, <2>3, <3>1 DEF Serial
    <3>2. CASE x \notin H[m - 1]
      <4>1. PICK h \in H[m - 1] : x \in Extensions(scheme, h)
        BY <2>4, <2>5, <3>2 DEF Grown
      <4>2. Serial(scheme, h) /\ Len(h) <= m - 1 /\ h \in Seq(Row) /\ Len(h) \in Nat
        BY <2>3, <4>1 DEF Serial
      <4>3. PICK r \in Row : x = Append(h, r) /\ Serial(scheme, Append(h, r))
        BY <4>1, <4>2, ExtensionsAreSerial
      <4>4. Len(x) = Len(h) + 1
        BY <4>2, <4>3
      <4> QED BY <1>3, <4>2, <4>3, <4>4
    <3> QED BY <3>1, <3>2
  <2>6. ASSUME NEW x, Serial(scheme, x), Len(x) <= m PROVE x \in H[m]
    <3>0. Len(x) \in Nat
      BY <2>6 DEF Serial
    <3>1. CASE Len(x) <= m - 1
      BY <2>3, <2>4, <2>6, <3>1 DEF Grown
    <3>2. CASE ~(Len(x) <= m - 1)
      <4>1. PICK h : /\ Serial(scheme, h) /\ Len(x) = Len(h) + 1
                     /\ \E r \in Row : x = Append(h, r)
        BY <1>3, <1>5, <2>6, <3>0, <3>2, SerialFront
      <4>2. Len(h) \in Nat
        BY <4>1 DEF Serial
      <4>3. h \in H[m - 1]
        BY <1>3, <2>3, <2>6, <4>1, <4>2
      <4>4. \E r \in Row : x = Append(h, r) /\ Serial(scheme, Append(h, r))
        <5>1. PICK r \in Row : x = Append(h, r)
          BY <4>1
        <5>2. Serial(scheme, Append(h, r))
          BY <2>6, <5>1
        <5> QED BY <5>1, <5>2
      <4>5. x \in Extensions(scheme, h)
        BY <4>1, <4>4, ExtensionsAreSerial
      <4> QED BY <2>4, <4>3, <4>5 DEF Grown
    <3> QED BY <3>1, <3>2
  <2>7. Good(m)
    BY <2>5, <2>6
  <2> HIDE DEF Good
  <2> QED BY <1>3, <2>7
<1> QED BY <1>4, <1>5

\* What a stage leaves whose last try was number k and ended so.
Tried(r, s, k, status) ==
  /\ r.stage = s /\ r.retry <= k
  /\ r.status = IF r.retry = k THEN status ELSE "FAILED"

\* What the first n stages leave: all of them but the last have succeeded.
RowsOf(scheme, n, last, status) ==
  {r \in Row : \E i \in 1 .. n : Tried(r, scheme[i], last[i], IF i < n THEN "SUCCESS" ELSE status)}
\* The number of the last try of each stage.
Lasts == [1 .. 3 -> 0 .. MaxRetry]

\* The rows that can come before the stages from the n-th on.
Before(n) == IF n = 1 THEN 0 ELSE IF n = 2 THEN MaxRetry + 1 ELSE 2 * (MaxRetry + 1)

\* What is left by a history that ends with such a try of the n-th stage.
Leaves(scheme, h, n, last, status) ==
  /\ h # <<>>
  /\ h[Len(h)] = [stage |-> scheme[n], retry |-> last[n], status |-> status]
  /\ Range(h) = RowsOf(scheme, n, last, status)
  /\ Len(h) <= Before(n) + last[n] + 1

\* The stages of a scheme are different ones.
LEMMA SchemeOrder ==
  ASSUME NEW scheme \in Schemes
  PROVE  /\ Len(scheme) \in {2, 3}
         /\ \A i \in 1 .. Len(scheme) : scheme[i] \in Range(Stages)
         /\ \A i, j \in 1 .. Len(scheme) : scheme[i] = scheme[j] => i = j
         /\ \A i \in 1 .. Len(scheme) : i \in 1 .. 3
<1>1. Range(Stages) = {"H", "M", "F"}
  BY DEF Range, Stages
<1>2. CASE scheme = <<"H", "F">>
  <2>1. Len(scheme) = 2 /\ scheme[1] = "H" /\ scheme[2] = "F"
    BY <1>2
  <2>2. \A i \in 1 .. Len(scheme) : i = 1 \/ i = 2
    BY <2>1
  <2> QED BY <1>1, <2>1, <2>2
<1>3. CASE scheme = <<"H", "M", "F">>
  <2>1. Len(scheme) = 3 /\ scheme[1] = "H" /\ scheme[2] = "M" /\ scheme[3] = "F"
    BY <1>3
  <2>2. \A i \in 1 .. Len(scheme) : i = 1 \/ i = 2 \/ i = 3
    BY <2>1
  <2> QED BY <1>1, <2>1, <2>2
<1> QED BY <1>2, <1>3 DEF Schemes

\* A try more of the n-th stage, after a failed one.
LEMMA OneTryMore ==
  ASSUME NEW scheme \in Schemes, NEW n \in 1 .. Len(scheme), NEW last \in Lasts,
         last[n] + 1 <= MaxRetry, NEW status \in Status
  PROVE  RowsOf(scheme, n, [last EXCEPT ![n] = last[n] + 1], status)
           = RowsOf(scheme, n, last, "FAILED")
               \cup {[stage |-> scheme[n], retry |-> last[n] + 1, status |-> status]}
<1> DEFINE more == [last EXCEPT ![n] = last[n] + 1]
           x == [stage |-> scheme[n], retry |-> last[n] + 1, status |-> status]
<1>1. n \in 1 .. 3 /\ scheme[n] \in Range(Stages) /\ Len(scheme) \in Nat
  BY SchemeOrder
<1>2. MaxRetry \in Nat /\ last[n] \in 0 .. MaxRetry /\ last[n] + 1 \in 0 .. MaxRetry
  BY <1>1, ChargesAssumption DEF Lasts
<1>3. more[n] = last[n] + 1 /\ \A i \in 1 .. n : i # n => more[i] = last[i]
  BY <1>1 DEF Lasts
<1>4. x \in Row /\ x.stage = scheme[n] /\ x.retry = last[n] + 1 /\ x.status = status
  BY <1>1, <1>2 DEF Row
<1> HIDE DEF more, x
<1>5. ASSUME NEW r \in Row
      PROVE  Tried(r, scheme[n], last[n] + 1, status)
               <=> Tried(r, scheme[n], last[n], "FAILED") \/ r = x
  <2>1. r.retry \in Nat
    BY ChargesAssumption DEF Row
  <2>2. r = x <=> r.stage = scheme[n] /\ r.retry = last[n] + 1 /\ r.status = status
    BY <1>4 DEF Row
  <2>3. CASE r.retry = last[n] + 1
    BY <1>2, <2>1, <2>2, <2>3 DEF Tried
  <2>4. CASE r.retry # last[n] + 1
    BY <1>2, <2>1, <2>2, <2>4 DEF Tried
  <2> QED BY <2>3, <2>4
<1>6. ASSUME NEW r \in Row
      PROVE  r \in RowsOf(scheme, n, more, status) <=> r \in RowsOf(scheme, n, last, "FAILED") \/ r = x
  <2>1. r \in RowsOf(scheme, n, more, status) <=>
          \/ Tried(r, scheme[n], last[n] + 1, status)
          \/ \E i \in 1 .. n : i < n /\ Tried(r, scheme[i], last[i], "SUCCESS")
    BY <1>1, <1>3 DEF RowsOf
  <2>2. r \in RowsOf(scheme, n, last, "FAILED") <=>
          \/ Tried(r, scheme[n], last[n], "FAILED")
          \/ \E i \in 1 .. n : i < n /\ Tried(r, scheme[i], last[i], "SUCCESS")
    BY <1>1 DEF RowsOf
  <2> QED BY <1>5, <2>1, <2>2
<1>7. \A st : RowsOf(scheme, n, more, st) \subseteq Row /\ RowsOf(scheme, n, last, st) \subseteq Row
  BY DEF RowsOf
<1>8. RowsOf(scheme, n, more, status) = RowsOf(scheme, n, last, "FAILED") \cup {x}
  BY <1>4, <1>6, <1>7
<1> QED BY <1>8 DEF more, x

\* The first try of the next stage, after a success.
LEMMA OneStageMore ==
  ASSUME NEW scheme \in Schemes, NEW n \in 1 .. Len(scheme) - 1, NEW last \in Lasts,
         last[n + 1] = 0, NEW status \in Status
  PROVE  RowsOf(scheme, n + 1, last, status)
           = RowsOf(scheme, n, last, "SUCCESS")
               \cup {[stage |-> scheme[n + 1], retry |-> 0, status |-> status]}
<1> DEFINE x == [stage |-> scheme[n + 1], retry |-> 0, status |-> status]
<1>1. /\ n + 1 \in 1 .. Len(scheme) /\ n + 1 \in 1 .. 3 /\ n \in Nat
      /\ scheme[n + 1] \in Range(Stages)
  BY SchemeOrder
<1>2. MaxRetry \in Nat
  BY ChargesAssumption
<1>4. x \in Row /\ x.stage = scheme[n + 1] /\ x.retry = 0 /\ x.status = status
  BY <1>1, <1>2 DEF Row
<1> HIDE DEF x
<1>5. ASSUME NEW r \in Row
      PROVE  Tried(r, scheme[n + 1], 0, status) <=> r = x
  <2>1. r.retry \in Nat
    BY ChargesAssumption DEF Row
  <2>2. r = x <=> r.stage = scheme[n + 1] /\ r.retry = 0 /\ r.status = status
    BY <1>4 DEF Row
  <2> QED BY <2>1, <2>2 DEF Tried
<1>6. ASSUME NEW r \in Row
      PROVE  r \in RowsOf(scheme, n + 1, last, status) <=> r \in RowsOf(scheme, n, last, "SUCCESS") \/ r = x
  <2>1. r \in RowsOf(scheme, n + 1, last, status) <=>
          \/ Tried(r, scheme[n + 1], 0, status)
          \/ \E i \in 1 .. n : Tried(r, scheme[i], last[i], "SUCCESS")
    <3>1. r \in RowsOf(scheme, n + 1, last, status) <=>
            \E i \in 1 .. n + 1 : Tried(r, scheme[i], last[i], IF i < n + 1 THEN "SUCCESS" ELSE status)
      BY DEF RowsOf
    <3>2. \A i : i \in 1 .. n + 1 <=> i \in 1 .. n \/ i = n + 1
      BY <1>1
    <3>3. \A i \in 1 .. n : i < n + 1
      BY <1>1
    <3>4. ~(n + 1 < n + 1)
      BY <1>1
    <3> QED BY <3>1, <3>2, <3>3, <3>4
  <2>2. r \in RowsOf(scheme, n, last, "SUCCESS") <=>
          \E i \in 1 .. n : Tried(r, scheme[i], last[i], "SUCCESS")
    BY DEF RowsOf
  <2> QED BY <1>5, <2>1, <2>2
<1>7. \A k, st : RowsOf(scheme, k, last, st) \subseteq Row
  BY DEF RowsOf
<1>8. RowsOf(scheme, n + 1, last, status) = RowsOf(scheme, n, last, "SUCCESS") \cup {x}
  BY <1>4, <1>6, <1>7
<1> QED BY <1>8 DEF x

\* The only row of a history that has just begun.
LEMMA FirstTry ==
  ASSUME NEW scheme \in Schemes, NEW last \in Lasts, last[1] = 0, NEW status \in Status
  PROVE  RowsOf(scheme, 1, last, status) = {[stage |-> scheme[1], retry |-> 0, status |-> status]}
<1> DEFINE x == [stage |-> scheme[1], retry |-> 0, status |-> status]
<1>1. scheme[1] \in Range(Stages)
  BY SchemeOrder
<1>2. MaxRetry \in Nat
  BY ChargesAssumption
<1>4. x \in Row /\ x.stage = scheme[1] /\ x.retry = 0 /\ x.status = status
  BY <1>1, <1>2 DEF Row
<1> HIDE DEF x
<1>5. ASSUME NEW r \in Row
      PROVE  Tried(r, scheme[1], 0, status) <=> r = x
  <2>1. r.retry \in Nat
    BY ChargesAssumption DEF Row
  <2>2. r = x <=> r.stage = scheme[1] /\ r.retry = 0 /\ r.status = status
    BY <1>4 DEF Row
  <2> QED BY <2>1, <2>2 DEF Tried
<1>6. ASSUME NEW r \in Row
      PROVE  r \in RowsOf(scheme, 1, last, status) <=> Tried(r, scheme[1], 0, status)
  BY DEF RowsOf
<1>7. RowsOf(scheme, 1, last, status) \subseteq Row
  BY DEF RowsOf
<1>8. RowsOf(scheme, 1, last, status) = {x}
  BY <1>4, <1>5, <1>6, <1>7
<1> QED BY <1>8 DEF x

\* The rows of a history and of one row more.
LEMMA AppendedRows ==
  ASSUME NEW h \in Seq(Row), NEW r \in Row
  PROVE  /\ Append(h, r) \in Seq(Row) /\ Append(h, r) # <<>>
         /\ Len(Append(h, r)) = Len(h) + 1
         /\ Append(h, r)[Len(h) + 1] = r
         /\ Range(Append(h, r)) = Range(h) \cup {r}
<1> DEFINE g == Append(h, r)
<1>1. /\ g \in Seq(Row) /\ g # <<>> /\ Len(g) = Len(h) + 1 /\ g[Len(h) + 1] = r
      /\ \A i \in 1 .. Len(h) : g[i] = h[i]
  BY AppendProperties
<1>2. DOMAIN g = 1 .. Len(h) + 1 /\ DOMAIN h = 1 .. Len(h) /\ Len(h) \in Nat
  BY <1>1
<1> HIDE DEF g
<1>3. \A i : i \in 1 .. Len(h) + 1 <=> i \in 1 .. Len(h) \/ i = Len(h) + 1
  BY <1>2
<1>4. Range(g) = Range(h) \cup {r}
  BY <1>1, <1>2, <1>3 DEF Range
<1> QED BY <1>1, <1>4 DEF g

\* Rows that a serial history ending in the n-th stage leaves.
IsLeft(scheme, h) == \E n \in 1 .. Len(scheme), last \in Lasts, status \in Status :
  Leaves(scheme, h, n, last, status)

\* The history of one row.
LEMMA OneRow ==
  ASSUME NEW h, h = <<>>, NEW r \in Row
  PROVE  /\ Append(h, r) # <<>> /\ Len(Append(h, r)) = 1 /\ Append(h, r)[1] = r
         /\ Range(Append(h, r)) = {r}
<1>1. h \in Seq(Row) /\ Len(h) = 0 /\ Range(h) = {}
  BY DEF Range
<1>2. /\ Append(h, r) # <<>> /\ Len(Append(h, r)) = Len(h) + 1
      /\ Append(h, r)[Len(h) + 1] = r /\ Range(Append(h, r)) = Range(h) \cup {r}
  BY <1>1, AppendedRows
<1> QED BY <1>1, <1>2

\* A first try is a history.
LEMMA BeginningLeaves ==
  ASSUME NEW scheme \in Schemes, NEW last \in Lasts, last[1] = 0, NEW status \in Status
  PROVE  \E h : Serial(scheme, h) /\ Leaves(scheme, h, 1, last, status)
<1> DEFINE r == [stage |-> scheme[1], retry |-> 0, status |-> status]
           h == Append(<<>>, r)
<1>1. scheme[1] \in Range(Stages) /\ MaxRetry \in Nat
  BY SchemeOrder, ChargesAssumption
<1>2. r \in Row /\ r.stage = scheme[1] /\ r.retry = 0
  BY <1>1 DEF Row
<1>3. RowsOf(scheme, 1, last, status) = {r}
  BY FirstTry
<1> HIDE DEF r
<1>4. h # <<>> /\ Len(h) = 1 /\ h[1] = r /\ Range(h) = {r}
  BY <1>2, OneRow
<1>5. Serial(scheme, <<>>)
  BY EmptyIsSerial
<1>6. Serial(scheme, h)
  BY <1>2, <1>5, AppendIsSerial DEF Begins
<1> HIDE DEF h
<1>7. Before(1) = 0
  BY DEF Before
<1>8. h[Len(h)] = [stage |-> scheme[1], retry |-> last[1], status |-> status]
  BY <1>4 DEF r
<1>9. Leaves(scheme, h, 1, last, status)
  BY <1>3, <1>4, <1>7, <1>8 DEF Leaves
<1> QED BY <1>6, <1>9

\* A row that follows a history of one stage, and what the two leave.
LEMMA RetryLeaves ==
  ASSUME NEW scheme \in Schemes, NEW n \in 1 .. Len(scheme), NEW last \in Lasts,
         NEW h, Serial(scheme, h), Leaves(scheme, h, n, last, "FAILED"),
         last[n] + 1 <= MaxRetry, NEW status \in Status, NEW r,
         r = [stage |-> scheme[n], retry |-> last[n] + 1, status |-> status]
  PROVE  /\ r \in Row /\ Serial(scheme, Append(h, r))
         /\ [last EXCEPT ![n] = last[n] + 1] \in Lasts
         /\ Leaves(scheme, Append(h, r), n, [last EXCEPT ![n] = last[n] + 1], status)
<1> DEFINE more == [last EXCEPT ![n] = last[n] + 1]
           g == Append(h, r)
<1>1. n \in 1 .. 3 /\ scheme[n] \in Range(Stages) /\ MaxRetry \in Nat
  BY SchemeOrder, ChargesAssumption
<1>2. last[n] \in 0 .. MaxRetry /\ last[n] + 1 \in 0 .. MaxRetry
  BY <1>1 DEF Lasts
<1>3. more \in Lasts /\ more[n] = last[n] + 1
  BY <1>1, <1>2 DEF Lasts
<1>4. r \in Row
  BY <1>1, <1>2 DEF Row
<1>5. h \in Seq(Row) /\ Len(h) \in Nat
  BY DEF Serial
<1>6. /\ g # <<>> /\ Len(g) = Len(h) + 1 /\ g[Len(h) + 1] = r
      /\ Range(g) = Range(h) \cup {r}
  BY <1>4, <1>5, AppendedRows
<1>7. /\ h # <<>> /\ Range(h) = RowsOf(scheme, n, last, "FAILED")
      /\ h[Len(h)].status = "FAILED" /\ h[Len(h)].stage = scheme[n] /\ h[Len(h)].retry = last[n]
      /\ Len(h) <= Before(n) + last[n] + 1
  BY DEF Leaves
<1>8. RowsOf(scheme, n, more, status) = RowsOf(scheme, n, last, "FAILED") \cup {r}
  BY OneTryMore
<1>9. Follows(scheme, h[Len(h)], r)
  BY <1>7 DEF Follows
<1>10. Serial(scheme, g)
  BY <1>4, <1>7, <1>9, AppendIsSerial
<1>11. Before(n) \in Nat
  BY <1>1 DEF Before
<1> HIDE DEF more, g
<1>12. g[Len(g)] = [stage |-> scheme[n], retry |-> more[n], status |-> status]
  BY <1>3, <1>6
<1>13. Len(g) <= Before(n) + more[n] + 1
  BY <1>2, <1>3, <1>5, <1>6, <1>7, <1>11
<1>14. Leaves(scheme, g, n, more, status)
  BY <1>6, <1>7, <1>8, <1>12, <1>13 DEF Leaves
<1> QED BY <1>3, <1>4, <1>10, <1>14 DEF more, g

\* A first try of the next stage, and what the two leave.
LEMMA NextStageLeaves ==
  ASSUME NEW scheme \in Schemes, NEW n \in 1 .. Len(scheme) - 1, NEW last \in Lasts,
         NEW h, Serial(scheme, h), Leaves(scheme, h, n, last, "SUCCESS"),
         last[n + 1] = 0, NEW status \in Status, NEW r,
         r = [stage |-> scheme[n + 1], retry |-> 0, status |-> status]
  PROVE  /\ r \in Row /\ Serial(scheme, Append(h, r))
         /\ Leaves(scheme, Append(h, r), n + 1, last, status)
<1> DEFINE g == Append(h, r)
<1>1. /\ n + 1 \in 1 .. 3 /\ scheme[n + 1] \in Range(Stages) /\ n \in 1 .. 2
      /\ MaxRetry \in Nat
  BY SchemeOrder, ChargesAssumption
<1>2. last[n] \in 0 .. MaxRetry
  BY <1>1 DEF Lasts
<1>4. r \in Row
  BY <1>1, <1>2 DEF Row
<1>5. h \in Seq(Row) /\ Len(h) \in Nat
  BY DEF Serial
<1>6. /\ g # <<>> /\ Len(g) = Len(h) + 1 /\ g[Len(h) + 1] = r
      /\ Range(g) = Range(h) \cup {r}
  BY <1>4, <1>5, AppendedRows
<1>7. /\ h # <<>> /\ Range(h) = RowsOf(scheme, n, last, "SUCCESS")
      /\ h[Len(h)].status = "SUCCESS" /\ h[Len(h)].stage = scheme[n] /\ h[Len(h)].retry = last[n]
      /\ Len(h) <= Before(n) + last[n] + 1
  BY DEF Leaves
<1>8. RowsOf(scheme, n + 1, last, status) = RowsOf(scheme, n, last, "SUCCESS") \cup {r}
  BY OneStageMore
<1>9. Follows(scheme, h[Len(h)], r)
  BY <1>7 DEF Follows
<1>10. Serial(scheme, g)
  BY <1>4, <1>7, <1>9, AppendIsSerial
<1>11. Before(n) \in Nat /\ Before(n + 1) = Before(n) + (MaxRetry + 1)
  BY <1>1 DEF Before
<1> HIDE DEF g
<1>12. g[Len(g)] = [stage |-> scheme[n + 1], retry |-> last[n + 1], status |-> status]
  BY <1>5, <1>6
<1>13. Len(g) <= Before(n + 1) + last[n + 1] + 1
  BY <1>1, <1>2, <1>5, <1>6, <1>7, <1>11
<1>14. Leaves(scheme, g, n + 1, last, status)
  BY <1>6, <1>7, <1>8, <1>12, <1>13 DEF Leaves
<1> QED BY <1>4, <1>10, <1>14 DEF g

\* What is left does not depend on the stages that were not reached.
LEMMA LaterStages ==
  ASSUME NEW scheme, NEW n \in 1 .. 2, NEW last \in Lasts, NEW h, NEW status,
         Leaves(scheme, h, n, last, status)
  PROVE  /\ [last EXCEPT ![n + 1] = 0] \in Lasts /\ [last EXCEPT ![n + 1] = 0][n + 1] = 0
         /\ Leaves(scheme, h, n, [last EXCEPT ![n + 1] = 0], status)
<1> DEFINE more == [last EXCEPT ![n + 1] = 0]
<1>1. n + 1 \in 1 .. 3 /\ MaxRetry \in Nat
  BY ChargesAssumption
<1>2. more \in Lasts /\ more[n + 1] = 0 /\ \A i \in 1 .. n : more[i] = last[i]
  BY <1>1 DEF Lasts
<1>3. n \in 1 .. n
  OBVIOUS
<1> HIDE DEF more
<1>4. RowsOf(scheme, n, more, status) = RowsOf(scheme, n, last, status)
  BY <1>2 DEF RowsOf
<1>5. Leaves(scheme, h, n, more, status)
  BY <1>2, <1>3, <1>4 DEF Leaves
<1> QED BY <1>2, <1>5 DEF more

\* A serial history leaves the rows of its stages.
LEMMA SerialLeaves ==
  ASSUME NEW scheme \in Schemes
  PROVE  \A h : Serial(scheme, h) /\ h # <<>> => IsLeft(scheme, h)
<1> DEFINE T == {n \in Nat : \E h : /\ Serial(scheme, h) /\ h # <<>>
                                    /\ ~ IsLeft(scheme, h) /\ Len(h) = n}
<1>1. SUFFICES ASSUME NEW g, Serial(scheme, g), g # <<>>, ~ IsLeft(scheme, g) PROVE FALSE
  OBVIOUS
<1>2. PICK m \in T : \A n \in T : m <= n
  <2>1. Len(g) \in T
    BY <1>1 DEF Serial
  <2>2. T \in SUBSET Nat
    OBVIOUS
  <2> HIDE DEF T
  <2> QED BY <2>1, <2>2, LeastNumber
<1>3. PICK x : Serial(scheme, x) /\ x # <<>> /\ ~ IsLeft(scheme, x) /\ Len(x) = m
  BY <1>2
<1>4. Len(x) \in Nat \ {0} /\ x \in Seq(Row)
  BY <1>3, EmptySeq DEF Serial
<1>5. PICK h : /\ Serial(scheme, h) /\ Len(x) = Len(h) + 1
               /\ \E r \in Row : x = Append(h, r)
  BY <1>3, <1>4, SerialFront
<1>6. PICK r \in Row : x = Append(h, r)
  BY <1>5
<1>7. h \in Seq(Row) /\ Len(h) \in Nat /\ ~(m <= Len(h))
  BY <1>3, <1>5 DEF Serial
<1>8. h # <<>> => IsLeft(scheme, h)
  <2>1. Len(h) \notin T
    <3> HIDE DEF T
    <3> QED BY <1>2, <1>7
  <2> QED BY <1>5, <1>7, <2>1
<1>9. MaxRetry \in Nat /\ r.stage \in Range(Stages) /\ r.retry \in 0 .. MaxRetry /\ r.status \in Status
  BY ChargesAssumption DEF Row
<1>10. r = [stage |-> r.stage, retry |-> r.retry, status |-> r.status]
  BY DEF Row
<1>11. Serial(scheme, Append(h, r))
  BY <1>3, <1>6
<1>12. CASE h = <<>>
  <2>1. r.stage = scheme[1] /\ r.retry = 0
    BY <1>5, <1>11, <1>12, AppendIsSerial DEF Begins
  <2> DEFINE last == [i \in 1 .. 3 |-> 0]
  <2>2. last \in Lasts /\ last[1] = 0
    BY <1>9 DEF Lasts
  <2> HIDE DEF last
  <2>3. RowsOf(scheme, 1, last, r.status) = {r}
    BY <1>9, <1>10, <2>1, <2>2, FirstTry
  <2>4. Len(x) = 1 /\ x[1] = r /\ Range(x) = {r}
    BY <1>6, <1>12, OneRow
  <2>5. x[Len(x)] = [stage |-> scheme[1], retry |-> last[1], status |-> r.status]
    BY <1>10, <2>1, <2>2, <2>4
  <2>6. Leaves(scheme, x, 1, last, r.status)
    BY <1>3, <2>2, <2>3, <2>4, <2>5 DEF Leaves, Before
  <2>7. 1 \in 1 .. Len(scheme)
    BY SchemeOrder
  <2> QED BY <1>3, <1>9, <2>2, <2>6, <2>7 DEF IsLeft
<1>13. CASE h # <<>>
  <2>1. PICK n \in 1 .. Len(scheme), last \in Lasts, status \in Status :
               Leaves(scheme, h, n, last, status)
    BY <1>8, <1>13 DEF IsLeft
  <2>2. Follows(scheme, h[Len(h)], r)
    BY <1>5, <1>11, <1>13, AppendIsSerial
  <2>3. h[Len(h)].stage = scheme[n] /\ h[Len(h)].retry = last[n] /\ h[Len(h)].status = status
    BY <2>1 DEF Leaves
  <2>4. CASE status = "SUCCESS"
    <3>1. r.retry = 0 /\ \E i \in 1 .. Len(scheme) - 1 : scheme[i] = scheme[n] /\ scheme[i + 1] = r.stage
      BY <2>2, <2>3, <2>4 DEF Follows
    <3>2. n \in 1 .. Len(scheme) - 1 /\ scheme[n + 1] = r.stage
      <4>1. PICK i \in 1 .. Len(scheme) - 1 : scheme[i] = scheme[n] /\ scheme[i + 1] = r.stage
        BY <3>1
      <4>2. Len(scheme) \in Nat /\ i \in 1 .. Len(scheme)
        BY SchemeOrder
      <4>3. i = n
        BY <4>1, <4>2, SchemeOrder
      <4> QED BY <4>1, <4>3
    <3>3. n \in 1 .. 2 /\ n + 1 \in 1 .. Len(scheme)
      BY <3>2, SchemeOrder
    <3> DEFINE more == [last EXCEPT ![n + 1] = 0]
    <3>4. more \in Lasts /\ more[n + 1] = 0 /\ Leaves(scheme, h, n, more, "SUCCESS")
      BY <2>1, <2>4, <3>3, LaterStages
    <3> HIDE DEF more
    <3>5. r = [stage |-> scheme[n + 1], retry |-> 0, status |-> r.status]
      BY <1>10, <3>1, <3>2
    <3>6. Leaves(scheme, Append(h, r), n + 1, more, r.status)
      BY <1>5, <1>9, <3>2, <3>4, <3>5, NextStageLeaves
    <3> QED BY <1>3, <1>6, <1>9, <3>3, <3>4, <3>6 DEF IsLeft
  <2>5. CASE status # "SUCCESS"
    <3>1. status = "FAILED"
      BY <2>5 DEF Status
    <3>2. r.retry = last[n] + 1 /\ r.stage = scheme[n]
      BY <2>2, <2>3, <2>5 DEF Follows
    <3>3. last[n] + 1 <= MaxRetry
      BY <1>9, <3>2
    <3>4. r = [stage |-> scheme[n], retry |-> last[n] + 1, status |-> r.status]
      BY <1>10, <3>2
    <3> DEFINE more == [last EXCEPT ![n] = last[n] + 1]
    <3>5. more \in Lasts /\ Leaves(scheme, Append(h, r), n, more, r.status)
      BY <1>5, <1>9, <2>1, <3>1, <3>3, <3>4, RetryLeaves
    <3> HIDE DEF more
    <3> QED BY <1>3, <1>6, <1>9, <3>5 DEF IsLeft
  <2> QED BY <2>4, <2>5
<1> QED BY <1>12, <1>13

\* And every choice of last tries is left by some serial history.
HasHistory(scheme, n, last, status) ==
  \E h : Serial(scheme, h) /\ Leaves(scheme, h, n, last, status)

\* If every first try of a stage ends a history, so does every later try.
LEMMA TriesOfStage ==
  ASSUME NEW scheme \in Schemes, NEW n \in 1 .. Len(scheme),
         \A last \in Lasts, status \in Status : last[n] = 0 => HasHistory(scheme, n, last, status)
  PROVE  \A last \in Lasts, status \in Status : HasHistory(scheme, n, last, status)
<1> DEFINE T == {k \in Nat : \E last \in Lasts, status \in Status :
                               last[n] = k /\ ~ HasHistory(scheme, n, last, status)}
<1>0. n \in 1 .. 3 /\ MaxRetry \in Nat
  BY SchemeOrder, ChargesAssumption
<1>1. SUFFICES ASSUME NEW l \in Lasts, NEW s \in Status, ~ HasHistory(scheme, n, l, s) PROVE FALSE
  OBVIOUS
<1>2. PICK k \in T : \A j \in T : k <= j
  <2>1. l[n] \in T
    BY <1>0, <1>1 DEF Lasts
  <2>2. T \in SUBSET Nat
    OBVIOUS
  <2> HIDE DEF T
  <2> QED BY <2>1, <2>2, LeastNumber
<1>3. PICK last \in Lasts, status \in Status : last[n] = k /\ ~ HasHistory(scheme, n, last, status)
  BY <1>2
<1>4. k \in Nat /\ k # 0 /\ k \in 0 .. MaxRetry
  BY <1>0, <1>2, <1>3 DEF Lasts
<1> DEFINE less == [last EXCEPT ![n] = k - 1]
<1>5. less \in Lasts /\ less[n] = k - 1
  BY <1>0, <1>4 DEF Lasts
<1>6. [less EXCEPT ![n] = less[n] + 1] = last
  <2>1. less[n] + 1 = last[n]
    BY <1>3, <1>4, <1>5
  <2>2. last = [i \in 1 .. 3 |-> last[i]]
    BY DEF Lasts
  <2>3. [less EXCEPT ![n] = last[n]] = last
    BY <2>2
  <2> QED BY <2>1, <2>3
<1> HIDE DEF less
<1>7. HasHistory(scheme, n, less, "FAILED")
  <2>1. k - 1 \notin T
    <3>1. k - 1 \in Nat /\ ~(k <= k - 1)
      BY <1>4
    <3> HIDE DEF T
    <3> QED BY <1>2, <3>1
  <2> QED BY <1>4, <1>5, <2>1 DEF Status
<1>8. PICK h : Serial(scheme, h) /\ Leaves(scheme, h, n, less, "FAILED")
  BY <1>7 DEF HasHistory
<1> DEFINE r == [stage |-> scheme[n], retry |-> less[n] + 1, status |-> status]
<1>9. less[n] + 1 <= MaxRetry
  BY <1>0, <1>4, <1>5
<1> HIDE DEF r
<1>10. r = [stage |-> scheme[n], retry |-> less[n] + 1, status |-> status]
  BY DEF r
<1>11. /\ Serial(scheme, Append(h, r))
       /\ Leaves(scheme, Append(h, r), n, [less EXCEPT ![n] = less[n] + 1], status)
  BY <1>3, <1>5, <1>8, <1>9, <1>10, RetryLeaves
<1> QED BY <1>3, <1>6, <1>11 DEF HasHistory

\* Every choice of a stage, of last tries and of a status is left by a history.
LEMMA EveryHistory ==
  ASSUME NEW scheme \in Schemes
  PROVE  \A n \in 1 .. Len(scheme) : \A last \in Lasts, status \in Status :
           HasHistory(scheme, n, last, status)
<1>1. Len(scheme) \in {2, 3}
  BY SchemeOrder
<1>2. \A last \in Lasts, status \in Status : HasHistory(scheme, 1, last, status)
  <2>1. \A last \in Lasts, status \in Status : last[1] = 0 => HasHistory(scheme, 1, last, status)
    BY BeginningLeaves DEF HasHistory
  <2>2. 1 \in 1 .. Len(scheme)
    BY <1>1
  <2> QED BY <2>1, <2>2, TriesOfStage
<1>3. ASSUME NEW n \in 1 .. Len(scheme) - 1,
             \A last \in Lasts, status \in Status : HasHistory(scheme, n, last, status)
      PROVE  \A last \in Lasts, status \in Status : HasHistory(scheme, n + 1, last, status)
  <2>1. n + 1 \in 1 .. Len(scheme)
    BY <1>1
  <2>2. ASSUME NEW last \in Lasts, NEW status \in Status, last[n + 1] = 0
        PROVE  HasHistory(scheme, n + 1, last, status)
    <3>1. PICK h : Serial(scheme, h) /\ Leaves(scheme, h, n, last, "SUCCESS")
      BY <1>3 DEF HasHistory, Status
    <3> DEFINE r == [stage |-> scheme[n + 1], retry |-> 0, status |-> status]
    <3> HIDE DEF r
    <3>2. r = [stage |-> scheme[n + 1], retry |-> 0, status |-> status]
      BY DEF r
    <3>3. Serial(scheme, Append(h, r)) /\ Leaves(scheme, Append(h, r), n + 1, last, status)
      BY <2>2, <3>1, <3>2, NextStageLeaves
    <3> QED BY <3>3 DEF HasHistory
  <2> QED BY <2>1, <2>2, TriesOfStage
<1>4. \A last \in Lasts, status \in Status : HasHistory(scheme, 2, last, status)
  <2>1. 1 \in 1 .. Len(scheme) - 1 /\ 1 + 1 = 2
    BY <1>1
  <2> QED BY <1>2, <1>3, <2>1
<1>5. CASE Len(scheme) = 2
  <2>1. \A n \in 1 .. Len(scheme) : n = 1 \/ n = 2
    BY <1>5
  <2> QED BY <1>2, <1>4, <2>1
<1>6. CASE Len(scheme) = 3
  <2>1. 2 \in 1 .. Len(scheme) - 1 /\ 2 + 1 = 3
    BY <1>6
  <2>2. \A last \in Lasts, status \in Status : HasHistory(scheme, 3, last, status)
    BY <1>3, <1>4, <2>1
  <2>3. \A n \in 1 .. Len(scheme) : n = 1 \/ n = 2 \/ n = 3
    BY <1>6
  <2> QED BY <1>2, <1>4, <2>2, <2>3
<1> QED BY <1>1, <1>5, <1>6

\* The rows of one stage whose last try was number k.
Tries(s, k, status) == {r \in Row : Tried(r, s, k, status)}

\* There are k + 1 of them, numbered from 0.
LEMMA TriesCount ==
  ASSUME NEW s \in Range(Stages), NEW k \in 0 .. MaxRetry, NEW status \in Status
  PROVE  /\ {r.retry : r \in Tries(s, k, status)} = 0 .. k
         /\ Cardinality(Tries(s, k, status)) = k + 1
<1> DEFINE S == Tries(s, k, status)
           x(j) == [stage |-> s, retry |-> j, status |-> IF j = k THEN status ELSE "FAILED"]
           f == [j \in 0 .. k |-> x(j)]
<1>0. MaxRetry \in Nat /\ k \in Nat
  BY ChargesAssumption
<1>1. ASSUME NEW j \in 0 .. k PROVE x(j) \in S /\ x(j).retry = j
  <2>1. x(j) \in Row
    BY <1>0 DEF Row, Status
  <2> QED BY <1>0, <2>1 DEF Tries, Tried
<1>2. ASSUME NEW r \in S PROVE r.retry \in 0 .. k /\ r = x(r.retry)
  <2>1. r \in Row /\ Tried(r, s, k, status)
    BY DEF Tries
  <2>2. r.retry \in 0 .. k
    BY <1>0, <2>1 DEF Tried, Row
  <2>3. r = [stage |-> r.stage, retry |-> r.retry, status |-> r.status]
    BY <2>1 DEF Row
  <2> QED BY <2>1, <2>2, <2>3 DEF Tried
<1>3. f \in Bijection(0 .. k, S)
  <2> HIDE DEF x, S
  <2>1. f \in [0 .. k -> S] /\ \A j \in 0 .. k : f[j] = x(j)
    BY <1>1
  <2> HIDE DEF f
  <2>2. \A i, j \in 0 .. k : f[i] = f[j] => i = j
    BY <1>1, <2>1
  <2>3. \A r \in S : \E j \in 0 .. k : f[j] = r
    BY <1>2, <2>1
  <2> QED BY <2>1, <2>2, <2>3 DEF Bijection, Injection, Surjection, IsInjective
<1>4. IsFiniteSet(0 .. k) /\ Cardinality(0 .. k) = k + 1
  <2>1. 0 \in Int /\ k \in Int /\ ~(0 > k) /\ k - 0 + 1 = k + 1
    BY <1>0
  <2> QED BY <2>1, FS_Interval, SMTT(30)
<1>5. Cardinality(S) = k + 1
  <2> HIDE DEF f, S
  <2>1. ExistsBijection(0 .. k, S)
    BY <1>3 DEF ExistsBijection
  <2> QED BY <1>4, <2>1, FS_Bijection
<1>6. {r.retry : r \in S} = 0 .. k
  <2> HIDE DEF x, S
  <2> QED BY <1>1, <1>2
<1> QED BY <1>5, <1>6

\* What the stages of a scheme leave, stage by stage.
LEMMA StagesOfRows ==
  ASSUME NEW scheme \in Schemes, NEW n \in 1 .. Len(scheme), NEW last \in Lasts, NEW status \in Status
  PROVE  /\ \A i \in 1 .. n : Of(RowsOf(scheme, n, last, status), scheme[i])
                                = Tries(scheme[i], last[i], IF i < n THEN "SUCCESS" ELSE status)
         /\ \A s : (\A i \in 1 .. n : s # scheme[i]) => Of(RowsOf(scheme, n, last, status), s) = {}
<1>1. \A i \in 1 .. n : i \in 1 .. Len(scheme)
  BY SchemeOrder
<1>2. ASSUME NEW i \in 1 .. n
      PROVE  Of(RowsOf(scheme, n, last, status), scheme[i])
               = Tries(scheme[i], last[i], IF i < n THEN "SUCCESS" ELSE status)
  <2>1. ASSUME NEW r \in Row, r.stage = scheme[i], NEW j \in 1 .. n,
               Tried(r, scheme[j], last[j], IF j < n THEN "SUCCESS" ELSE status)
        PROVE  j = i
    <3>1. scheme[j] = scheme[i]
      BY <2>1 DEF Tried
    <3> QED BY <1>1, <3>1, SchemeOrder
  <2>2. ASSUME NEW r
        PROVE  r \in Of(RowsOf(scheme, n, last, status), scheme[i]) <=>
                 r \in Tries(scheme[i], last[i], IF i < n THEN "SUCCESS" ELSE status)
    <3>1. r \in Of(RowsOf(scheme, n, last, status), scheme[i]) <=>
            /\ r \in Row /\ r.stage = scheme[i]
            /\ \E j \in 1 .. n : Tried(r, scheme[j], last[j], IF j < n THEN "SUCCESS" ELSE status)
      BY DEF Of, RowsOf
    <3>2. r \in Tries(scheme[i], last[i], IF i < n THEN "SUCCESS" ELSE status) <=>
            r \in Row /\ Tried(r, scheme[i], last[i], IF i < n THEN "SUCCESS" ELSE status)
      BY DEF Tries
    <3>3. Tried(r, scheme[i], last[i], IF i < n THEN "SUCCESS" ELSE status) => r.stage = scheme[i]
      BY DEF Tried
    <3> QED BY <2>1, <3>1, <3>2, <3>3
  <2> QED BY <2>2
<1>3. ASSUME NEW s, \A i \in 1 .. n : s # scheme[i]
      PROVE  Of(RowsOf(scheme, n, last, status), s) = {}
  BY <1>3 DEF Of, RowsOf, Tried
<1> QED BY <1>2, <1>3

\* The rows of a stage as aggregate_charges() accepts them.
LEMMA AcceptedStage ==
  ASSUME NEW rows \in SUBSET Row, NEW s \in Range(Stages), Of(rows, s) # {},
         \A r, q \in rows : r.stage = q.stage /\ r.retry = q.retry => r = q,
         RetriesOK(rows)
  PROVE  /\ Cardinality(Of(rows, s)) - 1 \in 0 .. MaxRetry
         /\ \E status \in Status : /\ Of(rows, s) = Tries(s, Cardinality(Of(rows, s)) - 1, status)
                                   /\ Ended(rows, s) => status = "SUCCESS"
<1> DEFINE S == Of(rows, s)
           k == Cardinality(S) - 1
<1>0. MaxRetry \in Nat
  BY ChargesAssumption
<1>1. /\ S \subseteq Row /\ \A r \in S : r.stage = s /\ r.retry \in 0 .. MaxRetry
      /\ \A r, q \in S : r.retry = q.retry => r = q
  BY DEF Of, Row
<1>2. /\ {r.retry : r \in S} = 0 .. k
      /\ \A r \in S : r.status = "SUCCESS" => r.retry = k
  BY DEF RetriesOK
<1>3. IsFiniteSet(S)
  <2> DEFINE f == [r \in S |-> r.retry]
  <2>1. f \in Injection(S, 0 .. MaxRetry)
    BY <1>1 DEF Injection, IsInjective
  <2>2. IsFiniteSet(0 .. MaxRetry)
    <3>1. 0 \in Int /\ MaxRetry \in Int
      BY <1>0
    <3> QED BY <3>1, FS_Interval, SMTT(30)
  <2> HIDE DEF f, S
  <2> QED BY <2>1, <2>2, FS_Injection
<1>4. k \in Nat
  <2>1. Cardinality(S) \in Nat /\ Cardinality(S) # 0
    <3> HIDE DEF S
    <3>1. S # {}
      BY DEF S
    <3> QED BY <1>3, <3>1, FS_CardinalityType, FS_EmptySet
  <2> HIDE DEF S
  <2> QED BY <2>1
<1> HIDE DEF k
<1>5. PICK top \in S : top.retry = k
  <2>1. k \in 0 .. k
    BY <1>4
  <2> HIDE DEF S
  <2> QED BY <1>2, <2>1
<1>6. k \in 0 .. MaxRetry
  BY <1>1, <1>5
<1>7. top.status \in Status
  BY <1>1, <1>5 DEF Row
<1>8. ASSUME NEW r PROVE r \in S <=> r \in Tries(s, k, top.status)
  <2>1. ASSUME r \in S PROVE r \in Tries(s, k, top.status)
    <3> HIDE DEF S
    <3>1. r \in Row /\ r.stage = s /\ r.retry \in 0 .. k
      BY <1>1, <1>2, <2>1
    <3>2. r.retry = k => r.status = top.status
      BY <1>1, <1>5, <2>1
    <3>3. r.retry # k => r.status = "FAILED"
      BY <1>2, <2>1, <3>1 DEF Row, Status
    <3> QED BY <1>4, <3>1, <3>2, <3>3 DEF Tries, Tried
  <2>2. ASSUME r \in Tries(s, k, top.status) PROVE r \in S
    <3> HIDE DEF S
    <3>1. /\ r \in Row /\ r.stage = s /\ r.retry \in 0 .. k
          /\ r.status = IF r.retry = k THEN top.status ELSE "FAILED"
      BY <1>0, <1>4, <2>2 DEF Tries, Tried, Row
    <3>2. PICK q \in S : q.retry = r.retry
      BY <1>2, <3>1
    <3>3. q \in Row /\ q.stage = s /\ q.status = IF q.retry = k THEN top.status ELSE "FAILED"
      <4>1. q \in Row /\ q.stage = s
        BY <1>1, <3>2
      <4>2. q.retry = k => q.status = top.status
        BY <1>1, <1>5, <3>2
      <4>3. q.retry # k => q.status = "FAILED"
        BY <1>2, <3>2, <4>1 DEF Row, Status
      <4> QED BY <4>1, <4>2, <4>3
    <3>4. r = q
      BY <3>1, <3>2, <3>3 DEF Row
    <3> QED BY <3>2, <3>4
  <2> QED BY <2>1, <2>2
<1>9. S = Tries(s, k, top.status)
  BY <1>8
<1>10. Ended(rows, s) => top.status = "SUCCESS"
  <2>1. ASSUME Ended(rows, s) PROVE top.status = "SUCCESS"
    <3>1. PICK r \in S : r.retry = k /\ r.status = "SUCCESS"
      BY <2>1 DEF Ended, k
    <3>2. r = top
      BY <1>1, <1>5, <3>1
    <3> QED BY <3>1, <3>2
  <2> QED BY <2>1
<1> HIDE DEF S
<1>11. \E status \in Status : S = Tries(s, k, status) /\ (Ended(rows, s) => status = "SUCCESS")
  BY <1>7, <1>9, <1>10
<1> QED BY <1>6, <1>11 DEF S, k

\* The rows of stages that were tried in order, with their last tries.
IsRowsOf(scheme, final, rows) ==
  \E n \in 1 .. Len(scheme), last \in Lasts, status \in Status :
    /\ rows = RowsOf(scheme, n, last, status)
    /\ final = "SUCCESS" => n = Len(scheme) /\ status = "SUCCESS"

\* What is accepted are such rows.
LEMMA AcceptedAreRows ==
  ASSUME NEW scheme \in Schemes, NEW final, NEW rows \in SUBSET Row, Accepts(scheme, final, rows)
  PROVE  IsRowsOf(scheme, final, rows)
<1>1. /\ \A r, q \in rows : r.stage = q.stage /\ r.retry = q.retry => r = q
      /\ RetriesOK(rows)
  BY DEF Accepts
<1>2. PICK n \in 1 .. Len(scheme) :
       /\ {s \in Range(Stages) : Of(rows, s) # {}} = {scheme[i] : i \in 1 .. n}
       /\ \A i \in 1 .. n - 1 : Ended(rows, scheme[i])
       /\ final = "SUCCESS" => n = Len(scheme) /\ Ended(rows, scheme[n])
  BY DEF Accepts
<1>3. /\ n \in 1 .. 3 /\ \A i \in 1 .. n : scheme[i] \in Range(Stages) /\ i \in 1 .. 3
      /\ MaxRetry \in Nat
  BY SchemeOrder, ChargesAssumption
<1>4. \A i \in 1 .. n : Of(rows, scheme[i]) # {}
  BY <1>2, <1>3
<1> DEFINE k(i) == Cardinality(Of(rows, scheme[i])) - 1
           last == [i \in 1 .. 3 |-> IF i \in 1 .. n THEN k(i) ELSE 0]
<1>5. ASSUME NEW i \in 1 .. n
      PROVE  /\ k(i) \in 0 .. MaxRetry
             /\ \E status \in Status : /\ Of(rows, scheme[i]) = Tries(scheme[i], k(i), status)
                                       /\ Ended(rows, scheme[i]) => status = "SUCCESS"
  BY <1>1, <1>3, <1>4, AcceptedStage
<1> HIDE DEF k
<1>6. last \in Lasts /\ \A i \in 1 .. n : last[i] = k(i)
  BY <1>3, <1>5 DEF Lasts
<1> HIDE DEF last
<1>7. n \in 1 .. n
  BY <1>3
<1>8. PICK status \in Status : /\ Of(rows, scheme[n]) = Tries(scheme[n], last[n], status)
                               /\ Ended(rows, scheme[n]) => status = "SUCCESS"
  BY <1>5, <1>6, <1>7
<1>9. ASSUME NEW i \in 1 .. n
      PROVE  Of(rows, scheme[i]) = Tries(scheme[i], last[i], IF i < n THEN "SUCCESS" ELSE status)
  <2>1. CASE i < n
    <3>1. Ended(rows, scheme[i])
      BY <1>2, <1>3, <2>1
    <3> QED BY <1>5, <1>6, <2>1, <3>1
  <2>2. CASE ~(i < n)
    <3>1. i = n
      BY <1>3, <2>2
    <3> QED BY <1>8, <2>2, <3>1
  <2> QED BY <2>1, <2>2
<1>10. ASSUME NEW r PROVE r \in rows <=> r \in RowsOf(scheme, n, last, status)
  <2>1. ASSUME r \in rows PROVE r \in RowsOf(scheme, n, last, status)
    <3>1. r \in Row /\ r.stage \in Range(Stages) /\ r \in Of(rows, r.stage)
      BY <2>1 DEF Row, Of
    <3>2. PICK i \in 1 .. n : r.stage = scheme[i]
      BY <1>2, <3>1
    <3>3. r \in Tries(scheme[i], last[i], IF i < n THEN "SUCCESS" ELSE status)
      BY <1>9, <3>1, <3>2
    <3> QED BY <3>1, <3>3 DEF Tries, RowsOf
  <2>2. ASSUME r \in RowsOf(scheme, n, last, status) PROVE r \in rows
    <3>1. PICK i \in 1 .. n : r \in Tries(scheme[i], last[i], IF i < n THEN "SUCCESS" ELSE status)
      BY <2>2 DEF Tries, RowsOf
    <3>2. r \in Of(rows, scheme[i])
      BY <1>9, <3>1
    <3> QED BY <3>2 DEF Of
  <2> QED BY <2>1, <2>2
<1>11. rows = RowsOf(scheme, n, last, status)
  BY <1>10
<1>12. final = "SUCCESS" => n = Len(scheme) /\ status = "SUCCESS"
  BY <1>2, <1>8
<1> QED BY <1>6, <1>11, <1>12 DEF IsRowsOf

\* Such rows have one status for a stage and a retry, and are accepted.
LEMMA RowsAreAccepted ==
  ASSUME NEW scheme \in Schemes, NEW final, NEW rows, IsRowsOf(scheme, final, rows)
  PROVE  /\ rows \subseteq Row
         /\ \A r, q \in rows : r.stage = q.stage /\ r.retry = q.retry => r = q
         /\ Accepts(scheme, final, rows)
<1>1. PICK n \in 1 .. Len(scheme), last \in Lasts, status \in Status :
        /\ rows = RowsOf(scheme, n, last, status)
        /\ final = "SUCCESS" => n = Len(scheme) /\ status = "SUCCESS"
  BY DEF IsRowsOf
<1> DEFINE st(i) == IF i < n THEN "SUCCESS" ELSE status
<1>2. /\ n \in 1 .. 3 /\ \A i \in 1 .. n : scheme[i] \in Range(Stages) /\ i \in 1 .. 3
      /\ MaxRetry \in Nat
  BY SchemeOrder, ChargesAssumption
<1>3. \A i \in 1 .. n : last[i] \in 0 .. MaxRetry /\ st(i) \in Status
  BY <1>2 DEF Lasts, Status
<1>4. /\ \A i \in 1 .. n : Of(rows, scheme[i]) = Tries(scheme[i], last[i], st(i))
      /\ \A s : (\A i \in 1 .. n : s # scheme[i]) => Of(rows, s) = {}
  BY <1>1, StagesOfRows
<1> HIDE DEF st
<1>5. ASSUME NEW i \in 1 .. n
      PROVE  /\ {r.retry : r \in Of(rows, scheme[i])} = 0 .. last[i]
             /\ Cardinality(Of(rows, scheme[i])) = last[i] + 1
  BY <1>2, <1>3, <1>4, TriesCount
<1>6. rows \subseteq Row
  BY <1>1 DEF RowsOf
<1>7. ASSUME NEW r \in rows, NEW q \in rows, r.stage = q.stage, r.retry = q.retry
      PROVE  r = q
  <2>1. PICK i \in 1 .. n : r \in Tries(scheme[i], last[i], st(i))
    BY <1>1 DEF RowsOf, Tries, st
  <2>2. r.stage = scheme[i]
    BY <2>1 DEF Tries, Tried
  <2>3. q \in Tries(scheme[i], last[i], st(i))
    BY <1>4, <1>7, <2>2 DEF Of
  <2>4. r.status = q.status
    BY <1>7, <2>1, <2>3 DEF Tries, Tried
  <2> QED BY <1>6, <1>7, <2>4 DEF Row
<1>8. RetriesOK(rows)
  <2> SUFFICES ASSUME NEW s \in Range(Stages)
               PROVE  /\ {r.retry : r \in Of(rows, s)} = 0 .. Cardinality(Of(rows, s)) - 1
                      /\ \A r \in Of(rows, s) :
                           r.status = "SUCCESS" => r.retry = Cardinality(Of(rows, s)) - 1
    BY DEF RetriesOK
  <2>1. CASE \E i \in 1 .. n : s = scheme[i]
    <3>1. PICK i \in 1 .. n : s = scheme[i]
      BY <2>1
    <3>2. Cardinality(Of(rows, s)) - 1 = last[i]
      BY <1>3, <1>5, <3>1
    <3>3. \A r \in Of(rows, s) : r.status = "SUCCESS" => r.retry = last[i]
      BY <1>4, <3>1 DEF Tries, Tried
    <3> QED BY <1>5, <3>1, <3>2, <3>3
  <2>2. CASE \A i \in 1 .. n : s # scheme[i]
    <3>1. Of(rows, s) = {}
      BY <1>4, <2>2
    <3>2. Cardinality(Of(rows, s)) - 1 = -1
      BY <3>1, FS_EmptySet
    <3>3. 0 .. -1 = {}
      OBVIOUS
    <3> QED BY <3>1, <3>2, <3>3
  <2> QED BY <2>1, <2>2
<1>9. ASSUME NEW i \in 1 .. n
      PROVE  Of(rows, scheme[i]) # {} /\ (st(i) = "SUCCESS" => Ended(rows, scheme[i]))
  <2>1. PICK r \in Of(rows, scheme[i]) : r.retry = last[i]
    <3>1. last[i] \in 0 .. last[i]
      BY <1>2, <1>3
    <3> QED BY <1>5, <3>1
  <2>2. r.status = st(i)
    BY <1>4, <2>1 DEF Tries, Tried
  <2>3. Cardinality(Of(rows, scheme[i])) - 1 = last[i]
    BY <1>3, <1>5
  <2> QED BY <2>1, <2>2, <2>3 DEF Ended
<1>10. {s \in Range(Stages) : Of(rows, s) # {}} = {scheme[i] : i \in 1 .. n}
  BY <1>2, <1>4, <1>9
<1>11. \A i \in 1 .. n - 1 : Ended(rows, scheme[i])
  <2>1. \A i \in 1 .. n - 1 : i \in 1 .. n /\ i < n
    BY <1>2
  <2> QED BY <1>9, <2>1 DEF st
<1>12. n \in 1 .. n
  BY <1>2
<1>13. final = "SUCCESS" => n = Len(scheme) /\ Ended(rows, scheme[n])
  <2>1. ~(n < n)
    BY <1>2
  <2> QED BY <1>1, <1>9, <1>12, <2>1 DEF st
<1>14. rows # {}
  BY <1>9, <1>12 DEF Of
<1>15. Accepts(scheme, final, rows)
  BY <1>7, <1>8, <1>10, <1>11, <1>13, <1>14 DEF Accepts
<1> QED BY <1>6, <1>7, <1>15

\* The sets of rows considered are those with one status for a stage and a retry.
LEMMA RowSetsAre ==
  ASSUME NEW rows
  PROVE  rows \in RowSets <=>
           /\ rows \subseteq Row
           /\ \A r, q \in rows : r.stage = q.stage /\ r.retry = q.retry => r = q
<1> DEFINE key == Range(Stages) \X (0 .. MaxRetry)
           RowAt(f, k) == [stage |-> k[1], retry |-> k[2], status |-> f[k]]
           Keys(f) == {k \in key : f[k] # "NONE"}
           Table == [key -> Status \cup {"NONE"}]
<1>1. rows \in RowSets <=> \E f \in Table : rows = {RowAt(f, k) : k \in Keys(f)}
  BY DEF RowSets
<1>2. ASSUME NEW f \in Table, rows = {RowAt(f, k) : k \in Keys(f)}
      PROVE  /\ rows \subseteq Row
             /\ \A r, q \in rows : r.stage = q.stage /\ r.retry = q.retry => r = q
  <2>1. ASSUME NEW k \in Keys(f)
        PROVE  RowAt(f, k) \in Row /\ k = <<RowAt(f, k).stage, RowAt(f, k).retry>>
    <3>1. k \in key /\ f[k] # "NONE"
      OBVIOUS
    <3>2. f[k] \in Status
      <4> HIDE DEF key
      <4> QED BY <3>1
    <3>3. k[1] \in Range(Stages) /\ k[2] \in 0 .. MaxRetry /\ k = <<k[1], k[2]>>
      BY <3>1
    <3> QED BY <3>2, <3>3 DEF Row
  <2> HIDE DEF RowAt, Keys
  <2> QED BY <1>2, <2>1
<1>3. ASSUME rows \subseteq Row, \A r, q \in rows : r.stage = q.stage /\ r.retry = q.retry => r = q
      PROVE  \E f \in Table : rows = {RowAt(f, k) : k \in Keys(f)}
  <2> DEFINE Has(k) == \E r \in rows : r.stage = k[1] /\ r.retry = k[2]
             The(k) == CHOOSE r \in rows : r.stage = k[1] /\ r.retry = k[2]
             f == [k \in key |-> IF Has(k) THEN The(k).status ELSE "NONE"]
  <2>1. ASSUME NEW k \in key, Has(k)
        PROVE  The(k) \in rows /\ The(k).stage = k[1] /\ The(k).retry = k[2]
    BY <2>1
  <2>2. ASSUME NEW r \in rows
        PROVE  /\ <<r.stage, r.retry>> \in key /\ Has(<<r.stage, r.retry>>)
               /\ r.status \in Status
    BY <1>3 DEF Row
  <2> HIDE DEF Has, The, key
  <2>3. \A k \in key : Has(k) => The(k).status \in Status
    BY <1>3, <2>1, <2>2
  <2>4. f \in Table
    BY <2>3
  <2>5. \A k \in key : f[k] = IF Has(k) THEN The(k).status ELSE "NONE"
    OBVIOUS
  <2> HIDE DEF f
  <2>6. \A k \in key : k \in Keys(f) <=> Has(k)
    <3>1. "NONE" \notin Status
      BY DEF Status
    <3> QED BY <2>3, <2>5, <3>1
  <2> HIDE DEF Keys
  <2>7. ASSUME NEW k \in Keys(f) PROVE RowAt(f, k) \in rows
    <3>1. k \in key /\ Has(k)
      BY <2>6 DEF Keys
    <3>2. The(k) \in Row /\ The(k).stage = k[1] /\ The(k).retry = k[2] /\ f[k] = The(k).status
      BY <1>3, <2>1, <2>5, <3>1
    <3>3. RowAt(f, k) = The(k)
      <4>1. The(k) = [stage |-> The(k).stage, retry |-> The(k).retry, status |-> The(k).status]
        BY <3>2 DEF Row
      <4> QED BY <3>2, <4>1
    <3> QED BY <2>1, <3>1, <3>3
  <2>8. ASSUME NEW r \in rows PROVE \E k \in Keys(f) : r = RowAt(f, k)
    <3> DEFINE k == <<r.stage, r.retry>>
    <3>1. k \in key /\ Has(k) /\ k[1] = r.stage /\ k[2] = r.retry
      BY <2>2
    <3> HIDE DEF k
    <3>2. The(k) = r /\ f[k] = The(k).status
      BY <1>3, <2>1, <2>5, <3>1
    <3>3. r = [stage |-> r.stage, retry |-> r.retry, status |-> r.status]
      BY <1>3 DEF Row
    <3>4. k \in Keys(f)
      BY <2>6, <3>1
    <3>5. r = RowAt(f, k)
      BY <3>1, <3>2, <3>3
    <3> QED BY <3>4, <3>5
  <2>9. rows = {RowAt(f, k) : k \in Keys(f)}
    <3> HIDE DEF RowAt
    <3> QED BY <2>7, <2>8
  <2> HIDE DEF Table
  <2> QED BY <2>4, <2>9
<1> HIDE DEF Table, RowAt, Keys, key
<1> QED BY <1>1, <1>2, <1>3

\* A history leaves such rows, and every set of such rows is what one leaves.
LEMMA RowsOfHistories ==
  ASSUME NEW scheme \in Schemes, NEW final, NEW rows
  PROVE  (\E h \in Histories(scheme) : rows = Range(h) /\ (final = "SUCCESS" => Finished(scheme, h)))
           <=> IsRowsOf(scheme, final, rows)
<1>0. Bound \in Nat /\ MaxRetry \in Nat /\ Bound = 3 * (MaxRetry + 1)
  BY ChargesAssumption DEF Bound
<1>1. \A h : h \in Histories(scheme) <=> Serial(scheme, h) /\ Len(h) <= Bound /\ h # <<>>
  <2> DEFINE H == CHOOSE H : AreHistories(H, scheme, Bound)
  <2>1. AreHistories(H, scheme, Bound)
    <3>1. \E G : AreHistories(G, scheme, Bound)
      BY <1>0, HistoriesExist
    <3> QED BY <3>1
  <2>2. Histories(scheme) = H[Bound] \ {<<>>}
    BY HistoriesAreChosen
  <2> HIDE DEF H
  <2>3. Bound \in 0 .. Bound
    BY <1>0
  <2>4. \A h : h \in H[Bound] <=> Serial(scheme, h) /\ Len(h) <= Bound
    <3>1. \A n \in 0 .. Bound : \A h : h \in H[n] <=> Serial(scheme, h) /\ Len(h) <= n
      BY <1>0, <2>1, HistoriesOf
    <3> QED BY <2>3, <3>1
  <2> QED BY <2>2, <2>4
<1>2. Len(scheme) \in {2, 3} /\ Last(scheme) = scheme[Len(scheme)]
  BY SchemeOrder DEF Last
<1>3. ASSUME NEW h, h # <<>>, NEW n \in 1 .. Len(scheme), NEW last \in Lasts, NEW status \in Status,
             Leaves(scheme, h, n, last, status)
      PROVE  /\ Finished(scheme, h) <=> n = Len(scheme) /\ status = "SUCCESS"
             /\ Range(h) = RowsOf(scheme, n, last, status)
  <2>1. Last(h).stage = scheme[n] /\ Last(h).status = status
    BY <1>3 DEF Leaves, Last
  <2>2. scheme[n] = scheme[Len(scheme)] <=> n = Len(scheme)
    <3>1. Len(scheme) \in 1 .. Len(scheme)
      BY <1>2
    <3> QED BY <3>1, SchemeOrder
  <2> QED BY <1>2, <1>3, <2>1, <2>2 DEF Finished, Leaves
<1>4. ASSUME NEW h \in Histories(scheme), rows = Range(h), final = "SUCCESS" => Finished(scheme, h)
      PROVE  IsRowsOf(scheme, final, rows)
  <2>1. Serial(scheme, h) /\ h # <<>>
    BY <1>1
  <2>2. PICK n \in 1 .. Len(scheme), last \in Lasts, status \in Status :
               Leaves(scheme, h, n, last, status)
    BY <2>1, SerialLeaves DEF IsLeft
  <2>3. /\ Finished(scheme, h) <=> n = Len(scheme) /\ status = "SUCCESS"
        /\ rows = RowsOf(scheme, n, last, status)
    BY <1>3, <1>4, <2>1, <2>2
  <2> QED BY <1>4, <2>3 DEF IsRowsOf
<1>5. ASSUME IsRowsOf(scheme, final, rows)
      PROVE  \E h \in Histories(scheme) : rows = Range(h) /\ (final = "SUCCESS" => Finished(scheme, h))
  <2>1. PICK n \in 1 .. Len(scheme), last \in Lasts, status \in Status :
          /\ rows = RowsOf(scheme, n, last, status)
          /\ final = "SUCCESS" => n = Len(scheme) /\ status = "SUCCESS"
    BY <1>5 DEF IsRowsOf
  <2>2. PICK h : Serial(scheme, h) /\ Leaves(scheme, h, n, last, status)
    BY EveryHistory DEF HasHistory
  <2>3. h # <<>> /\ Len(h) <= Before(n) + last[n] + 1 /\ Len(h) \in Nat
    BY <2>2 DEF Leaves, Serial
  <2>4. Len(h) <= Bound
    <3>1. n \in 1 .. 3 /\ last[n] \in 0 .. MaxRetry
      BY SchemeOrder DEF Lasts
    <3>2. Before(n) \in Nat /\ Before(n) + (MaxRetry + 1) <= 3 * (MaxRetry + 1)
      BY <1>0, <3>1 DEF Before
    <3> HIDE DEF Lasts
    <3> QED BY <1>0, <2>3, <3>1, <3>2
  <2>5. h \in Histories(scheme)
    BY <1>1, <2>2, <2>3, <2>4
  <2>6. /\ Finished(scheme, h) <=> n = Len(scheme) /\ status = "SUCCESS"
        /\ Range(h) = RowsOf(scheme, n, last, status)
    BY <1>3, <2>2, <2>3
  <2> QED BY <2>1, <2>5, <2>6
<1> QED BY <1>4, <1>5

\* For every number of retries, what is accepted is what a serial executor leaves.
LEMMA AcceptedRowsAreSerialRows ==
  ASSUME NEW scheme \in Schemes, NEW final \in Status
  PROVE  AcceptedRows[scheme][final] = SerialRows[scheme][final]
<1>1. \A rows : rows \in AcceptedRows[scheme][final] <=> rows \in RowSets /\ Accepts(scheme, final, rows)
  BY DEF AcceptedRows
<1>2. \A rows : rows \in SerialRows[scheme][final] <=>
        \E h \in Histories(scheme) : rows = Range(h) /\ (final = "SUCCESS" => Finished(scheme, h))
  <2>1. SerialRows[scheme][final]
          = {Range(h) : h \in {h \in Histories(scheme) : final = "SUCCESS" => Finished(scheme, h)}}
    BY DEF SerialRows
  <2> QED BY <2>1
<1>3. \A rows : rows \in RowSets /\ Accepts(scheme, final, rows) <=> IsRowsOf(scheme, final, rows)
  BY AcceptedAreRows, RowsAreAccepted, RowSetsAre
<1>4. \A rows : rows \in SerialRows[scheme][final] <=> IsRowsOf(scheme, final, rows)
  BY <1>2, RowsOfHistories
<1>5. \A rows : rows \in AcceptedRows[scheme][final] <=> rows \in SerialRows[scheme][final]
  BY <1>1, <1>3, <1>4
<1>6. AcceptedRows[scheme][final] = {rows \in RowSets : Accepts(scheme, final, rows)}
  BY DEF AcceptedRows
<1>7. SerialRows[scheme][final]
        = {Range(h) : h \in {h \in Histories(scheme) : final = "SUCCESS" => Finished(scheme, h)}}
  BY DEF SerialRows
<1> QED BY <1>5, <1>6, <1>7

\* For every number of retries, actions and outcomes: the rows that aggregate_charges()
\* accepts for an action are exactly those that a serial executor can leave.
THEOREM AcceptedRowsAreSerial == Spec => []AcceptedIsSerial
<1>1. AcceptedIsSerial
  <2>1. \A a \in Action : Final(a) \in Status
    BY DEF Final, Status
  <2> QED BY <2>1, AcceptedRowsAreSerialRows DEF AcceptedIsSerial
<1> QED BY <1>1, PTL
================================================================================
