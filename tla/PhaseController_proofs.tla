------------------------- MODULE PhaseController_proofs -------------------------
(***************************************************************************)
(* The invariant of PhaseController, and what follows from it for every    *)
(* number of roles, every window and every reserve.                        *)
(***************************************************************************)
EXTENDS PhaseController, TLAPS

\* The steps of run_role between the intent and the end of record.
Unsent == {"intent", "arm", "send"}
Answering == {"sending", "native", "record"}
Recording == {"stdout", "stderr", "transport", "judge", "validate", "receipt",
              "validation", "accept", "settle"}
Owning == Unsent \cup Answering \cup Recording

Accepted == {r \in Role : <<r, "accepted">> \in files}

\* Before its directory there is nothing.
Fresh ==
  ~phase => /\ ~alive /\ ~closed /\ ~terminal
            /\ files = {} /\ sent = <<>> /\ accepted = 0 /\ active = 0
            /\ validated = {}

\* A controller at work is not stopped, unless its adapter stopped it.
Standing ==
  /\ alive => phase /\ closed = terminal
  /\ pc # "idle" => alive
  /\ pc \notin {"idle"} \cup Answering => ~closed
  /\ pc \in Running => index < N

\* The role at work is the next one for both of its books.
InStep == pc \in Owning => active = accepted + 1 /\ index = accepted

\* What was sent and accepted, by the step at which the role at work is.
Counted ==
  /\ active = 0 \/ pc \in Unsent => Len(sent) = accepted
  /\ pc \in Answering \cup Recording => Len(sent) = accepted + 1
  /\ pc = "advance" => active = 0
  /\ active = 0 \/ pc \in Owning \ {"settle"} => Accepted = 1 .. accepted
  /\ pc = "settle" => Accepted = 1 .. accepted + 1
  /\ Accepted \in {1 .. accepted, 1 .. accepted + 1}

\* The files of the role at work, by the step that wrote them.
Written ==
  /\ pc \in Owning \ {"intent"} => <<active, "intent">> \in files
  /\ pc \in Recording \ {"stdout"} => <<active, "stdout">> \in files
  /\ pc \in Recording \ {"stdout", "stderr"} => <<active, "stderr">> \in files
  /\ pc \in Recording \ {"stdout", "stderr", "transport"} =>
        <<active, "transport">> \in files
  /\ pc \in {"accept", "settle"} => <<active, "validation">> \in files

\* The review, the answer and the validator of the role at work.
Judged ==
  /\ pc \in Running \ {"prepare", "advance"} => index + 1 \in reviewed
  /\ pc \in {"validate", "receipt", "validation", "accept", "settle"} =>
        result[active] = "good"
  /\ pc \in {"receipt", "validation", "accept", "settle"} => active \in validated

Whole(r) ==
  /\ r \in reviewed \cap validated
  /\ result[r] = "good"
  /\ \A f \in RawFile \cup {"intent", "validation"} : <<r, f>> \in files

AcceptedWhole == \A r \in Accepted : Whole(r)

IInv ==
  TypeOK /\ Fresh /\ Standing /\ InStep /\ Counted /\ Written /\ Judged
    /\ RawBeforeValidator /\ AcceptedWhole

\* The steps by what they do: look, save a file of the role, end something.
Looks ==
  MakeAdapter \/ BeginRole \/ Prepare \/ Arm \/ Record \/ Judge \/ Receipt
Saves ==
  SaveStart \/ SaveIntent \/ SaveNative \/ SaveRaw \/ SaveValidation
Ends ==
  CreateFails \/ IntentFails \/ Reenter \/ Fails \/ Interrupt \/ Crash

\* A step that looks moves on in the same phase of the role.
LEMMA LooksOnly ==
  ASSUME Looks
  PROVE  /\ UNCHANGED <<disk, mode, store, control, elapsed, history>>
         /\ alive
         /\ <<pc, pc'>> \in {<<"adapter", "idle">>, <<"idle", "prepare">>,
              <<"prepare", "reserve">>, <<"arm", "send">>, <<"record", "stdout">>,
              <<"judge", "validate">>, <<"receipt", "validation">>}
         /\ pc \in {"adapter", "prepare", "arm", "record", "judge", "receipt"} =>
              ~closed
         /\ pc = "idle" => ~terminal /\ index < N
         /\ pc = "prepare" => index + 1 \in reviewed
         /\ pc = "judge" => result[active] = "good"
BY DEF Looks, MakeAdapter, BeginRole, Prepare, Arm, Record, Judge, Receipt,
  Goto, Remaining

\* A step that saves adds a file to those of the role, the answer aside.
LEMMA SavesOnly ==
  ASSUME InStep, Saves
  PROVE  /\ UNCHANGED <<phase, mode, store, control, elapsed, sent, validated>>
         /\ alive
         /\ \/ result' = result
            \/ pc = "native" /\ \E answer \in {"good", "bad"} :
                 result' = [result EXCEPT ![active] = answer]
         /\ <<pc, pc'>> \in {<<"start", "adapter">>, <<"start", "idle">>,
              <<"intent", "arm">>, <<"native", "record">>,
              <<"stdout", "stderr">>, <<"stderr", "transport">>,
              <<"transport", "judge">>, <<"validation", "accept">>}
         /\ \E f \in FileName \ {"accepted"} :
              /\ files' = files \cup {<<IF pc = "start" THEN 0 ELSE active, f>>}
              /\ pc \in {"start", "intent", "native", "validation"} \cup RawFile =>
                   f = pc
<1>1. CASE SaveRaw
  <2>1. PICK f \in RawFile : SaveRaw!(f)
    BY <1>1 DEF SaveRaw
  <2>2. f \in {"stdout", "stderr", "transport"} /\ f \in FileName \ {"accepted"}
    BY DEF RawFile, FileName
  <2> QED
    BY <2>1, <2>2 DEF Goto, Save, AfterRaw, RawFile, history
<1>2. CASE SaveStart
  BY <1>2 DEF SaveStart, Goto, Save, FileName, history, RawFile
<1>3. CASE SaveIntent
  BY <1>3 DEF SaveIntent, Goto, Save, FileName, history, RawFile
<1>4. CASE SaveNative
  BY <1>4 DEF SaveNative, Goto, Save, FileName, RawFile, InStep, Owning, Answering
<1>5. CASE SaveValidation
  BY <1>5 DEF SaveValidation, Goto, Save, FileName, history, RawFile
<1> QED
  BY <1>1, <1>2, <1>3, <1>4, <1>5 DEF Saves

\* A step that ends something leaves the books alone, and nobody at work but
\* an adapter that called back.
LEMMA EndsOnly ==
  ASSUME TypeOK, Standing, Ends
  PROVE  /\ UNCHANGED <<phase, pinned, active, accepted, index, reviewed, elapsed,
                        history>>
         /\ alive
         /\ files' = files \/ files' = files \cup {<<0, "closed">>}
         /\ alive' \in BOOLEAN /\ closed' \in BOOLEAN /\ terminal' \in BOOLEAN
         /\ pc' = "idle" \/ (pc = "sending" /\ pc' = "sending" /\ alive')
         /\ alive' => closed' = terminal'
<1> USE DEF TypeOK, Standing, Close, disk, mode, store, control, history
<1>1. CASE CreateFails
  BY <1>1 DEF CreateFails
<1>2. CASE IntentFails
  BY <1>2 DEF IntentFails
<1>3. CASE Reenter
  BY <1>3 DEF Reenter
<1>4. CASE Fails
  BY <1>4 DEF Fails
<1>5. CASE Interrupt
  BY <1>5 DEF Interrupt
<1>6. CASE Crash
  BY <1>6 DEF Crash
<1> QED
  BY <1>1, <1>2, <1>3, <1>4, <1>5, <1>6 DEF Ends

\* The types, the names of files included, whichever step is taken.
LEMMA KeepsTypeOK == IInv /\ Next => TypeOK'
<1> SUFFICES ASSUME IInv, Next PROVE TypeOK'
  OBVIOUS
<1> USE PhaseAssumption DEF IInv, TypeOK, InStep, Standing, Role, Answer, RawFile,
  FileName, Constructing, Running, Owning, Unsent, Answering, Recording, disk,
  mode, store, control, history
<1>1. CASE Looks
  BY <1>1, LooksOnly
<1>2. CASE Saves
  <2>1. PICK f \in FileName :
           files' = files \cup {<<IF pc = "start" THEN 0 ELSE active, f>>}
    BY <1>2, SavesOnly
  <2>2. files' \subseteq (0 .. N) \X FileName
    <3>1. pc = "start" \/ pc \in Owning
      BY <1>2, SavesOnly
    <3>2. (IF pc = "start" THEN 0 ELSE active) \in 0 .. N
      BY <3>1
    <3> HIDE DEF FileName
    <3> QED
      BY <2>1, <3>2
  <2> QED
    BY <1>2, <2>2, SavesOnly
<1>3. CASE Ends
  <2>1. files' \subseteq (0 .. N) \X FileName
    BY <1>3, EndsOnly
  <2> QED
    BY <1>3, <2>1, EndsOnly
<1>4. CASE Create
  BY <1>4 DEF Create
<1>5. CASE InstallReview
  BY <1>5 DEF InstallReview, Remaining
<1>6. CASE ReserveRole
  BY <1>6 DEF ReserveRole, Goto, Save, Remaining
<1>7. CASE Send
  BY <1>7 DEF Send, Goto
<1>8. ASSUME NEW answer \in Answer, Return(answer) PROVE TypeOK'
  BY <1>8 DEF Return, Goto
<1>9. CASE Validate
  BY <1>9 DEF Validate, Goto, Save
<1>10. CASE SaveAccepted
  BY <1>10 DEF SaveAccepted, Goto, Save
<1>11. CASE Settle
  BY <1>11 DEF Settle, Goto
<1>12. CASE Advance
  <2>1. files' \subseteq (0 .. N) \X FileName
    BY <1>12 DEF Advance, Goto, Close
  <2>2. closed' \in BOOLEAN /\ terminal' \in BOOLEAN
    BY <1>12 DEF Advance, Goto, Close
  <2> QED
    BY <1>12, <2>1, <2>2 DEF Advance, Goto
<1>13. CASE Tick
  BY <1>13 DEF Tick
<1> QED
  BY <1>1, <1>2, <1>3, <1>4, <1>5, <1>6, <1>7, <1>8, <1>9, <1>10, <1>11, <1>12,
    <1>13 DEF Next, Looks, Saves, Ends

\* Without a directory there is nothing, and every step needs a controller or
\* makes the directory.
LEMMA KeepsFresh == IInv /\ Next => Fresh'
<1> SUFFICES ASSUME IInv, Next PROVE Fresh'
  OBVIOUS
<1> USE PhaseAssumption DEF IInv, TypeOK, Fresh, Standing, InStep, disk, mode,
  store, control, history
<1>1. CASE Looks
  BY <1>1, LooksOnly
<1>2. CASE Saves
  BY <1>2, SavesOnly
<1>3. CASE Ends
  BY <1>3, EndsOnly
<1>4. CASE Create
  BY <1>4 DEF Create
<1>5. CASE InstallReview
  BY <1>5 DEF InstallReview, Remaining
<1>6. CASE ReserveRole
  BY <1>6 DEF ReserveRole, Goto, Save, Remaining
<1>7. CASE Send
  BY <1>7 DEF Send, Goto
<1>8. ASSUME NEW answer \in Answer, Return(answer) PROVE Fresh'
  BY <1>8 DEF Return, Goto
<1>9. CASE Validate
  BY <1>9 DEF Validate, Goto, Save
<1>10. CASE SaveAccepted
  BY <1>10 DEF SaveAccepted, Goto, Save
<1>11. CASE Settle
  BY <1>11 DEF Settle, Goto
<1>12. CASE Advance
  BY <1>12 DEF Advance, Goto, Close
<1>13. CASE Tick
  BY <1>13 DEF Tick
<1> QED
  BY <1>1, <1>2, <1>3, <1>4, <1>5, <1>6, <1>7, <1>8, <1>9, <1>10, <1>11, <1>12,
    <1>13 DEF Next, Looks, Saves, Ends

\* The store and the controller stop together.
LEMMA KeepsStanding == IInv /\ Next => Standing'
<1> SUFFICES ASSUME IInv, Next PROVE Standing'
  OBVIOUS
<1> USE PhaseAssumption DEF IInv, TypeOK, Standing, Fresh, InStep, Answering,
  Constructing, Running, RawFile, disk, mode, store, control, history
<1>1. CASE Looks
  BY <1>1, LooksOnly
<1>2. CASE Saves
  BY <1>2, SavesOnly
<1>3. CASE Ends
  BY <1>3, EndsOnly
<1>4. CASE Create
  BY <1>4 DEF Create
<1>5. CASE InstallReview
  BY <1>5 DEF InstallReview, Remaining
<1>6. CASE ReserveRole
  BY <1>6 DEF ReserveRole, Goto, Save, Remaining
<1>7. CASE Send
  BY <1>7 DEF Send, Goto
<1>8. ASSUME NEW answer \in Answer, Return(answer) PROVE Standing'
  BY <1>8 DEF Return, Goto
<1>9. CASE Validate
  BY <1>9 DEF Validate, Goto, Save
<1>10. CASE SaveAccepted
  BY <1>10 DEF SaveAccepted, Goto, Save
<1>11. CASE Settle
  BY <1>11 DEF Settle, Goto
<1>12. CASE Advance
  BY <1>12 DEF Advance, Goto, Close
<1>13. CASE Tick
  BY <1>13 DEF Tick
<1> QED
  BY <1>1, <1>2, <1>3, <1>4, <1>5, <1>6, <1>7, <1>8, <1>9, <1>10, <1>11, <1>12,
    <1>13 DEF Next, Looks, Saves, Ends

\* The role at work is reserved when both books agree, and they stay so until
\* its acceptance is entered.
LEMMA KeepsInStep == IInv /\ Next => InStep'
<1> SUFFICES ASSUME IInv, Next PROVE InStep'
  OBVIOUS
<1> USE PhaseAssumption DEF IInv, TypeOK, InStep, Standing, Owning, Unsent,
  Answering, Recording, Running, Constructing, disk, mode, store, control, history
<1>1. CASE Looks
  BY <1>1, LooksOnly
<1>2. CASE Saves
  BY <1>2, SavesOnly
<1>3. CASE Ends
  BY <1>3, EndsOnly
<1>4. CASE Create
  BY <1>4 DEF Create
<1>5. CASE InstallReview
  BY <1>5 DEF InstallReview, Remaining
<1>6. CASE ReserveRole
  BY <1>6 DEF ReserveRole, Goto, Save, Remaining
<1>7. CASE Send
  BY <1>7 DEF Send, Goto
<1>8. ASSUME NEW answer \in Answer, Return(answer) PROVE InStep'
  BY <1>8 DEF Return, Goto
<1>9. CASE Validate
  BY <1>9 DEF Validate, Goto, Save
<1>10. CASE SaveAccepted
  BY <1>10 DEF SaveAccepted, Goto, Save
<1>11. CASE Settle
  BY <1>11 DEF Settle, Goto
<1>12. CASE Advance
  BY <1>12 DEF Advance, Goto, Close
<1>13. CASE Tick
  BY <1>13 DEF Tick
<1> QED
  BY <1>1, <1>2, <1>3, <1>4, <1>5, <1>6, <1>7, <1>8, <1>9, <1>10, <1>11, <1>12,
    <1>13 DEF Next, Looks, Saves, Ends

\* Sending, saving the acceptance and entering it are the steps that count.
LEMMA KeepsCounted == IInv /\ Next => Counted'
<1> SUFFICES ASSUME IInv, Next PROVE Counted'
  OBVIOUS
<1> USE PhaseAssumption DEF IInv, TypeOK, Counted, InStep, Standing, Owning,
  Unsent, Answering, Recording, Accepted, Role, Running, Constructing, Fresh,
  RawFile, FileName, disk, mode, store, control, history
<1>1. CASE Looks
  BY <1>1, LooksOnly
<1>2. CASE Saves
  BY <1>2, SavesOnly
<1>3. CASE Ends
  BY <1>3, EndsOnly
<1>4. CASE Create
  BY <1>4 DEF Create
<1>5. CASE InstallReview
  BY <1>5 DEF InstallReview, Remaining
<1>6. CASE ReserveRole
  BY <1>6 DEF ReserveRole, Goto, Save, Remaining
<1>7. CASE Send
  BY <1>7 DEF Send, Goto
<1>8. ASSUME NEW answer \in Answer, Return(answer) PROVE Counted'
  BY <1>8 DEF Return, Goto
<1>9. CASE Validate
  BY <1>9 DEF Validate, Goto, Save
<1>10. CASE SaveAccepted
  BY <1>10 DEF SaveAccepted, Goto, Save
<1>11. CASE Settle
  BY <1>11 DEF Settle, Goto
<1>12. CASE Advance
  BY <1>12 DEF Advance, Goto, Close
<1>13. CASE Tick
  BY <1>13 DEF Tick
<1> QED
  BY <1>1, <1>2, <1>3, <1>4, <1>5, <1>6, <1>7, <1>8, <1>9, <1>10, <1>11, <1>12,
    <1>13 DEF Next, Looks, Saves, Ends

\* Files are only ever added: what a step saved is there for the next ones.
LEMMA KeepsWritten == IInv /\ Next => Written'
<1> SUFFICES ASSUME IInv, Next PROVE Written'
  OBVIOUS
<1> USE PhaseAssumption DEF IInv, TypeOK, Written, InStep, Owning, Unsent,
  Answering, Recording, RawFile, FileName, disk, mode, store, control, history
<1>1. CASE Looks
  BY <1>1, LooksOnly
<1>2. CASE Saves
  BY <1>2, SavesOnly
<1>3. CASE Ends
  BY <1>3, EndsOnly
<1>4. CASE Create
  BY <1>4 DEF Create
<1>5. CASE InstallReview
  BY <1>5 DEF InstallReview, Remaining
<1>6. CASE ReserveRole
  BY <1>6 DEF ReserveRole, Goto, Save, Remaining
<1>7. CASE Send
  BY <1>7 DEF Send, Goto
<1>8. ASSUME NEW answer \in Answer, Return(answer) PROVE Written'
  BY <1>8 DEF Return, Goto
<1>9. CASE Validate
  BY <1>9 DEF Validate, Goto, Save
<1>10. CASE SaveAccepted
  BY <1>10 DEF SaveAccepted, Goto, Save
<1>11. CASE Settle
  BY <1>11 DEF Settle, Goto
<1>12. CASE Advance
  BY <1>12 DEF Advance, Goto, Close
<1>13. CASE Tick
  BY <1>13 DEF Tick
<1> QED
  BY <1>1, <1>2, <1>3, <1>4, <1>5, <1>6, <1>7, <1>8, <1>9, <1>10, <1>11, <1>12,
    <1>13 DEF Next, Looks, Saves, Ends

\* Reviews stay, and the answer to a role does not change once judged.
LEMMA KeepsJudged == IInv /\ Next => Judged'
<1> SUFFICES ASSUME IInv, Next PROVE Judged'
  OBVIOUS
<1> USE PhaseAssumption DEF IInv, TypeOK, Judged, InStep, Owning, Unsent,
  Answering, Recording, Running, Constructing, Standing, Role, disk, mode, store,
  control, history
<1>1. CASE Looks
  BY <1>1, LooksOnly
<1>2. CASE Saves
  BY <1>2, SavesOnly
<1>3. CASE Ends
  BY <1>3, EndsOnly
<1>4. CASE Create
  BY <1>4 DEF Create
<1>5. CASE InstallReview
  BY <1>5 DEF InstallReview, Remaining
<1>6. CASE ReserveRole
  BY <1>6 DEF ReserveRole, Goto, Save, Remaining
<1>7. CASE Send
  BY <1>7 DEF Send, Goto
<1>8. ASSUME NEW answer \in Answer, Return(answer) PROVE Judged'
  BY <1>8 DEF Return, Goto
<1>9. CASE Validate
  BY <1>9 DEF Validate, Goto, Save
<1>10. CASE SaveAccepted
  BY <1>10 DEF SaveAccepted, Goto, Save
<1>11. CASE Settle
  BY <1>11 DEF Settle, Goto
<1>12. CASE Advance
  BY <1>12 DEF Advance, Goto, Close
<1>13. CASE Tick
  BY <1>13 DEF Tick
<1> QED
  BY <1>1, <1>2, <1>3, <1>4, <1>5, <1>6, <1>7, <1>8, <1>9, <1>10, <1>11, <1>12,
    <1>13 DEF Next, Looks, Saves, Ends

\* By Written, the evidence of the role is there when its validator is run.
LEMMA KeepsRawBeforeValidator == IInv /\ Next => RawBeforeValidator'
<1> SUFFICES ASSUME IInv, Next PROVE RawBeforeValidator'
  OBVIOUS
<1> USE PhaseAssumption DEF IInv, TypeOK, RawBeforeValidator, Written, Fresh,
  RawFile, Owning, Recording, Unsent, Answering, disk, mode, store, control,
  history
<1>1. CASE Looks
  BY <1>1, LooksOnly
<1>2. CASE Saves
  BY <1>2, SavesOnly
<1>3. CASE Ends
  BY <1>3, EndsOnly
<1>4. CASE Create
  BY <1>4 DEF Create
<1>5. CASE InstallReview
  BY <1>5 DEF InstallReview, Remaining
<1>6. CASE ReserveRole
  BY <1>6 DEF ReserveRole, Goto, Save, Remaining
<1>7. CASE Send
  BY <1>7 DEF Send, Goto
<1>8. ASSUME NEW answer \in Answer, Return(answer) PROVE RawBeforeValidator'
  BY <1>8 DEF Return, Goto
<1>9. CASE Validate
  <2>1. files \subseteq files' /\ validated' = validated \cup {active}
    BY <1>9 DEF Validate, Goto, Save
  <2>2. \A f \in RawFile \cup {"intent"} : <<active, f>> \in files
    BY <1>9 DEF Validate, Goto
  <2> QED
    BY <2>1, <2>2
<1>10. CASE SaveAccepted
  BY <1>10 DEF SaveAccepted, Goto, Save
<1>11. CASE Settle
  BY <1>11 DEF Settle, Goto
<1>12. CASE Advance
  BY <1>12 DEF Advance, Goto, Close
<1>13. CASE Tick
  BY <1>13 DEF Tick
<1> QED
  BY <1>1, <1>2, <1>3, <1>4, <1>5, <1>6, <1>7, <1>8, <1>9, <1>10, <1>11, <1>12,
    <1>13 DEF Next, Looks, Saves, Ends

\* The role at work is not accepted before its acceptance is saved.
LEMMA AcceptedBefore ==
  ASSUME TypeOK, InStep, Counted, pc \in Owning \ {"settle"}
  PROVE  active = accepted + 1 /\ active = index + 1 /\ active \notin Accepted
<1>1. active = accepted + 1 /\ index = accepted /\ accepted \in Nat
  BY PhaseAssumption DEF InStep, TypeOK
<1>2. Accepted = 1 .. accepted
  BY DEF Counted
<1>3. active \notin 1 .. accepted
  BY <1>1
<1> QED
  BY <1>1, <1>2, <1>3

\* By Written and Judged, a role is whole when it is accepted, and stays so.
LEMMA KeepsAcceptedWhole == IInv /\ Next => AcceptedWhole'
<1> SUFFICES ASSUME IInv, Next PROVE AcceptedWhole'
  OBVIOUS
<1> USE PhaseAssumption DEF IInv, TypeOK, AcceptedWhole, Whole, Accepted, Counted,
  Written, Judged, InStep, RawFile, Role, Recording, Owning, Unsent, Answering,
  Fresh, FileName, Answer, disk, mode, store, control, history
<1>1. CASE Looks
  BY <1>1, LooksOnly
<1>2. CASE Saves
  <2>1. files \subseteq files' /\ Accepted' = Accepted
    BY <1>2, SavesOnly
  <2>2. ASSUME NEW r \in Accepted PROVE result'[r] = result[r]
    <3>1. pc = "native" => r # active
      BY AcceptedBefore
    <3> QED
      BY <1>2, <3>1, SavesOnly
  <2> QED
    BY <1>2, <2>1, <2>2, SavesOnly
<1>3. CASE Ends
  BY <1>3, EndsOnly
<1>4. CASE Create
  BY <1>4 DEF Create
<1>5. CASE InstallReview
  BY <1>5 DEF InstallReview, Remaining
<1>6. CASE ReserveRole
  BY <1>6 DEF ReserveRole, Goto, Save, Remaining
<1>7. CASE Send
  BY <1>7 DEF Send, Goto
<1>8. ASSUME NEW answer \in Answer, Return(answer) PROVE AcceptedWhole'
  <2>1. index + 1 \notin Accepted
    BY <1>8, AcceptedBefore DEF Return, Goto
  <2>2. UNCHANGED <<files, reviewed, validated>>
    BY <1>8 DEF Return, Goto
  <2>3. \A r \in Accepted : result'[r] = result[r]
    BY <1>8, <2>1 DEF Return, Goto
  <2> QED
    BY <2>2, <2>3
<1>9. CASE Validate
  BY <1>9 DEF Validate, Goto, Save
<1>10. CASE SaveAccepted
  <2>1. /\ UNCHANGED <<reviewed, validated, result>>
        /\ files' = files \cup {<<active, "accepted">>}
    BY <1>10 DEF SaveAccepted, Goto, Save
  <2>2. active \in reviewed \cap validated
    <3>1. pc = "accept" /\ active = index + 1
      BY <1>10, AcceptedBefore DEF SaveAccepted, Goto
    <3>2. index + 1 \in reviewed /\ active \in validated
      BY <3>1 DEF Running
    <3> QED
      BY <3>1, <3>2
  <2>3. result[active] = "good"
    BY <1>10 DEF SaveAccepted, Goto
  <2>4. \A f \in RawFile \cup {"intent", "validation"} : <<active, f>> \in files
    BY <1>10 DEF SaveAccepted, Goto
  <2> QED
    BY <2>1, <2>2, <2>3, <2>4
<1>11. CASE Settle
  BY <1>11 DEF Settle, Goto
<1>12. CASE Advance
  BY <1>12 DEF Advance, Goto, Close
<1>13. CASE Tick
  BY <1>13 DEF Tick
<1> QED
  BY <1>1, <1>2, <1>3, <1>4, <1>5, <1>6, <1>7, <1>8, <1>9, <1>10, <1>11, <1>12,
    <1>13 DEF Next, Looks, Saves, Ends

\* The invariant holds in the beginning, and after every step.
LEMMA InitInv == Init => IInv
<1> SUFFICES ASSUME Init PROVE IInv
  OBVIOUS
<1> USE PhaseAssumption DEF Init
<1>1. TypeOK
  <2>1. sent \in Seq(Role) /\ result \in [Role -> Answer \cup {"none"}]
    OBVIOUS
  <2>2. 0 \in 0 .. N /\ 0 \in 0 .. Window
    OBVIOUS
  <2> QED
    BY <2>1, <2>2 DEF TypeOK
<1>2. Fresh /\ Standing /\ InStep
  BY DEF Fresh, Standing, InStep, Owning, Unsent, Answering, Recording, Running
<1>3. Accepted = {} /\ 1 .. 0 = {}
  BY DEF Accepted
<1>4. Counted
  BY <1>3 DEF Counted, Owning, Unsent, Answering, Recording
<1>5. Written /\ Judged
  BY DEF Written, Judged, Owning, Unsent, Answering, Recording, Running
<1>6. RawBeforeValidator /\ AcceptedWhole
  BY <1>3 DEF RawBeforeValidator, AcceptedWhole
<1> QED
  BY <1>1, <1>2, <1>4, <1>5, <1>6 DEF IInv

LEMMA StepInv == IInv /\ [Next]_vars => IInv'
<1> SUFFICES ASSUME IInv, [Next]_vars PROVE IInv'
  OBVIOUS
<1>1. CASE Next
  BY <1>1, KeepsTypeOK, KeepsFresh, KeepsStanding, KeepsInStep, KeepsCounted,
     KeepsWritten, KeepsJudged, KeepsRawBeforeValidator, KeepsAcceptedWhole
  DEF IInv
<1>2. CASE UNCHANGED vars
  BY <1>2 DEF IInv, TypeOK, Fresh, Standing, InStep, Counted, Written, Judged,
     RawBeforeValidator, AcceptedWhole, Accepted, Whole, vars, disk, mode, store,
     control, history
<1> QED
  BY <1>1, <1>2

\* The invariant of the controller, of which the theorems below are the parts
\* that matter.
THEOREM ControllerInvariant == Spec => []IInv
BY InitInv, StepInv, PTL DEF Spec

\* For any number of roles, window and reserve, the state of controller, store
\* and directory keeps its types, and the active role is the one after those
\* accepted.
THEOREM ControllerTyped == Spec => []TypeOK
BY ControllerInvariant, PTL DEF IInv

\* record() runs a validator on nothing that is not saved.
THEOREM RawSavedFirst == Spec => []RawBeforeValidator
BY ControllerInvariant, PTL DEF IInv

\* What is accepted is a prefix of the roles, and each of them is whole.
LEMMA InvAcceptedIsWhole == IInv => AcceptedIsWhole
<1> SUFFICES ASSUME IInv, NEW r \in Role, <<r, "accepted">> \in files,
                    NEW q \in 1 .. r
             PROVE  /\ q \in reviewed \cap validated
                    /\ result[q] = "good"
                    /\ \A f \in RawFile \cup {"intent", "validation", "accepted"} :
                          <<q, f>> \in files
  BY DEF AcceptedIsWhole
<1>1. r \in Accepted
  BY DEF Accepted
<1>2. Accepted = 1 .. accepted \/ Accepted = 1 .. accepted + 1
  BY DEF IInv, Counted
<1>3. q \in Accepted
  BY <1>1, <1>2, PhaseAssumption DEF IInv, TypeOK, Role
<1>4. Whole(q)
  BY <1>3 DEF IInv, AcceptedWhole
<1>5. <<q, "accepted">> \in files
  BY <1>3 DEF Accepted
<1> QED
  BY <1>4, <1>5 DEF Whole

\* Whatever was accepted is documented whole, back to the first role.
THEOREM AcceptedDocumented == Spec => []AcceptedIsWhole
BY ControllerInvariant, InvAcceptedIsWhole, PTL

-----------------------------------------------------------------------------
\* The phase begins as the abstract one.
LEMMA InitOneShot == Init => OneShot!PhaseInit
BY DEF Init, OneShot!PhaseInit, Over

\* Sending is a step of the phase: the role follows those accepted.
LEMMA SendIsSend == IInv /\ Send => OneShot!SendRole
<1> SUFFICES ASSUME IInv, Send PROVE OneShot!SendRole
  OBVIOUS
<1>1. pc = "send" /\ alive /\ index < N /\ ~closed /\ ~terminal /\ phase
  BY DEF Send, Goto, IInv, Standing, Running, Answering
<1>2. index = accepted /\ Len(sent) = index /\ Accepted = 1 .. index
  BY <1>1 DEF IInv, InStep, Counted, Owning, Unsent
<1>3. /\ sent' = Append(sent, Len(sent) + 1)
      /\ UNCHANGED <<files, phase, alive, closed, terminal>>
  BY <1>2 DEF Send, disk, mode, store, control
<1> QED
  BY <1>1, <1>2, <1>3 DEF OneShot!SendRole, Over, Accepted

\* Saving the acceptance is a step of the phase.
LEMMA SaveAcceptedIsAccept == IInv /\ SaveAccepted => OneShot!AcceptRole
<1> SUFFICES ASSUME IInv, SaveAccepted PROVE OneShot!AcceptRole
  OBVIOUS
<1>1. pc = "accept" /\ alive /\ index < N /\ ~closed /\ ~terminal /\ phase
  BY DEF SaveAccepted, Goto, IInv, Standing, Running, Answering
<1>2. /\ active = index + 1 /\ accepted = index /\ Len(sent) = index + 1
      /\ Accepted = 1 .. index
  BY <1>1 DEF IInv, InStep, Counted, Owning, Recording
<1>3. /\ files' = files \cup {<<active, "accepted">>}
      /\ UNCHANGED <<sent, phase, alive, closed, terminal>>
  BY DEF SaveAccepted, Save, disk, mode, store, control, history
<1>4. index \in Nat /\ N \in Nat
  BY PhaseAssumption DEF IInv, TypeOK
<1>5. Accepted' = 1 .. index + 1
  BY <1>1, <1>2, <1>3, <1>4 DEF Accepted, Role
<1>6. sent # <<>> /\ Len(sent) - 1 = index
  BY <1>2, <1>4
<1> QED
  BY <1>1, <1>2, <1>3, <1>5, <1>6 DEF OneShot!AcceptRole, Over, Accepted

\* Every other step leaves what was sent and accepted, and at most ends the
\* phase.
LEMMA OthersEnd ==
  ASSUME IInv, Next, ~Send, ~SaveAccepted
  PROVE  /\ sent' = sent /\ Accepted' = Accepted
         /\ Over => Over'
<1> USE DEF Accepted, Over, disk, mode, store, control, history
<1>1. CASE Looks
  BY <1>1, LooksOnly
<1>2. CASE Saves
  BY <1>2, SavesOnly DEF IInv
<1>3. CASE Ends
  BY <1>3, EndsOnly DEF IInv, Standing, Ends, CreateFails, IntentFails, Reenter,
     Fails, Interrupt, Crash, Close
<1>4. CASE Create
  BY <1>4 DEF Create, IInv, Fresh
<1>5. CASE InstallReview \/ ReserveRole \/ Settle \/ Tick
  BY <1>5 DEF InstallReview, ReserveRole, Settle, Tick, Goto, Save
<1>6. ASSUME NEW answer \in Answer, Return(answer)
      PROVE  sent' = sent /\ Accepted' = Accepted /\ (Over => Over')
  BY <1>6 DEF Return, Goto
<1>7. CASE Validate
  BY <1>7 DEF Validate, Goto, Save
<1>8. CASE Advance
  BY <1>8 DEF Advance, Goto, Close
<1> QED
  BY <1>1, <1>2, <1>3, <1>4, <1>5, <1>6, <1>7, <1>8 DEF Next, Looks, Saves, Ends

\* So every step is one of the abstract phase, or a stutter.
LEMMA StepOneShot == IInv /\ [Next]_vars => [OneShot!PhaseNext]_(OneShot!phaseVars)
<1> SUFFICES ASSUME IInv, [Next]_vars
             PROVE  [OneShot!PhaseNext]_(OneShot!phaseVars)
  OBVIOUS
<1>1. CASE Send
  BY <1>1, SendIsSend DEF OneShot!PhaseNext
<1>2. CASE SaveAccepted
  BY <1>2, SaveAcceptedIsAccept DEF OneShot!PhaseNext
<1>3. CASE Next /\ ~Send /\ ~SaveAccepted
  <2>1. sent' = sent /\ Accepted' = Accepted /\ (Over => Over')
    BY <1>3, OthersEnd
  <2>2. Over \in BOOLEAN /\ Over' \in BOOLEAN
    BY DEF Over
  <2> QED
    BY <2>1, <2>2 DEF OneShot!PhaseNext, OneShot!EndPhase, OneShot!phaseVars,
      Accepted
<1>4. CASE UNCHANGED vars
  BY <1>4 DEF OneShot!phaseVars, Over, vars, disk, mode, store, control, history
<1> QED
  BY <1>1, <1>2, <1>3, <1>4

\* Controller, store and directory together are a phase that sends each role
\* once at most, in order, and is over for good once it is over.
THEOREM ControllerIsOneShot == Spec => ImplementsOneShot
BY ControllerInvariant, InitOneShot, StepOneShot, PTL
  DEF Spec, ImplementsOneShot, OneShot!PhaseSpec
=============================================================================
