----------------------------- MODULE AttemptJournal -----------------------------
(***************************************************************************)
(* The file around the attempt ledger (Journal and load of                 *)
(* src/data/prospective_attempt_ledger_v1.py).  An append computes the new *)
(* ledger on a copy, writes the row through a buffered stream, fsyncs,     *)
(* takes over size and identity of the file, checks them again, and only   *)
(* then publishes the copy.                                                *)
(*                                                                         *)
(* What the events say is the matter of AttemptLedger: here an event is a  *)
(* value, a ledger the sequence of its events, and the hash that chains a  *)
(* row to its predecessors is that sequence itself.  An append that fails  *)
(* with an Exception poisons the journal; a KeyboardInterrupt, which no    *)
(* handler of this code catches, leaves it as it stands.                   *)
(***************************************************************************)
EXTENDS Naturals, Sequences, SequencesExt

CONSTANTS
  Event,
  MaxRows     \* bounds the appends of a run

ASSUME JournalBound == MaxRows \in Nat

VARIABLES
  ledger,       \* _ledger: the published events
  poisoned,     \* _poisoned
  open,         \* the stream is not closed
  size,         \* _size, in rows; _identity is taken over with it
  pc, event,    \* progress of append(), and the event it appends
  buffer,       \* rows in the buffer of the stream
  disk, torn,   \* complete rows of the file; it ends in part of a row
  synced,       \* how many of them a completed fsync covers
  changed,      \* somebody else changed the file since size was taken over
  interrupted   \* history: an append was interrupted

ram == <<ledger, poisoned, open, size>>
store == <<buffer, disk, torn, synced>>
jvars == <<ram, pc, event, store, changed, interrupted>>

Row == [after : Seq(Event), event : Event]

JInit ==
  /\ ledger = <<>>
  /\ poisoned = FALSE
  /\ open = TRUE
  /\ size = 0
  /\ pc = "idle"
  /\ event \in Event
  /\ buffer = <<>>
  /\ disk = <<>>
  /\ torn = FALSE
  /\ synced = 0
  /\ changed = FALSE
  /\ interrupted = FALSE

\* _check_identity().
Own == open /\ ~changed /\ ~torn /\ Len(disk) = size

\* append(): the record is accepted by a copy of the ledger.
Begin(e) ==
  /\ pc = "idle"
  /\ open
  /\ ~poisoned
  /\ Len(disk) + Len(buffer) < MaxRows
  /\ pc' = "check"
  /\ event' = e
  /\ UNCHANGED <<ram, store, changed, interrupted>>

Check ==
  /\ pc = "check"
  /\ Own
  /\ pc' = "write"
  /\ UNCHANGED <<ram, event, store, changed, interrupted>>

\* The row goes to the buffer of the stream, behind what is still in it.
Write ==
  /\ pc = "write"
  /\ open
  /\ buffer' = Append(buffer, [after |-> ledger, event |-> event])
  /\ pc' = "flush"
  /\ UNCHANGED <<ram, event, disk, torn, synced, changed, interrupted>>

Flush ==
  /\ pc = "flush"
  /\ open
  /\ disk' = disk \o buffer
  /\ buffer' = <<>>
  /\ pc' = "fsync"
  /\ UNCHANGED <<ram, event, torn, synced, changed, interrupted>>

Fsync ==
  /\ pc = "fsync"
  /\ open
  /\ synced' = Len(disk)
  /\ pc' = "adopt"
  /\ UNCHANGED <<ram, event, buffer, disk, torn, changed, interrupted>>

\* The size must be the expected one; identities are taken over as they are.
Adopt ==
  /\ pc = "adopt"
  /\ open
  /\ ~torn
  /\ Len(disk) = size + 1
  /\ size' = size + 1
  /\ changed' = FALSE
  /\ pc' = "recheck"
  /\ UNCHANGED <<ledger, poisoned, open, event, store, interrupted>>

\* Mutant: the ledger is published once the row is flushed.
PublishUnsynced ==
  /\ pc \in {"fsync", "recheck"}
  /\ pc = "recheck" => Own
  /\ ledger' = Append(ledger, event)
  /\ size' = Len(disk)
  /\ pc' = "idle"
  /\ UNCHANGED <<poisoned, open, event, store, changed, interrupted>>

Publish ==
  /\ pc = "recheck"
  /\ Own
  /\ ledger' = Append(ledger, event)
  /\ pc' = "idle"
  /\ UNCHANGED <<poisoned, open, size, event, store, changed, interrupted>>

\* Mutant: a failure is raised, and the writer stays enabled.
FailsEnabled ==
  /\ pc # "idle"
  /\ pc' = "idle"
  /\ torn' \in IF pc = "flush" THEN {torn, TRUE} ELSE {torn}
  /\ UNCHANGED <<ram, event, buffer, disk, synced, changed, interrupted>>

\* Any step of an append may raise: the file is not the own one, the stream is
\* closed, or I/O fails, in a flush possibly after part of a row.
Fails ==
  /\ pc # "idle"
  /\ poisoned' = TRUE
  /\ pc' = "idle"
  /\ torn' \in IF pc = "flush" THEN {torn, TRUE} ELSE {torn}
  /\ UNCHANGED <<ledger, open, size, event, buffer, disk, synced, changed,
                 interrupted>>

\* KeyboardInterrupt between two steps of an append.
Interrupt ==
  /\ pc # "idle"
  /\ pc' = "idle"
  /\ interrupted' = TRUE
  /\ UNCHANGED <<ram, event, store, changed>>

\* aggregate() checks the file before it reports a cost.
Aggregate ==
  /\ pc = "idle"
  /\ open
  /\ ~poisoned
  /\ ~Own
  /\ poisoned' = TRUE
  /\ UNCHANGED <<ledger, open, size, pc, event, store, changed, interrupted>>

\* close() flushes what is left in the buffer, poisoned or not; it takes no
\* lock and may come from another thread.
Close ==
  /\ open
  /\ open' = FALSE
  /\ disk' = IF torn THEN disk ELSE disk \o buffer
  /\ buffer' = <<>>
  /\ UNCHANGED <<ledger, poisoned, size, pc, event, torn, synced, changed,
                 interrupted>>

\* Somebody else changes metadata of the file.
Interfere ==
  /\ ~changed
  /\ changed' = TRUE
  /\ UNCHANGED <<ram, pc, event, store, interrupted>>

\* The process dies and the machine loses power: what no fsync covers may go.
Stop ==
  /\ open' = FALSE
  /\ pc' = "idle"
  /\ buffer' = <<>>
  /\ \E n \in synced .. Len(disk) :
        /\ disk' = SubSeq(disk, 1, n)
        /\ torn' \in IF torn \/ n < Len(disk) THEN BOOLEAN ELSE {FALSE}
  /\ UNCHANGED <<ledger, poisoned, size, event, synced, changed, interrupted>>

JNext ==
  \/ \E e \in Event : Begin(e)
  \/ Check \/ Write \/ Flush \/ Fsync \/ Adopt \/ Publish
  \/ Fails \/ Interrupt
  \/ Aggregate \/ Close \/ Interfere \/ Stop

JSpec == JInit /\ [][JNext]_jvars

-----------------------------------------------------------------------------
Events(rows) == [i \in 1 .. Len(rows) |-> rows[i].event]

\* load() takes the file: every row follows the ones before it.
Loads ==
  /\ ~torn
  /\ \A i \in 1 .. Len(disk) :
        disk[i].after = Events(SubSeq(disk, 1, i - 1))

\* The type invariant; the journal never takes the file for longer than it is.
JTypeOK ==
  /\ ledger \in Seq(Event)
  /\ poisoned \in BOOLEAN
  /\ open \in BOOLEAN
  /\ size \in Nat
  /\ open => size <= Len(disk)
  /\ pc \in {"idle", "check", "write", "flush", "fsync", "adopt", "recheck"}
  /\ event \in Event
  /\ buffer \in Seq(Row)
  /\ disk \in Seq(Row)
  /\ torn \in BOOLEAN
  /\ synced \in 0 .. Len(disk)
  /\ changed \in BOOLEAN
  /\ interrupted \in BOOLEAN

\* Every published event has its row on stable storage, whatever was
\* interrupted, failed or lost: nobody acts on an event that can be forgotten.
PublishedOnStableStorage ==
  \A i \in 1 .. Len(ledger) :
     \E n \in 1 .. synced :
        disk[n] = [after |-> SubSeq(ledger, 1, i - 1), event |-> ledger[i]]

\* What load() reads from a file without a torn end continues what was
\* published, unless an append has been interrupted.
LoadContinuesLedger ==
  ~interrupted /\ ~torn => Loads /\ IsPrefix(ledger, Events(disk))

\* An uncertain write disables the writer, says E65: what an enabled writer
\* has published can be loaded from its file.
PublishedIsLoadable ==
  pc = "idle" /\ open /\ ~poisoned /\ ledger # <<>> =>
     Loads /\ IsPrefix(ledger, Events(disk))
=============================================================================
