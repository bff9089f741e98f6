---------------------------- MODULE HistoryStore ----------------------------
(***************************************************************************)
(* What the history promises: completed entries wait in the order in which *)
(* they were accepted; from the front of the queue they are stored, each   *)
(* once, or lost; the store keeps the newest MaxHistory rows, and besides  *)
(* that only a deletion takes a row away.  An id is never given twice, so  *)
(* a list shown earlier still names the rows it showed.                    *)
(*                                                                         *)
(* HistoryWriter.tla implements this with history_writer.rs, the SQLite    *)
(* store of crates/storage and the manager's history page.                 *)
(***************************************************************************)
EXTENDS Integers, Sequences, FiniteSets, SequencesExt

CONSTANTS MaxHistory,   \* MAX_HISTORY_ENTRIES
          MaxEntries,   \* bound of the number of completed entries
          Times,        \* readings of the system clock, which may step back
          Kinds         \* what the manager's filters tell apart

\* Assumed by HistoryWriter, which gives the constants their values.
HistoryAssumption ==
    /\ MaxHistory \in Nat \ {0} /\ MaxEntries \in Nat
    /\ Times \subseteq Nat

VARIABLES
    waiting,    \* accepted entries that were neither stored nor lost
    rows,       \* the stored rows
    nextId      \* the AUTOINCREMENT sequence

storeVars == <<waiting, rows, nextId>>

(* CompletedEntry, numbered in the order of completion. *)
Entry == [number : 1..MaxEntries, at : Times, kind : Kinds, output : {"Text"}]

(* HistoryEntry *)
Row == [id : Nat \ {0}, entry : Entry]

(* The order of the manager's list and of pruning: created_at_utc, id. *)
Newer(row, other) ==
    \/ row.entry.at > other.entry.at
    \/ row.entry.at = other.entry.at /\ row.id > other.id

(* Rows for a batch inserted in order, the first with this id. *)
NewRows(batch, first) == {[id |-> first + i - 1, entry |-> batch[i]] : i \in DOMAIN batch}

(* kept is what the limit leaves of all: nothing is dropped before the     *)
(* limit is reached, and nothing newer than what stays.                    *)
AreNewest(kept, all) ==
    /\ kept \subseteq all
    /\ Cardinality(kept) <= MaxHistory
    /\ \A row \in all \ kept :
          /\ Cardinality(kept) = MaxHistory
          /\ \A other \in kept : Newer(other, row)

StoreInit == waiting = <<>> /\ rows = {} /\ nextId = 1

Accept(entry) == waiting' = Append(waiting, entry) /\ UNCHANGED <<rows, nextId>>

(* Several entries from the front of the queue become rows in one          *)
(* transaction ...                                                         *)
Store(count) ==
    LET all == rows \cup NewRows(SubSeq(waiting, 1, count), nextId)
    IN  /\ waiting' = SubSeq(waiting, count + 1, Len(waiting))
        /\ \E kept \in SUBSET all : AreNewest(kept, all) /\ rows' = kept
        /\ nextId' = nextId + count

(* ... or are lost.  Everything is, when the process ends. *)
Lose(count) ==
    /\ waiting' = SubSeq(waiting, count + 1, Len(waiting))
    /\ UNCHANGED <<rows, nextId>>

Delete(row) == rows' = rows \ {row} /\ UNCHANGED <<waiting, nextId>>

StoreNext ==
    \/ \E entry \in Entry : Accept(entry)
    \/ \E count \in 1..Len(waiting) : Store(count) \/ Lose(count)
    \/ \E row \in rows : Delete(row)

StoreSpec == StoreInit /\ [][StoreNext]_storeVars
=============================================================================
