--------------------------- MODULE HistoryWriter ---------------------------
(***************************************************************************)
(* History from a completed answer to the manager's list: the resident's   *)
(* enqueue_history and its HistoryWriter (a channel, a thread that writes  *)
(* batches, a bounded shutdown), the database file of crates/storage that  *)
(* every process opens for itself, and the history page of any number of   *)
(* managers.                                                               *)
(*                                                                         *)
(* A SQLite transaction is one step.  It may fail for reasons outside this *)
(* program or because another process held the file longer than the busy   *)
(* timeout of one second; both are the same choice here.                   *)
(***************************************************************************)
EXTENDS Integers, Sequences, FiniteSets, SequencesExt

CONSTANTS MaxHistory,       \* MAX_HISTORY_ENTRIES
          BatchCapacity,    \* WRITE_BATCH_CAPACITY
          Managers,         \* manager processes
          Times, Kinds,     \* as in HistoryStore
          MaxEntries,       \* bounds: accepted entries,
          MaxStarts         \*   starts of the resident

VARIABLES
    file,       \* the database file: no schema yet, ours, or not ours
    rows,       \* table history
    nextId,     \* its AUTOINCREMENT sequence
    access,     \* how far each process got with opening the file
    resident,   \* where the resident is
    channel,    \* Message::Entry queue, oldest first
    flush,      \* Message::Flush of Drop; the last message sent, hence kept apart
    worker,     \* the writer thread and its batch
    accepted,   \* number of entries accepted so far
    starts,     \* number of times the resident started
    page        \* history page of each manager

residentVars == <<resident, channel, flush, worker, accepted, starts>>
fileVars == <<file, rows, nextId>>
vars == <<fileVars, access, residentVars, page>>

Resident == "resident"
Processes == {Resident} \cup Managers

(* Entries that no transaction has seen. *)
Waiting == worker.batch \o channel

Promise == INSTANCE HistoryStore WITH waiting <- Waiting

ASSUME WriterAssumption ==
    /\ Promise!HistoryAssumption
    /\ BatchCapacity \in Nat \ {0} /\ MaxStarts \in Nat \ {0}
    /\ Resident \notin Managers

NoRow == [id |-> 0]
IdleWorker == [at |-> "Idle", batch |-> <<>>]
NoWorker == [at |-> "Missing", batch |-> <<>>]

(* goal: what the page does with the file once it is open; row: the row    *)
(* its confirmation box asks about.                                        *)
EmptyPage == [goal |-> "None", row |-> NoRow, list |-> {}]

TypeOK ==
    /\ file \in {"Bare", "Ready", "Foreign"}
    /\ rows \subseteq Promise!Row /\ nextId \in Nat \ {0}
    /\ access \in [Processes -> {"None", "Asked", "Unversioned", "Bare", "Usable", "Refused"}]
    /\ resident \in {"Opening", "NoHistory", "Running", "Flushing", "Joining", "Exited"}
    /\ channel \in Seq(Promise!Entry)
    /\ flush \in {"None", "Sent", "Taken", "Persisted", "Lost"}
    /\ worker \in [at : {"Missing", "Idle", "Collecting", "Writing", "Ended"},
                   batch : Seq(Promise!Entry)]
    /\ accepted \in 0..MaxEntries /\ starts \in 0..MaxStarts
    /\ page \in [Managers -> [goal : {"None", "Confirm", "Refresh"},
                              row : Promise!Row \cup {NoRow}, list : SUBSET Promise!Row]]

(* Another program's file is as possible as none at all. *)
Init ==
    /\ file \in {"Bare", "Foreign"}
    /\ rows = {} /\ nextId = 1
    /\ access = [p \in Processes |-> IF p = Resident THEN "Asked" ELSE "None"]
    /\ resident = "Opening" /\ channel = <<>> /\ flush = "None" /\ worker = NoWorker
    /\ accepted = 0 /\ starts = 1
    /\ page = [m \in Managers |-> EmptyPage]

-----------------------------------------------------------------------------
(* Opening the file: with_connection and ensure_schema.  The version, the  *)
(* tables and the creation are three statements, and other processes run   *)
(* between them.                                                           *)

ReadVersion(p) ==
    /\ access[p] = "Asked" /\ file # "Ready"
    /\ access' = [access EXCEPT ![p] = IF file = "Bare" THEN "Unversioned" ELSE "Refused"]
    /\ UNCHANGED <<fileVars, residentVars, page>>

ReadTables(p) ==
    /\ access[p] = "Unversioned"
    /\ access' = [access EXCEPT ![p] = IF file = "Bare" THEN "Bare" ELSE "Refused"]
    /\ UNCHANGED <<fileVars, residentVars, page>>

(* CREATE TABLE fails when another process created it meanwhile. *)
CreateTables(p) ==
    /\ access[p] = "Bare"
    /\ IF file = "Bare"
       THEN file' = "Ready" /\ access' = [access EXCEPT ![p] = "Usable"]
       ELSE UNCHANGED file /\ access' = [access EXCEPT ![p] = "Refused"]
    /\ UNCHANGED <<rows, nextId, residentVars, page>>

OpenFails(p) ==
    /\ access[p] \in {"Asked", "Unversioned", "Bare"}
    /\ access' = [access EXCEPT ![p] = "Refused"]
    /\ UNCHANGED <<fileVars, residentVars, page>>

(* With the schema in place the checks write nothing, so they belong to    *)
(* the step of the operation they precede.                                 *)
Opened(p) == access[p] = "Usable" \/ (access[p] = "Asked" /\ file = "Ready")

-----------------------------------------------------------------------------
(* The resident *)

(* build_history_store: a file that cannot be opened means no history for  *)
(* the whole session; a thread that cannot be started leaves a writer      *)
(* whose channel is closed.                                                *)
StartHistory ==
    /\ resident = "Opening"
    /\ access' = [access EXCEPT ![Resident] = "None"]
    /\ \/ /\ Opened(Resident)
          /\ resident' = "Running" /\ worker' \in {IdleWorker, NoWorker}
       \/ /\ access[Resident] = "Refused"
          /\ resident' = "NoHistory" /\ UNCHANGED worker
    /\ UNCHANGED <<fileVars, channel, flush, accepted, starts, page>>

Worthwhile(output) == output # "Blank"

(* enqueue_history and HistoryWriter::enqueue, for a completed answer or a *)
(* cache hit: a blank output, a resident without history and a writer      *)
(* without a thread record nothing.                                        *)
EnqueueHistory(at, kind, output) ==
    /\ resident = "Running" /\ worker.at # "Missing" /\ accepted < MaxEntries
    /\ Worthwhile(output)
    /\ accepted' = accepted + 1
    /\ channel' = Append(channel, [number |-> accepted + 1, at |-> at, kind |-> kind,
                                   output |-> output])
    /\ UNCHANGED <<fileVars, access, resident, flush, worker, starts, page>>

(* Drop: flush, close the channel, wait for the thread, each for a bounded *)
(* time; the process ends with whatever is left.                           *)
BeginDrop ==
    /\ resident \in {"Running", "NoHistory"}
    /\ IF resident = "Running" /\ worker.at # "Missing"
       THEN resident' = "Flushing" /\ flush' = "Sent"
       ELSE resident' = "Joining" /\ UNCHANGED flush
    /\ UNCHANGED <<fileVars, access, channel, worker, accepted, starts, page>>

(* An answer, or 500 ms without one; the sender is dropped. *)
FlushReturns ==
    /\ resident = "Flushing"
    /\ resident' = "Joining"
    /\ UNCHANGED <<fileVars, access, channel, flush, worker, accepted, starts, page>>

EndProcess ==
    /\ resident' = "Exited"
    /\ channel' = <<>> /\ flush' = "None" /\ worker' = NoWorker
    /\ access' = [access EXCEPT ![Resident] = "None"]
    /\ UNCHANGED <<fileVars, accepted, starts, page>>

JoinReturns == resident = "Joining" /\ EndProcess

Crash == resident \notin {"Joining", "Exited"} /\ EndProcess

Restart ==
    /\ resident = "Exited" /\ starts < MaxStarts
    /\ resident' = "Opening" /\ starts' = starts + 1
    /\ access' = [access EXCEPT ![Resident] = "Asked"]
    /\ UNCHANGED <<fileVars, channel, flush, worker, accepted, page>>

-----------------------------------------------------------------------------
(* The writer thread *)

(* recv takes a first message, try_recv more while the batch has room. *)
HasRoom == worker.at = "Idle" \/ (worker.at = "Collecting" /\ Len(worker.batch) < BatchCapacity)

ReceiveEntry ==
    /\ HasRoom /\ channel # <<>>
    /\ worker' = [at |-> "Collecting", batch |-> Append(worker.batch, Head(channel))]
    /\ channel' = Tail(channel)
    /\ UNCHANGED <<fileVars, access, resident, flush, accepted, starts, page>>

(* Mutant of ReceiveFlush: it overtakes the entries. *)
ReceiveFlushFirst ==
    /\ HasRoom /\ flush = "Sent"
    /\ worker' = [worker EXCEPT !.at = "Collecting"]
    /\ flush' = "Taken"
    /\ UNCHANGED <<fileVars, access, resident, channel, accepted, starts, page>>

(* The flush comes after the entries and takes no room. *)
ReceiveFlush ==
    /\ HasRoom /\ flush = "Sent" /\ channel = <<>>
    /\ worker' = [worker EXCEPT !.at = "Collecting"]
    /\ flush' = "Taken"
    /\ UNCHANGED <<fileVars, access, resident, channel, accepted, starts, page>>

(* The batch is full or try_recv found nothing. *)
StopReceiving ==
    /\ worker.at = "Collecting"
    /\ ~HasRoom \/ (channel = <<>> /\ flush # "Sent")
    /\ worker' = [worker EXCEPT !.at = "Writing"]
    /\ UNCHANGED <<fileVars, access, resident, channel, flush, accepted, starts, page>>

(* validate_entry: the resident's own fields are never empty and its       *)
(* timestamps canonical, so what is left to refuse is a blank output.      *)
WellFormed(entry) == entry.output # "Blank"

(* Mutant of Pruned: by insertion, not by time. *)
PrunedById(all) ==
    {row \in all : Cardinality({other \in all : other.id > row.id}) < MaxHistory}

(* ORDER BY created_at_utc DESC, id DESC LIMIT MAX_HISTORY_ENTRIES *)
Pruned(all) ==
    {row \in all : Cardinality({other \in all : Promise!Newer(other, row)}) < MaxHistory}

(* Mutant of FirstId: a rowid without AUTOINCREMENT. *)
LargestIdPlusOne == IF rows = {} THEN 1 ELSE 1 + (CHOOSE i \in 1..nextId :
                        /\ \E row \in rows : row.id = i
                        /\ \A row \in rows : row.id <= i)

(* AUTOINCREMENT *)
FirstId == nextId

(* A flush in the batch is answered with the outcome of this batch. *)
EndBatch(outcome) ==
    /\ flush' = IF flush = "Taken" THEN outcome ELSE flush
    /\ worker' = IdleWorker
    /\ UNCHANGED <<file, access, resident, channel, accepted, starts, page>>

(* insert_completed_batch: all of the batch and the pruning, or nothing. *)
WriteBatch ==
    /\ worker.at = "Writing"
    /\ \A i \in DOMAIN worker.batch : WellFormed(worker.batch[i])
    /\ IF worker.batch = <<>>
       THEN UNCHANGED <<rows, nextId>>
       ELSE /\ rows' = Pruned(rows \cup Promise!NewRows(worker.batch, FirstId))
            /\ nextId' = FirstId + Len(worker.batch)
    /\ EndBatch("Persisted")

(* The transaction fails, or one entry is refused: the whole batch is lost.*)
LoseBatch ==
    /\ worker.at = "Writing" /\ worker.batch # <<>>
    /\ UNCHANGED <<rows, nextId>>
    /\ EndBatch("Lost")

(* Mutant of WorkerEnds: the closed channel is not drained. *)
WorkerEndsEarly ==
    /\ worker.at = "Idle" /\ resident = "Joining"
    /\ worker' = [worker EXCEPT !.at = "Ended"]
    /\ UNCHANGED <<fileVars, access, resident, channel, flush, accepted, starts, page>>

(* recv fails: the sender is gone and the channel empty. *)
WorkerEnds ==
    /\ worker.at = "Idle" /\ resident = "Joining" /\ channel = <<>> /\ flush # "Sent"
    /\ worker' = [worker EXCEPT !.at = "Ended"]
    /\ UNCHANGED <<fileVars, access, resident, channel, flush, accepted, starts, page>>

-----------------------------------------------------------------------------
(* The manager's history page.  A handler that opens the file holds up its *)
(* own window only.                                                        *)

(* The page is opened before the schema exists. *)
AskRefresh(m) ==
    /\ page[m].goal = "None" /\ file # "Ready"
    /\ page' = [page EXCEPT ![m].goal = "Refresh"]
    /\ access' = [access EXCEPT ![m] = "Asked"]
    /\ UNCHANGED <<fileVars, residentVars>>

(* HistoryDatabase::search and refresh_history: an error empties the list. *)
(* The order of the list is left out; its limit is that of the table.      *)
Refresh(m) ==
    /\ page[m].goal = "Refresh" \/ (page[m].goal = "None" /\ file = "Ready")
    /\ \/ /\ page[m].goal = "None" \/ Opened(m)
          /\ \E kinds \in {Kinds} \cup {{kind} : kind \in Kinds} :
                page' = [page EXCEPT ![m] =
                    [EmptyPage EXCEPT !.list = {row \in rows : row.entry.kind \in kinds}]]
       \/ /\ page[m].goal = "None" \/ access[m] = "Refused"
          /\ page' = [page EXCEPT ![m] = EmptyPage]
    /\ access' = [access EXCEPT ![m] = "None"]
    /\ UNCHANGED <<fileVars, residentVars>>

(* delete_history asks about the selected row in a modal box; resident and *)
(* other managers go on meanwhile.                                         *)
AskDelete(m) ==
    /\ page[m].goal = "None"
    /\ \E row \in page[m].list :
          page' = [page EXCEPT ![m].goal = "Confirm", ![m].row = row]
    /\ UNCHANGED <<fileVars, access, residentVars>>

(* Yes: delete_one, which finds the row and the list is refreshed, or does *)
(* not find it or fails and the list stays as it is.                       *)
ConfirmDelete(m) ==
    LET hit == {row \in rows : row.id = page[m].row.id} IN
    /\ page[m].goal = "Confirm" /\ hit # {}
    /\ rows' = rows \ hit
    /\ page' = [page EXCEPT ![m].goal = "Refresh", ![m].row = NoRow]
    /\ access' = [access EXCEPT ![m] = "Asked"]
    /\ UNCHANGED <<file, nextId, residentVars>>

(* No, or a deletion that finds nothing or fails. *)
EndDelete(m) ==
    /\ page[m].goal = "Confirm"
    /\ page' = [page EXCEPT ![m].goal = "None", ![m].row = NoRow]
    /\ UNCHANGED <<fileVars, access, residentVars>>

-----------------------------------------------------------------------------
Write ==
    \/ ReceiveEntry \/ ReceiveFlush \/ StopReceiving
    \/ WriteBatch \/ LoseBatch \/ WorkerEnds

Next ==
    \/ \E p \in Processes : ReadVersion(p) \/ ReadTables(p) \/ CreateTables(p) \/ OpenFails(p)
    \/ StartHistory
    \/ \E at \in Times, kind \in Kinds, output \in {"Text", "Blank"} :
          EnqueueHistory(at, kind, output)
    \/ BeginDrop \/ FlushReturns \/ JoinReturns \/ Crash \/ Restart
    \/ Write
    \/ \E m \in Managers : \/ AskRefresh(m) \/ Refresh(m)
                           \/ AskDelete(m) \/ ConfirmDelete(m) \/ EndDelete(m)

(* The thread is scheduled and every statement it runs has a deadline. *)
Fairness == WF_vars(Write)

Spec == Init /\ [][Next]_vars /\ Fairness
-----------------------------------------------------------------------------
(* Properties *)

(* Entries are stored in the order of completion, each once, or lost from  *)
(* the front, whatever batches, flushes, failures, a shutdown or a crash   *)
(* make of the queue; the table keeps the newest rows of what it was given *)
(* and loses others to a deletion only (insert_completed_batch).           *)
ImplementsHistoryStore == Promise!StoreSpec

(* The flush of Drop is answered when every entry accepted before it was   *)
(* attempted (history_writer.rs flush), and never while one is left.       *)
FlushAnswersForAll == flush \in {"Persisted", "Lost"} => Waiting = <<>>

(* Confirming a deletion removes the row that was shown in the box or      *)
(* nothing, although the resident prunes and other managers delete while   *)
(* the box is open (delete_history, delete_one).                           *)
DeletesWhatWasShown ==
    [][\A m \in Managers :
          page[m].goal = "Confirm" /\ page'[m].goal = "Refresh"
          => rows \ rows' = {page[m].row}]_vars

(* No accepted entry stays unwritten: again and again the queue is empty or *)
(* loses its oldest entry, to a transaction or with the process, so every   *)
(* entry has its turn (start, drain of Drop).                               *)
EveryEntryIsAttempted ==
    \/ []<>(Waiting = <<>>)
    \/ []<><<Waiting # <<>> /\ Head(Waiting) \notin ToSet(Waiting')>>_vars
=============================================================================
