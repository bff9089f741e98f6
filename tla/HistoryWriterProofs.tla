------------------------ MODULE HistoryWriterProofs ------------------------
(***************************************************************************)
(* The history for every number of entries, starts and managers, every     *)
(* batch size and every size of the table: the flush speaks for all        *)
(* entries, a confirmed deletion removes what was shown, and the writer    *)
(* with its file implements HistoryStore.                                  *)
(*                                                                         *)
(* None of them is inductive.  The flush needs to know that nothing is     *)
(* accepted after it (FlushIsLast); a deletion, that an id is never given  *)
(* again (RowsAreApart) and that a list shown earlier therefore still      *)
(* names its rows (ShownIsKnown); the refinement, that a worker between    *)
(* two batches holds nothing (WorkerIsTidy).  What pruning keeps is what   *)
(* HistoryStore asks for because rows with different ids are never equally *)
(* new, so that each row has its rank.                                     *)
(***************************************************************************)
EXTENDS HistoryWriter, TLAPS, SequenceTheorems, FiniteSetTheorems, WellFoundedInduction

Entry == Promise!Entry
Row == Promise!Row

(* The flush is the last message, and answered when its batch has ended. *)
FlushIsLast ==
    /\ flush # "None" => resident \in {"Flushing", "Joining"}
    /\ flush \in {"Taken", "Persisted", "Lost"} => channel = <<>>
    /\ flush = "Taken" => worker.at \in {"Collecting", "Writing"}
    /\ flush \in {"Persisted", "Lost"} => worker.at \notin {"Collecting", "Writing"}

(* Only a worker that collects or writes holds entries, and a channel       *)
(* without a worker takes none.                                             *)
WorkerIsTidy ==
    /\ worker.at \in {"Missing", "Idle", "Ended"} => worker.batch = <<>>
    /\ worker.at = "Missing" => channel = <<>>
    /\ resident \in {"Opening", "NoHistory", "Exited"} => worker.at = "Missing"

RowsAreApart ==
    /\ IsFiniteSet(rows)
    /\ \A row \in rows : row.id < nextId
    /\ \A row, other \in rows : row.id = other.id => row = other

(* Rows a manager has in its list or in its confirmation box. *)
Shown(m) == page[m].list \cup ({page[m].row} \ {NoRow})

ShownIsKnown ==
    \A m \in Managers :
        /\ page[m].goal = "Confirm" => page[m].row \in Row
        /\ \A row \in Shown(m) :
              /\ row.id < nextId
              /\ \A other \in rows : other.id = row.id => other = row

HistoryInv ==
    /\ TypeOK
    /\ FlushIsLast
    /\ WorkerIsTidy
    /\ RowsAreApart
    /\ ShownIsKnown

-----------------------------------------------------------------------------
(* Types *)

(* The constants, and the values of Entry and Row. *)
LEMMA ValuesArePlain ==
  /\ MaxHistory \in Nat \ {0} /\ MaxEntries \in Nat /\ BatchCapacity \in Nat \ {0}
  /\ Times \subseteq Nat /\ MaxStarts \in Nat \ {0} /\ Resident \notin Managers
  /\ \A row \in Row : row.id \in Nat \ {0} /\ row.entry \in Entry /\ row.entry.at \in Nat
  /\ NoRow \notin Row
<1>1. /\ MaxHistory \in Nat \ {0} /\ MaxEntries \in Nat /\ BatchCapacity \in Nat \ {0}
      /\ Times \subseteq Nat /\ MaxStarts \in Nat \ {0} /\ Resident \notin Managers
  BY WriterAssumption DEF Promise!HistoryAssumption
<1>2. \A row \in Row : row.id \in Nat \ {0} /\ row.entry \in Entry /\ row.entry.at \in Nat
  BY <1>1 DEF Row, Entry, Promise!Row, Promise!Entry
<1>3. NoRow.id = 0
  BY DEF NoRow
<1> QED
  BY <1>1, <1>2, <1>3

-----------------------------------------------------------------------------
(* Pruning *)

(* Newer is a strict order, and total where ids differ. *)
LEMMA NewerIsAnOrder ==
  ASSUME NEW a \in Row, NEW b \in Row, NEW c \in Row
  PROVE  /\ ~Promise!Newer(a, a)
         /\ Promise!Newer(a, b) => ~Promise!Newer(b, a)
         /\ Promise!Newer(a, b) /\ Promise!Newer(b, c) => Promise!Newer(a, c)
         /\ a.id # b.id => Promise!Newer(a, b) \/ Promise!Newer(b, a)
BY ValuesArePlain DEF Promise!Newer

(* HistoryStore counts as this module does. *)
LEMMA SameCardinality ==
  \A S : Promise!Cardinality(S) = Cardinality(S)
BY DEF Promise!Cardinality, Cardinality

(* The rows of S newer and older than one. *)
NewerThan(S, row) == {other \in S : Promise!Newer(other, row)}
OlderThan(S, row) == {other \in S : Promise!Newer(row, other)}

(* Some of finitely many rows is the newest, since the rows newer than one  *)
(* cannot shrink for ever.                                                  *)
LEMMA NewestIsThere ==
  ASSUME NEW S \in SUBSET Row, IsFiniteSet(S), S # {}
  PROVE  \E row \in S : NewerThan(S, row) = {}
<1> DEFINE T == {NewerThan(S, row) : row \in S}
<1>1. \A row \in S : NewerThan(S, row) \in SUBSET S
  BY DEF NewerThan
<1>2. T \subseteq FiniteSubsetsOf(S) /\ T # {}
  BY <1>1, FS_FiniteSubsetsOfFinite
<1> HIDE DEF T
<1>3. PICK t \in T : \A u \in T : ~(<<u, t>> \in StrictSubsetOrdering(S))
  BY <1>2, FS_StrictSubsetOrderingWellFounded, WFMin
<1>4. PICK row \in S : t = NewerThan(S, row)
  BY DEF T
<1>5. ASSUME NEW other \in NewerThan(S, row) PROVE FALSE
  <2>1. other \in S /\ Promise!Newer(other, row)
    BY <1>5 DEF NewerThan
  <2>2. NewerThan(S, other) \in T
    BY <2>1 DEF T
  <2>3. NewerThan(S, other) \subseteq NewerThan(S, row) /\ other \notin NewerThan(S, other)
    BY <2>1, NewerIsAnOrder DEF NewerThan
  <2>4. <<NewerThan(S, other), NewerThan(S, row)>> \in StrictSubsetOrdering(S)
    BY <1>1, <1>5, <2>1, <2>3 DEF StrictSubsetOrdering
  <2> QED
    BY <1>3, <1>4, <2>2, <2>4
<1> QED
  BY <1>5

(* And some is the oldest. *)
LEMMA OldestIsThere ==
  ASSUME NEW S \in SUBSET Row, IsFiniteSet(S), S # {}
  PROVE  \E row \in S : OlderThan(S, row) = {}
<1> DEFINE T == {OlderThan(S, row) : row \in S}
<1>1. \A row \in S : OlderThan(S, row) \in SUBSET S
  BY DEF OlderThan
<1>2. T \subseteq FiniteSubsetsOf(S) /\ T # {}
  BY <1>1, FS_FiniteSubsetsOfFinite
<1> HIDE DEF T
<1>3. PICK t \in T : \A u \in T : ~(<<u, t>> \in StrictSubsetOrdering(S))
  BY <1>2, FS_StrictSubsetOrderingWellFounded, WFMin
<1>4. PICK row \in S : t = OlderThan(S, row)
  BY DEF T
<1>5. ASSUME NEW other \in OlderThan(S, row) PROVE FALSE
  <2>1. other \in S /\ Promise!Newer(row, other)
    BY <1>5 DEF OlderThan
  <2>2. OlderThan(S, other) \in T
    BY <2>1 DEF T
  <2>3. OlderThan(S, other) \subseteq OlderThan(S, row) /\ other \notin OlderThan(S, other)
    BY <2>1, NewerIsAnOrder DEF OlderThan
  <2>4. <<OlderThan(S, other), OlderThan(S, row)>> \in StrictSubsetOrdering(S)
    BY <1>1, <1>5, <2>1, <2>3 DEF StrictSubsetOrdering
  <2> QED
    BY <1>3, <1>4, <2>2, <2>4
<1> QED
  BY <1>5

(* The DELETE of insert_completed_batch keeps the newest rows: a row stays  *)
(* when fewer than MaxHistory are newer, so those that stay are the oldest  *)
(* of them with all that are newer.                                         *)
LEMMA PrunedIsNewest ==
  ASSUME NEW all \in SUBSET Row, IsFiniteSet(all),
         \A row, other \in all : row.id = other.id => row = other
  PROVE  Promise!AreNewest(Pruned(all), all)
<1> DEFINE kept == Pruned(all)
<1>1. kept = {row \in all : Cardinality(NewerThan(all, row)) < MaxHistory}
  BY DEF Pruned, NewerThan
<1> HIDE DEF kept
<1>2. \A row \in all : /\ IsFiniteSet(NewerThan(all, row))
                       /\ Cardinality(NewerThan(all, row)) \in Nat
  <2> TAKE row \in all
  <2>1. NewerThan(all, row) \in SUBSET all
    BY DEF NewerThan
  <2> QED
    BY <2>1, FS_Subset, FS_CardinalityType
<1>3. ASSUME NEW row \in all, NEW other \in all, Promise!Newer(row, other)
      PROVE  Cardinality(NewerThan(all, row)) <= Cardinality(NewerThan(all, other))
  <2>1. NewerThan(all, row) \in SUBSET NewerThan(all, other)
    BY <1>3, NewerIsAnOrder DEF NewerThan
  <2> QED
    BY <1>2, <2>1, FS_Subset
<1>4. ASSUME NEW row \in all, NEW other \in kept, Promise!Newer(row, other)
      PROVE  row \in kept
  <2>1. other \in all /\ Cardinality(NewerThan(all, other)) < MaxHistory
    BY <1>1
  <2>2. Cardinality(NewerThan(all, row)) <= Cardinality(NewerThan(all, other))
    BY <1>3, <1>4, <2>1
  <2>3. Cardinality(NewerThan(all, row)) < MaxHistory
    BY <1>2, <2>1, <2>2, ValuesArePlain
  <2> QED
    BY <1>1, <2>3
<1>5. kept \in SUBSET all /\ IsFiniteSet(kept) /\ Cardinality(kept) \in Nat
  <2>1. kept \in SUBSET all
    BY <1>1
  <2> QED
    BY <2>1, FS_Subset, FS_CardinalityType
<1>6. \A row \in all \ kept, other \in kept : Promise!Newer(other, row)
  <2> TAKE row \in all \ kept, other \in kept
  <2>1. other \in all /\ row.id # other.id
    BY <1>5
  <2>2. ~Promise!Newer(row, other)
    BY <1>4
  <2> QED
    BY <2>1, <2>2, NewerIsAnOrder
<1>7. Cardinality(kept) <= MaxHistory
  <2>1. CASE kept = {}
    BY <2>1, FS_EmptySet, ValuesArePlain
  <2>2. CASE kept # {}
    <3>1. PICK last \in kept : OlderThan(kept, last) = {}
      BY <1>5, <2>2, OldestIsThere
    <3>2. last \in all /\ Cardinality(NewerThan(all, last)) < MaxHistory
      BY <1>1
    <3>3. kept = NewerThan(all, last) \cup {last}
      <4>1. NewerThan(all, last) \subseteq kept
        BY <1>4 DEF NewerThan
      <4>2. ASSUME NEW row \in kept, row # last
            PROVE  row \in NewerThan(all, last)
        <5>1. row \in all /\ row.id # last.id
          BY <1>5, <3>2, <4>2
        <5>2. ~Promise!Newer(last, row)
          BY <3>1 DEF OlderThan
        <5> QED
          BY <3>2, <5>1, <5>2, NewerIsAnOrder DEF NewerThan
      <4> QED
        BY <4>1, <4>2
    <3>4. last \notin NewerThan(all, last)
      BY <3>2, NewerIsAnOrder DEF NewerThan
    <3>5. Cardinality(kept) = Cardinality(NewerThan(all, last)) + 1
      BY <1>2, <3>2, <3>3, <3>4, FS_AddElement
    <3> QED
      BY <1>2, <3>2, <3>5, ValuesArePlain
  <2> QED
    BY <2>1, <2>2
<1>8. ASSUME NEW row \in all \ kept
      PROVE  Cardinality(kept) = MaxHistory
  <2>1. all \ kept \in SUBSET Row /\ IsFiniteSet(all \ kept) /\ all \ kept # {}
    BY FS_Difference
  <2>2. PICK first \in all \ kept : NewerThan(all \ kept, first) = {}
    BY <2>1, NewestIsThere
  <2>3. NewerThan(all, first) = kept
    BY <1>5, <1>6, <2>2 DEF NewerThan
  <2>4. ~(Cardinality(NewerThan(all, first)) < MaxHistory)
    BY <1>1
  <2> QED
    BY <1>5, <1>7, <2>3, <2>4, ValuesArePlain
<1>9. Promise!AreNewest(kept, all)
  BY <1>5, <1>6, <1>7, <1>8, SameCardinality DEF Promise!AreNewest
<1> QED
  BY <1>9 DEF kept

-----------------------------------------------------------------------------
(* The invariant is inductive *)

AccessStates == {"None", "Asked", "Unversioned", "Bare", "Usable", "Refused"}
WorkerStates == {"Missing", "Idle", "Collecting", "Writing", "Ended"}
FileStates == {"Bare", "Ready", "Foreign"}
Pages == [goal : {"None", "Confirm", "Refresh"}, row : Row \cup {NoRow}, list : SUBSET Row]

(* At the start nobody has anything. *)
LEMMA InitHasInv == Init => HistoryInv
<1> SUFFICES ASSUME Init PROVE HistoryInv
  OBVIOUS
<1> USE DEF Init
<1>1. TypeOK
  <2>1. EmptyPage \in Pages
    BY DEF EmptyPage, Pages
  <2>2. page \in [Managers -> Pages]
    BY <2>1
  <2>3. NoWorker \in [at : {"Missing", "Idle", "Collecting", "Writing", "Ended"},
                      batch : Seq(Entry)]
    BY EmptySeq DEF NoWorker
  <2>4. 1 \in 0..MaxStarts /\ 0 \in 0..MaxEntries
    BY ValuesArePlain
  <2> QED
    BY <2>2, <2>3, <2>4, EmptySeq DEF TypeOK, Entry, Row, Pages
<1>2. FlushIsLast /\ WorkerIsTidy
  BY DEF FlushIsLast, WorkerIsTidy, NoWorker
<1>3. RowsAreApart
  BY FS_EmptySet DEF RowsAreApart
<1>4. ShownIsKnown
  BY DEF ShownIsKnown, Shown, EmptyPage
<1> QED
  BY <1>1, <1>2, <1>3, <1>4 DEF HistoryInv

(* Opening the file changes neither the table nor the queue nor a page. *)
LEMMA OpeningKeepsInv ==
  ASSUME HistoryInv, access' \in [Processes -> AccessStates], file' \in FileStates,
         UNCHANGED <<rows, nextId, residentVars, page>>
  PROVE  HistoryInv'
<1>1. TypeOK'
  BY DEF HistoryInv, TypeOK, AccessStates, FileStates, residentVars
<1>2. FlushIsLast' /\ WorkerIsTidy' /\ RowsAreApart' /\ ShownIsKnown'
  BY DEF HistoryInv, FlushIsLast, WorkerIsTidy, RowsAreApart, ShownIsKnown, Shown, residentVars
<1> QED
  BY <1>1, <1>2 DEF HistoryInv

(* The resident and its writer leave the table and the pages alone. *)
LEMMA QueueingKeepsInv ==
  ASSUME HistoryInv, TypeOK', FlushIsLast', WorkerIsTidy',
         UNCHANGED <<rows, nextId, page>>
  PROVE  HistoryInv'
BY DEF HistoryInv, RowsAreApart, ShownIsKnown, Shown

(* start, enqueue, drop and the end of the process. *)
LEMMA ResidentKeepsInv ==
  ASSUME HistoryInv,
         \/ StartHistory
         \/ \E at \in Times, kind \in Kinds, output \in {"Text", "Blank"} :
               EnqueueHistory(at, kind, output)
         \/ BeginDrop \/ FlushReturns \/ JoinReturns \/ Crash \/ Restart
  PROVE  HistoryInv'
<1> USE DEF HistoryInv
<1>1. CASE StartHistory
  <2>0. /\ IdleWorker \in [at : WorkerStates, batch : Seq(Entry)]
        /\ NoWorker \in [at : WorkerStates, batch : Seq(Entry)]
    BY EmptySeq DEF IdleWorker, NoWorker, WorkerStates
  <2>1. TypeOK'
    BY <1>1, <2>0 DEF StartHistory, TypeOK, fileVars, Processes, Entry, WorkerStates
  <2>2. FlushIsLast' /\ WorkerIsTidy'
    BY <1>1 DEF StartHistory, FlushIsLast, WorkerIsTidy, IdleWorker, NoWorker
  <2> QED
    BY <1>1, <2>1, <2>2, QueueingKeepsInv DEF StartHistory, fileVars
<1>2. ASSUME NEW at \in Times, NEW kind \in Kinds, NEW output \in {"Text", "Blank"},
             EnqueueHistory(at, kind, output)
      PROVE  HistoryInv'
  <2> DEFINE entry == [number |-> accepted + 1, at |-> at, kind |-> kind, output |-> output]
  <2>1. /\ accepted \in 0..MaxEntries /\ accepted + 1 \in 1..MaxEntries
        /\ output = "Text"
    BY <1>2, ValuesArePlain DEF EnqueueHistory, TypeOK, Worthwhile
  <2>2. entry \in Entry
    BY <2>1 DEF Entry, Promise!Entry
  <2>3. channel' = Append(channel, entry)
    BY <1>2 DEF EnqueueHistory
  <2> HIDE DEF entry
  <2>4. channel \in Seq(Entry) /\ channel' \in Seq(Entry)
    BY <2>2, <2>3, AppendProperties DEF TypeOK, Entry
  <2>5. TypeOK'
    BY <1>2, <2>1, <2>4 DEF EnqueueHistory, TypeOK, fileVars, Entry
  <2>6. FlushIsLast' /\ WorkerIsTidy'
    BY <1>2 DEF EnqueueHistory, FlushIsLast, WorkerIsTidy
  <2> QED
    BY <1>2, <2>5, <2>6, QueueingKeepsInv DEF EnqueueHistory, fileVars
<1>3. CASE BeginDrop
  <2>1. TypeOK'
    BY <1>3 DEF BeginDrop, TypeOK, fileVars
  <2>2. FlushIsLast' /\ WorkerIsTidy'
    BY <1>3 DEF BeginDrop, FlushIsLast, WorkerIsTidy
  <2> QED
    BY <1>3, <2>1, <2>2, QueueingKeepsInv DEF BeginDrop, fileVars
<1>4. CASE FlushReturns
  <2>1. TypeOK'
    BY <1>4 DEF FlushReturns, TypeOK, fileVars
  <2>2. FlushIsLast' /\ WorkerIsTidy'
    BY <1>4 DEF FlushReturns, FlushIsLast, WorkerIsTidy
  <2> QED
    BY <1>4, <2>1, <2>2, QueueingKeepsInv DEF FlushReturns, fileVars
<1>5. CASE JoinReturns \/ Crash
  <2>1. EndProcess
    BY <1>5 DEF JoinReturns, Crash
  <2>2. TypeOK'
    BY <2>1, EmptySeq DEF EndProcess, TypeOK, fileVars, NoWorker, Processes, Entry
  <2>3. FlushIsLast' /\ WorkerIsTidy'
    BY <2>1 DEF EndProcess, FlushIsLast, WorkerIsTidy, NoWorker
  <2> QED
    BY <2>1, <2>2, <2>3, QueueingKeepsInv DEF EndProcess, fileVars
<1>6. CASE Restart
  <2>1. TypeOK'
    BY <1>6, ValuesArePlain DEF Restart, TypeOK, fileVars, Processes
  <2>2. FlushIsLast' /\ WorkerIsTidy'
    BY <1>6 DEF Restart, FlushIsLast, WorkerIsTidy
  <2> QED
    BY <1>6, <2>1, <2>2, QueueingKeepsInv DEF Restart, fileVars
<1> QED
  BY <1>1, <1>2, <1>3, <1>4, <1>5, <1>6

(* A batch becomes rows with ids of their own. *)
LEMMA NewRowsAreApart ==
  ASSUME NEW batch \in Seq(Entry), NEW first \in Nat \ {0}
  PROVE  LET added == Promise!NewRows(batch, first)
         IN  /\ added \subseteq Row /\ IsFiniteSet(added)
             /\ \A row \in added : first <= row.id /\ row.id < first + Len(batch)
             /\ \A row, other \in added : row.id = other.id => row = other
<1> DEFINE added == Promise!NewRows(batch, first)
           RowAt == [i \in DOMAIN batch |-> [id |-> first + i - 1, entry |-> batch[i]]]
<1>1. /\ Len(batch) \in Nat /\ DOMAIN batch = 1..Len(batch)
      /\ \A i \in DOMAIN batch : batch[i] \in Entry
  BY LenProperties, ElementOfSeq
<1>2. added = {RowAt[i] : i \in DOMAIN batch}
  BY DEF Promise!NewRows
<1>3. \A i \in DOMAIN batch :
         /\ RowAt[i] = [id |-> first + i - 1, entry |-> batch[i]]
         /\ RowAt[i].id = first + i - 1
         /\ first + i - 1 \in Nat \ {0}
         /\ first <= first + i - 1 /\ first + i - 1 < first + Len(batch)
  BY <1>1
<1>4. \A i \in DOMAIN batch : RowAt[i] \in Row
  BY <1>1, <1>3 DEF Row, Promise!Row, Entry
<1>5. DOMAIN RowAt = DOMAIN batch
  OBVIOUS
<1> HIDE DEF added, RowAt
<1>6. added \subseteq Row
  BY <1>2, <1>4
<1>7. IsFiniteSet(added)
  <2>1. IsFiniteSet(DOMAIN batch)
    BY <1>1, FS_Interval
  <2>2. RowAt \in [DOMAIN batch -> added]
    BY <1>2, <1>5 DEF RowAt
  <2>3. RowAt \in Surjection(DOMAIN batch, added)
    BY <1>2, <2>2 DEF Surjection
  <2> QED
    BY <2>1, <2>3, FS_Surjection
<1>8. \A row \in added : first <= row.id /\ row.id < first + Len(batch)
  BY <1>2, <1>3
<1>9. \A row, other \in added : row.id = other.id => row = other
  <2> SUFFICES ASSUME NEW row \in added, NEW other \in added, row.id = other.id
               PROVE  row = other
    OBVIOUS
  <2>1. PICK i \in DOMAIN batch : row = RowAt[i]
    BY <1>2
  <2>2. PICK j \in DOMAIN batch : other = RowAt[j]
    BY <1>2
  <2>3. RowAt[i].id = RowAt[j].id
    BY <2>1, <2>2
  <2>4. i = j
    <3>1. RowAt[i].id = first + i - 1 /\ RowAt[j].id = first + j - 1
      BY <1>3
    <3>2. i \in Int /\ j \in Int /\ first \in Int
      BY <1>1
    <3>3. first + i - 1 = first + j - 1
      BY <2>3, <3>1
    <3> QED
      BY <3>2, <3>3
  <2> QED
    BY <2>1, <2>2, <2>4
<1> QED
  BY <1>6, <1>7, <1>8, <1>9 DEF added

(* What a transaction makes of the table. *)
LEMMA BatchIsApart ==
  ASSUME HistoryInv, NEW batch \in Seq(Entry)
  PROVE  LET all == rows \cup Promise!NewRows(batch, nextId)
         IN  /\ all \in SUBSET Row /\ IsFiniteSet(all)
             /\ \A row \in all : row.id < nextId + Len(batch)
             /\ \A row, other \in all : row.id = other.id => row = other
             /\ Pruned(all) \subseteq all
             /\ \A row \in all : row.id < nextId => row \in rows
<1> DEFINE added == Promise!NewRows(batch, nextId)
           all == rows \cup added
<1>1. /\ added \subseteq Row /\ IsFiniteSet(added)
      /\ \A row \in added : nextId <= row.id /\ row.id < nextId + Len(batch)
      /\ \A row, other \in added : row.id = other.id => row = other
  BY NewRowsAreApart DEF HistoryInv, TypeOK
<1>2. /\ rows \subseteq Row /\ IsFiniteSet(rows) /\ nextId \in Nat /\ Len(batch) \in Nat
      /\ \A row \in rows : row.id < nextId
      /\ \A row, other \in rows : row.id = other.id => row = other
  BY LenProperties DEF HistoryInv, TypeOK, RowsAreApart, Row
<1> HIDE DEF added
<1>3. all \in SUBSET Row /\ IsFiniteSet(all)
  BY <1>1, <1>2, FS_Union
<1>4. \A row \in all : row.id < nextId + Len(batch)
  BY <1>1, <1>2, ValuesArePlain
<1>5. \A row \in rows, other \in added : row.id # other.id
  BY <1>1, <1>2, ValuesArePlain
<1>6. \A row, other \in all : row.id = other.id => row = other
  BY <1>1, <1>2, <1>5
<1>7. \A row \in all : row.id < nextId => row \in rows
  BY <1>1, <1>2, ValuesArePlain
<1>8. Pruned(all) \subseteq all
  BY DEF Pruned
<1> QED
  BY <1>3, <1>4, <1>6, <1>7, <1>8 DEF added

(* The writer thread. *)
LEMMA WriterKeepsInv ==
  ASSUME HistoryInv, Write
  PROVE  HistoryInv'
<1> USE DEF HistoryInv
<1>1. CASE ReceiveEntry
  <2>1. channel \in Seq(Entry) /\ channel # <<>> /\ worker.batch \in Seq(Entry)
    BY <1>1 DEF ReceiveEntry, TypeOK, Entry
  <2>2. /\ worker' = [at |-> "Collecting", batch |-> Append(worker.batch, Head(channel))]
        /\ channel' = Tail(channel)
    BY <1>1 DEF ReceiveEntry
  <2>3. Head(channel) \in Entry /\ Tail(channel) \in Seq(Entry)
    BY <2>1, HeadTailProperties
  <2>4. Append(worker.batch, Head(channel)) \in Seq(Entry)
    BY <2>1, <2>3, AppendProperties
  <2>5. TypeOK'
    BY <1>1, <2>2, <2>3, <2>4 DEF ReceiveEntry, TypeOK, fileVars, Entry
  <2>6. worker'.at = "Collecting" /\ worker.at # "Missing"
    BY <1>1, <2>2 DEF ReceiveEntry, HasRoom
  <2>7. FlushIsLast' /\ WorkerIsTidy'
    BY <1>1, <2>1, <2>6 DEF ReceiveEntry, FlushIsLast, WorkerIsTidy
  <2> QED
    BY <1>1, <2>5, <2>7, QueueingKeepsInv DEF ReceiveEntry, fileVars
<1>2. CASE ReceiveFlush
  <2>1. TypeOK'
    BY <1>2 DEF ReceiveFlush, TypeOK, fileVars
  <2>2. worker'.at = "Collecting" /\ worker.at # "Missing"
    BY <1>2 DEF ReceiveFlush, HasRoom, TypeOK
  <2>3. FlushIsLast' /\ WorkerIsTidy'
    BY <1>2, <2>2 DEF ReceiveFlush, FlushIsLast, WorkerIsTidy
  <2> QED
    BY <1>2, <2>1, <2>3, QueueingKeepsInv DEF ReceiveFlush, fileVars
<1>3. CASE StopReceiving
  <2>1. TypeOK'
    BY <1>3 DEF StopReceiving, TypeOK, fileVars
  <2>2. worker'.at = "Writing" /\ worker.at = "Collecting"
    BY <1>3 DEF StopReceiving, TypeOK
  <2>3. FlushIsLast' /\ WorkerIsTidy'
    BY <1>3, <2>2 DEF StopReceiving, FlushIsLast, WorkerIsTidy
  <2> QED
    BY <1>3, <2>1, <2>3, QueueingKeepsInv DEF StopReceiving, fileVars
<1>4. ASSUME NEW outcome \in {"Persisted", "Lost"}, EndBatch(outcome), worker.at = "Writing"
      PROVE  FlushIsLast' /\ WorkerIsTidy'
  BY <1>4 DEF EndBatch, FlushIsLast, WorkerIsTidy, IdleWorker
<1>5. ASSUME NEW outcome \in {"Persisted", "Lost"}, EndBatch(outcome),
             rows' \subseteq Row, nextId' \in Nat \ {0}
      PROVE  TypeOK'
  <2>1. IdleWorker \in [at : WorkerStates, batch : Seq(Entry)]
    BY EmptySeq DEF IdleWorker, WorkerStates
  <2> QED
    BY <1>5, <2>1 DEF EndBatch, TypeOK, Entry, Row, WorkerStates
<1>6. CASE LoseBatch
  <2>1. EndBatch("Lost") /\ UNCHANGED <<rows, nextId>> /\ worker.at = "Writing"
    BY <1>6 DEF LoseBatch
  <2>2. TypeOK'
    BY <1>5, <2>1 DEF TypeOK, Row
  <2>3. FlushIsLast' /\ WorkerIsTidy'
    BY <1>4, <2>1
  <2> QED
    BY <2>1, <2>2, <2>3, QueueingKeepsInv DEF EndBatch
<1>7. CASE WriteBatch
  <2>1. EndBatch("Persisted") /\ worker.at = "Writing" /\ UNCHANGED page
    BY <1>7 DEF WriteBatch, EndBatch
  <2>2. FlushIsLast' /\ WorkerIsTidy'
    BY <1>4, <2>1
  <2>3. CASE worker.batch = <<>>
    <3>1. UNCHANGED <<rows, nextId>>
      BY <1>7, <2>3 DEF WriteBatch
    <3>2. TypeOK'
      BY <1>5, <2>1, <3>1 DEF TypeOK, Row
    <3> QED
      BY <2>1, <2>2, <3>1, <3>2, QueueingKeepsInv
  <2>4. CASE worker.batch # <<>>
    <3> DEFINE all == rows \cup Promise!NewRows(worker.batch, nextId)
    <3>1. rows' = Pruned(all) /\ nextId' = nextId + Len(worker.batch)
      BY <1>7, <2>4 DEF WriteBatch, FirstId
    <3>2. worker.batch \in Seq(Entry) /\ Len(worker.batch) \in Nat /\ nextId \in Nat \ {0}
      <4>1. worker.batch \in Seq(Entry) /\ nextId \in Nat \ {0}
        BY DEF TypeOK, Entry
      <4> QED
        BY <4>1, LenProperties
    <3>3. /\ all \in SUBSET Row /\ IsFiniteSet(all)
          /\ \A row \in all : row.id < nextId + Len(worker.batch)
          /\ \A row, other \in all : row.id = other.id => row = other
          /\ Pruned(all) \subseteq all
          /\ \A row \in all : row.id < nextId => row \in rows
      BY <3>2, BatchIsApart
    <3> HIDE DEF all
    <3>4. rows' \in SUBSET all
      BY <3>1, <3>3
    <3>5. TypeOK'
      BY <1>5, <2>1, <3>1, <3>2, <3>3, <3>4
    <3>6. RowsAreApart'
      BY <3>1, <3>3, <3>4, FS_Subset DEF RowsAreApart
    <3>7. ShownIsKnown'
      <4> SUFFICES ASSUME NEW m \in Managers, NEW row \in Shown(m)'
                   PROVE  /\ row.id < nextId'
                          /\ \A other \in rows' : other.id = row.id => other = row
        BY <2>1 DEF ShownIsKnown
      <4>1. row \in Shown(m)
        BY <2>1 DEF Shown
      <4>2. row \in Row /\ row.id \in Nat
        BY <4>1, ValuesArePlain DEF Shown, TypeOK, Row
      <4>3. row.id < nextId /\ \A other \in rows : other.id = row.id => other = row
        BY <4>1 DEF ShownIsKnown
      <4>4. row.id < nextId'
        BY <3>1, <3>2, <4>2, <4>3
      <4> QED
        BY <3>3, <3>4, <4>3, <4>4
    <3> QED
      BY <2>2, <3>5, <3>6, <3>7
  <2> QED
    BY <2>3, <2>4
<1>8. CASE WorkerEnds
  <2>1. TypeOK'
    BY <1>8 DEF WorkerEnds, TypeOK, fileVars
  <2>2. worker'.at = "Ended" /\ worker'.batch = worker.batch /\ worker.at = "Idle"
    BY <1>8 DEF WorkerEnds, TypeOK
  <2>3. FlushIsLast' /\ WorkerIsTidy'
    BY <1>8, <2>2 DEF WorkerEnds, FlushIsLast, WorkerIsTidy
  <2> QED
    BY <1>8, <2>1, <2>3, QueueingKeepsInv DEF WorkerEnds, fileVars
<1> QED
  BY <1>1, <1>2, <1>3, <1>6, <1>7, <1>8 DEF Write

(* The pages: a list shows rows of the table, a box a row of its list. *)
LEMMA PagesKeepInv ==
  ASSUME HistoryInv, NEW m \in Managers,
         AskRefresh(m) \/ Refresh(m) \/ AskDelete(m) \/ ConfirmDelete(m) \/ EndDelete(m)
  PROVE  HistoryInv'
<1> USE DEF HistoryInv
<1>0. /\ page[m] \in Pages /\ page[m].list \in SUBSET Row /\ rows \subseteq Row
      /\ page \in [Managers -> Pages]
  BY DEF TypeOK, Pages, Row
<1>1. ASSUME NEW p \in Pages, page' = [page EXCEPT ![m] = p],
             access' \in [Processes -> AccessStates], file' = file, rows' \subseteq rows,
             UNCHANGED <<nextId, residentVars>>,
             p.goal = "Confirm" => p.row # NoRow,
             p.list \cup ({p.row} \ {NoRow}) \subseteq Shown(m) \cup rows
      PROVE  HistoryInv'
  <2>1. page' \in [Managers -> Pages] /\ page'[m] = p
        /\ \A n \in Managers \ {m} : page'[n] = page[n]
    BY <1>0, <1>1
  <2>2. TypeOK'
    BY <1>1, <2>1 DEF TypeOK, Pages, AccessStates, residentVars, Row
  <2>3. FlushIsLast' /\ WorkerIsTidy'
    BY <1>1 DEF FlushIsLast, WorkerIsTidy, residentVars
  <2>4. RowsAreApart'
    BY <1>1, FS_Subset DEF RowsAreApart
  <2>5. \A row \in Shown(m) \cup rows :
           row.id < nextId /\ \A other \in rows : other.id = row.id => other = row
    BY DEF ShownIsKnown, RowsAreApart
  <2>6. Shown(m)' \subseteq Shown(m) \cup rows
    BY <1>1, <2>1 DEF Shown
  <2>7. \A n \in Managers \ {m} : Shown(n)' = Shown(n)
    BY <2>1 DEF Shown
  <2>8. ShownIsKnown'
    <3>1. ASSUME NEW n \in Managers
          PROVE  /\ page'[n].goal = "Confirm" => page'[n].row \in Row
                 /\ \A row \in Shown(n)' :
                       /\ row.id < nextId'
                       /\ \A other \in rows' : other.id = row.id => other = row
      <4>1. CASE n = m
        <5>1. p.goal = "Confirm" => p.row \in Row
          BY <1>1 DEF Pages
        <5> QED
          BY <1>1, <2>1, <2>5, <2>6, <4>1, <5>1
      <4>2. CASE n # m
        <5>1. /\ page[n].goal = "Confirm" => page[n].row \in Row
              /\ \A row \in Shown(n) :
                    /\ row.id < nextId
                    /\ \A other \in rows : other.id = row.id => other = row
          BY DEF ShownIsKnown
        <5> QED
          BY <1>1, <2>1, <2>7, <4>2, <5>1
      <4> QED
        BY <4>1, <4>2
    <3> QED
      BY <3>1 DEF ShownIsKnown
  <2> QED
    BY <2>2, <2>3, <2>4, <2>8
<1>2. access \in [Processes -> AccessStates] /\ m \in Processes
  BY DEF TypeOK, AccessStates, Processes
<1>3. CASE AskRefresh(m)
  <2> DEFINE p == [page[m] EXCEPT !.goal = "Refresh"]
  <2>1. p \in Pages /\ p.goal = "Refresh" /\ p.row = page[m].row /\ p.list = page[m].list
    BY <1>0 DEF Pages
  <2>2. /\ page' = [page EXCEPT ![m] = p] /\ UNCHANGED <<fileVars, residentVars>>
        /\ access' = [access EXCEPT ![m] = "Asked"]
    BY <1>3 DEF AskRefresh
  <2> HIDE DEF p
  <2>3. access' \in [Processes -> AccessStates]
    BY <1>2, <2>2 DEF AccessStates
  <2> QED
    BY <1>1, <2>1, <2>2, <2>3 DEF fileVars, Shown
<1>4. CASE Refresh(m)
  <2>1. access' = [access EXCEPT ![m] = "None"] /\ UNCHANGED <<fileVars, residentVars>>
    BY <1>4 DEF Refresh
  <2>2. access' \in [Processes -> AccessStates]
    BY <1>2, <2>1 DEF AccessStates
  <2>3. EmptyPage \in Pages /\ EmptyPage.goal = "None" /\ EmptyPage.row = NoRow
        /\ EmptyPage.list = {}
    BY DEF EmptyPage, Pages
  <2>4. PICK p : /\ page' = [page EXCEPT ![m] = p]
                 /\ \/ p = EmptyPage
                    \/ \E kinds \in {Kinds} \cup {{kind} : kind \in Kinds} :
                          p = [EmptyPage EXCEPT !.list = {row \in rows : row.entry.kind \in kinds}]
    BY <1>4 DEF Refresh
  <2>5. p \in Pages /\ p.goal = "None" /\ p.row = NoRow /\ p.list \subseteq rows
    BY <1>0, <2>3, <2>4 DEF Pages
  <2> QED
    BY <1>1, <2>1, <2>2, <2>4, <2>5 DEF fileVars
<1>5. CASE AskDelete(m)
  <2>1. PICK row \in page[m].list : page' = [page EXCEPT ![m].goal = "Confirm", ![m].row = row]
    BY <1>5 DEF AskDelete
  <2> DEFINE p == [page[m] EXCEPT !.goal = "Confirm", !.row = row]
  <2>2. row \in Row /\ row # NoRow
    BY <1>0, ValuesArePlain
  <2>3. p \in Pages /\ p.row = row /\ p.list = page[m].list
    BY <1>0, <2>2 DEF Pages
  <2>4. page' = [page EXCEPT ![m] = p] /\ UNCHANGED <<fileVars, access, residentVars>>
    BY <1>5, <2>1 DEF AskDelete
  <2> HIDE DEF p
  <2>5. p.list \cup ({p.row} \ {NoRow}) \subseteq Shown(m)
    BY <2>3 DEF Shown
  <2> QED
    BY <1>1, <1>2, <2>2, <2>3, <2>4, <2>5 DEF fileVars
<1>6. CASE ConfirmDelete(m)
  <2> DEFINE p == [page[m] EXCEPT !.goal = "Refresh", !.row = NoRow]
  <2>1. p \in Pages /\ p.goal = "Refresh" /\ p.row = NoRow /\ p.list = page[m].list
    BY <1>0 DEF Pages
  <2>2. /\ page' = [page EXCEPT ![m] = p] /\ UNCHANGED <<file, nextId, residentVars>>
        /\ access' = [access EXCEPT ![m] = "Asked"] /\ rows' \subseteq rows
    BY <1>6 DEF ConfirmDelete
  <2> HIDE DEF p
  <2>3. access' \in [Processes -> AccessStates]
    BY <1>2, <2>2 DEF AccessStates
  <2> QED
    BY <1>1, <2>1, <2>2, <2>3 DEF Shown
<1>7. CASE EndDelete(m)
  <2> DEFINE p == [page[m] EXCEPT !.goal = "None", !.row = NoRow]
  <2>1. p \in Pages /\ p.goal = "None" /\ p.row = NoRow /\ p.list = page[m].list
    BY <1>0 DEF Pages
  <2>2. page' = [page EXCEPT ![m] = p] /\ UNCHANGED <<fileVars, access, residentVars>>
    BY <1>7 DEF EndDelete
  <2> HIDE DEF p
  <2> QED
    BY <1>1, <1>2, <2>1, <2>2 DEF fileVars, Shown
<1> QED
  BY <1>3, <1>4, <1>5, <1>6, <1>7

(* Every step keeps the invariant. *)
LEMMA StepKeepsInv ==
  ASSUME HistoryInv, [Next]_vars
  PROVE  HistoryInv'
<1>1. ASSUME NEW p \in Processes, ReadVersion(p) \/ ReadTables(p) \/ CreateTables(p) \/ OpenFails(p)
      PROVE  HistoryInv'
  <2>1. access \in [Processes -> AccessStates] /\ file \in FileStates
    BY DEF HistoryInv, TypeOK, AccessStates, FileStates
  <2>2. access' \in [Processes -> AccessStates] /\ file' \in FileStates
    BY <1>1, <2>1
       DEF ReadVersion, ReadTables, CreateTables, OpenFails, fileVars, AccessStates, FileStates
  <2>3. UNCHANGED <<rows, nextId, residentVars, page>>
    BY <1>1 DEF ReadVersion, ReadTables, CreateTables, OpenFails, fileVars
  <2> QED
    BY <2>2, <2>3, OpeningKeepsInv
<1>2. CASE UNCHANGED vars
  BY <1>2 DEF vars, fileVars, residentVars, HistoryInv, TypeOK, FlushIsLast, WorkerIsTidy,
              RowsAreApart, ShownIsKnown, Shown
<1> QED
  BY <1>1, <1>2, ResidentKeepsInv, WriterKeepsInv, PagesKeepInv DEF Next

-----------------------------------------------------------------------------
(* The queue behind the batch *)

(* An entry accepted goes to the end of what waits. *)
LEMMA ConcatAppend ==
  ASSUME NEW S, NEW s \in Seq(S), NEW t \in Seq(S), NEW e \in S
  PROVE  s \o Append(t, e) = Append(s \o t, e)
<1>1. Append(t, e) = t \o <<e>> /\ <<e>> \in Seq(S)
  BY AppendIsConcat
<1>2. s \o t \in Seq(S)
  BY ConcatProperties
<1>3. Append(s \o t, e) = (s \o t) \o <<e>>
  BY <1>2, AppendIsConcat
<1> QED
  BY <1>1, <1>3, ConcatAssociative

(* An entry that moves from the channel to the batch stays where it was. *)
LEMMA ConcatMove ==
  ASSUME NEW S, NEW s \in Seq(S), NEW t \in Seq(S), t # <<>>
  PROVE  Append(s, Head(t)) \o Tail(t) = s \o t
<1>1. /\ Head(t) \in S /\ Tail(t) \in Seq(S) /\ Len(Tail(t)) = Len(t) - 1
      /\ \A i \in 1..Len(Tail(t)) : Tail(t)[i] = t[i + 1]
      /\ Len(t) \in Nat \ {0} /\ Len(s) \in Nat /\ Head(t) = t[1]
  BY HeadTailProperties, EmptySeq, LenProperties
<1> DEFINE u == Append(s, Head(t))
<1>2. /\ u \in Seq(S) /\ Len(u) = Len(s) + 1
      /\ \A i \in 1..Len(s) : u[i] = s[i]
      /\ u[Len(s) + 1] = Head(t)
  BY <1>1, AppendProperties
<1> HIDE DEF u
<1>3. /\ u \o Tail(t) \in Seq(S) /\ Len(u \o Tail(t)) = Len(s) + Len(t)
      /\ \A i \in 1..(Len(s) + Len(t)) :
            (u \o Tail(t))[i] = IF i <= Len(s) + 1 THEN u[i] ELSE Tail(t)[i - (Len(s) + 1)]
  <2>1. /\ u \o Tail(t) \in Seq(S) /\ Len(u \o Tail(t)) = Len(u) + Len(Tail(t))
        /\ \A i \in 1..(Len(u) + Len(Tail(t))) :
              (u \o Tail(t))[i] = IF i <= Len(u) THEN u[i] ELSE Tail(t)[i - Len(u)]
    BY <1>1, <1>2, ConcatProperties
  <2>2. Len(u) + Len(Tail(t)) = Len(s) + Len(t)
    BY <1>1, <1>2
  <2> QED
    BY <1>2, <2>1, <2>2
<1>4. /\ s \o t \in Seq(S) /\ Len(s \o t) = Len(s) + Len(t)
      /\ \A i \in 1..(Len(s) + Len(t)) :
            (s \o t)[i] = IF i <= Len(s) THEN s[i] ELSE t[i - Len(s)]
  BY ConcatProperties
<1>5. \A i \in 1..(Len(s) + Len(t)) : (u \o Tail(t))[i] = (s \o t)[i]
  <2> TAKE i \in 1..(Len(s) + Len(t))
  <2>1. CASE i <= Len(s)
    BY <1>1, <1>2, <1>3, <1>4, <2>1
  <2>2. CASE i = Len(s) + 1
    BY <1>1, <1>2, <1>3, <1>4, <2>2
  <2>3. CASE i > Len(s) + 1
    <3>1. i - (Len(s) + 1) \in 1..Len(Tail(t)) /\ (i - (Len(s) + 1)) + 1 = i - Len(s)
      BY <1>1, <2>3
    <3>2. Tail(t)[i - (Len(s) + 1)] = t[i - Len(s)]
      BY <1>1, <3>1
    <3> QED
      BY <1>1, <1>3, <1>4, <2>3, <3>2
  <2>4. i <= Len(s) \/ i = Len(s) + 1 \/ i > Len(s) + 1
    BY <1>1
  <2> QED
    BY <2>1, <2>2, <2>3, <2>4
<1>6. u \o Tail(t) = s \o t
  BY <1>3, <1>4, <1>5, SeqEqual
<1> QED
  BY <1>6 DEF u

(* The batch is the front of what waits, the channel the rest. *)
LEMMA ConcatParts ==
  ASSUME NEW S, NEW s \in Seq(S), NEW t \in Seq(S)
  PROVE  /\ SubSeq(s \o t, 1, Len(s)) = s
         /\ SubSeq(s \o t, Len(s) + 1, Len(s \o t)) = t
<1>1. /\ s \o t \in Seq(S) /\ Len(s \o t) = Len(s) + Len(t)
      /\ Len(s) \in Nat /\ Len(t) \in Nat
      /\ \A i \in 1..(Len(s) + Len(t)) :
            (s \o t)[i] = IF i <= Len(s) THEN s[i] ELSE t[i - Len(s)]
  BY ConcatProperties, LenProperties
<1> DEFINE w == s \o t
<1>2. \A i \in 1..(Len(s) + Len(t)) : w[i] \in S
  BY <1>1, ElementOfSeq
<1> HIDE DEF w
<1>3. w \in Seq(S) /\ Len(w) = Len(s) + Len(t)
      /\ \A i \in 1..Len(s) : w[i] = s[i]
  <2>1. \A i \in 1..Len(s) : i \in 1..(Len(s) + Len(t)) /\ i <= Len(s)
    BY <1>1
  <2> QED
    BY <1>1, <2>1 DEF w
<1>6. ASSUME NEW i \in 1..Len(t)
      PROVE  w[Len(s) + i] = t[i]
  <2>1. /\ Len(s) + i \in 1..(Len(s) + Len(t))
        /\ ~(Len(s) + i <= Len(s)) /\ (Len(s) + i) - Len(s) = i
    BY <1>1
  <2> QED
    BY <1>1, <2>1 DEF w
<1>4. SubSeq(w, 1, Len(s)) = s
  <2>1. /\ SubSeq(w, 1, Len(s)) \in Seq(S) /\ Len(SubSeq(w, 1, Len(s))) = Len(s)
        /\ \A i \in 1..Len(s) : SubSeq(w, 1, Len(s))[i] = w[i]
    <3>1. 1 \in Int /\ Len(s) \in Int /\ \A i \in 1..Len(s) : w[i] \in S
      BY <1>1, <1>2
    <3>2. /\ SubSeq(w, 1, Len(s)) \in Seq(S)
          /\ Len(SubSeq(w, 1, Len(s))) = IF 1 <= Len(s) THEN Len(s) - 1 + 1 ELSE 0
          /\ \A i \in 1..(Len(s) - 1 + 1) : SubSeq(w, 1, Len(s))[i] = w[1 + i - 1]
      BY <3>1, SubSeqProperties
    <3>3. Len(s) - 1 + 1 = Len(s) /\ \A i \in 1..Len(s) : 1 + i - 1 = i
      BY <1>1
    <3> QED
      BY <1>1, <3>2, <3>3
  <2> QED
    BY <1>3, <2>1, SeqEqual
<1>5. SubSeq(w, Len(s) + 1, Len(w)) = t
  <2> DEFINE rest == SubSeq(w, Len(s) + 1, Len(w))
  <2>1. /\ SubSeq(w, Len(s) + 1, Len(w)) \in Seq(S)
        /\ Len(SubSeq(w, Len(s) + 1, Len(w))) = Len(t)
        /\ \A i \in 1..Len(t) : SubSeq(w, Len(s) + 1, Len(w))[i] = w[Len(s) + i]
    <3>1. /\ Len(s) + 1 \in Int /\ Len(w) \in Int
          /\ \A i \in (Len(s) + 1)..Len(w) : w[i] \in S
      BY <1>1, <1>2, <1>3
    <3>2. /\ SubSeq(w, Len(s) + 1, Len(w)) \in Seq(S)
          /\ Len(SubSeq(w, Len(s) + 1, Len(w)))
                = IF Len(s) + 1 <= Len(w) THEN Len(w) - (Len(s) + 1) + 1 ELSE 0
          /\ \A i \in 1..(Len(w) - (Len(s) + 1) + 1) :
                SubSeq(w, Len(s) + 1, Len(w))[i] = w[(Len(s) + 1) + i - 1]
      BY <3>1, SubSeqProperties
    <3>3. /\ Len(w) - (Len(s) + 1) + 1 = Len(t)
          /\ \A i \in 1..Len(t) : (Len(s) + 1) + i - 1 = Len(s) + i
      BY <1>1, <1>3
    <3>4. (Len(s) + 1 <= Len(w)) <=> Len(t) # 0
      BY <1>1, <1>3
    <3> QED
      BY <1>1, <3>2, <3>3, <3>4
  <2>2. /\ rest \in Seq(S) /\ Len(rest) = Len(t)
        /\ \A i \in 1..Len(t) : rest[i] = w[Len(s) + i]
    BY <2>1
  <2> HIDE DEF rest
  <2>3. \A i \in 1..Len(t) : rest[i] = t[i]
    <3> TAKE i \in 1..Len(t)
    <3>1. rest[i] = w[Len(s) + i]
      BY <2>2
    <3>2. w[Len(s) + i] = t[i]
      BY <1>6
    <3> QED
      BY <3>1, <3>2
  <2>4. rest = t
    BY <2>2, <2>3, SeqEqual
  <2> QED
    BY <2>4 DEF rest
<1> QED
  BY <1>4, <1>5 DEF w

-----------------------------------------------------------------------------
(* The refinement *)

(* What waits, as a sequence of entries. *)
LEMMA WaitingIsPlain ==
  ASSUME TypeOK
  PROVE  /\ worker.batch \in Seq(Entry) /\ channel \in Seq(Entry)
         /\ Waiting \in Seq(Entry) /\ Len(Waiting) = Len(worker.batch) + Len(channel)
         /\ Len(worker.batch) \in Nat /\ Len(channel) \in Nat
         /\ SubSeq(Waiting, 1, Len(worker.batch)) = worker.batch
         /\ SubSeq(Waiting, Len(worker.batch) + 1, Len(Waiting)) = channel
<1>1. worker.batch \in Seq(Entry) /\ channel \in Seq(Entry)
  BY DEF TypeOK, Entry
<1>2. /\ Waiting \in Seq(Entry) /\ Len(Waiting) = Len(worker.batch) + Len(channel)
      /\ Len(worker.batch) \in Nat /\ Len(channel) \in Nat
  BY <1>1, ConcatProperties, LenProperties DEF Waiting
<1>3. /\ SubSeq(Waiting, 1, Len(worker.batch)) = worker.batch
      /\ SubSeq(Waiting, Len(worker.batch) + 1, Len(Waiting)) = channel
  BY <1>1, ConcatParts DEF Waiting
<1> QED
  BY <1>1, <1>2, <1>3

(* The batch, the channel and the table stay as they are. *)
QueueStays == worker'.batch = worker.batch /\ UNCHANGED <<channel, rows, nextId>>

(* Such a step changes nothing the abstract store speaks of. *)
LEMMA QueueStaysStutters ==
  QueueStays => UNCHANGED <<Waiting, rows, nextId>>
BY DEF QueueStays, Waiting

(* Init is the abstract one. *)
LEMMA InitRefines == Init => Promise!StoreInit
<1> SUFFICES ASSUME Init PROVE Promise!StoreInit
  OBVIOUS
<1>1. worker.batch = <<>> /\ channel = <<>>
  BY DEF Init, NoWorker
<1>2. Waiting = <<>>
  BY <1>1, EmptySeq, ConcatEmptySeq DEF Waiting
<1> QED
  BY <1>2 DEF Init, Promise!StoreInit

(* Entries are accepted in order, and lost when the process ends. *)
LEMMA ResidentRefines ==
  ASSUME HistoryInv,
         \/ StartHistory
         \/ \E at \in Times, kind \in Kinds, output \in {"Text", "Blank"} :
               EnqueueHistory(at, kind, output)
         \/ BeginDrop \/ FlushReturns \/ JoinReturns \/ Crash \/ Restart
  PROVE  Promise!StoreNext \/ UNCHANGED <<Waiting, rows, nextId>>
<1>0. TypeOK
  BY DEF HistoryInv
<1>1. CASE StartHistory
  <2>1. worker.batch = <<>>
    BY <1>1 DEF StartHistory, HistoryInv, WorkerIsTidy
  <2>2. worker'.batch = <<>>
    BY <1>1, <2>1 DEF StartHistory, IdleWorker, NoWorker
  <2> QED
    BY <1>1, <2>1, <2>2, QueueStaysStutters DEF StartHistory, QueueStays, fileVars
<1>2. ASSUME NEW at \in Times, NEW kind \in Kinds, NEW output \in {"Text", "Blank"},
             EnqueueHistory(at, kind, output)
      PROVE  Promise!StoreNext
  <2> DEFINE entry == [number |-> accepted + 1, at |-> at, kind |-> kind, output |-> output]
  <2>1. accepted + 1 \in 1..MaxEntries /\ output = "Text"
    BY <1>0, <1>2, ValuesArePlain DEF EnqueueHistory, TypeOK, Worthwhile
  <2>2. entry \in Entry
    BY <2>1 DEF Entry, Promise!Entry
  <2>3. channel' = Append(channel, entry) /\ UNCHANGED <<worker, rows, nextId>>
    BY <1>2 DEF EnqueueHistory, fileVars
  <2> HIDE DEF entry
  <2>4. Waiting' = Append(Waiting, entry)
    <3>1. worker.batch \in Seq(Entry) /\ channel \in Seq(Entry)
      BY <1>0, WaitingIsPlain
    <3>2. \A s \in Seq(Entry), t \in Seq(Entry), e \in Entry :
             s \o Append(t, e) = Append(s \o t, e)
      BY ConcatAppend
    <3>3. worker.batch \o Append(channel, entry) = Append(worker.batch \o channel, entry)
      BY <2>2, <3>1, <3>2
    <3> QED
      BY <2>3, <3>3 DEF Waiting
  <2> QED
    BY <2>2, <2>3, <2>4 DEF Promise!StoreNext, Promise!Accept, Entry
<1>3. CASE BeginDrop \/ FlushReturns \/ Restart
  BY <1>3, QueueStaysStutters DEF BeginDrop, FlushReturns, Restart, QueueStays, fileVars
<1>4. CASE JoinReturns \/ Crash
  <2>1. worker' = NoWorker /\ channel' = <<>> /\ UNCHANGED <<rows, nextId>>
    BY <1>4 DEF JoinReturns, Crash, EndProcess, fileVars
  <2>2. worker'.batch = <<>>
    BY <2>1 DEF NoWorker
  <2>3. Waiting' = <<>>
    BY <2>1, <2>2, EmptySeq, ConcatEmptySeq DEF Waiting
  <2>4. Waiting \in Seq(Entry)
    BY <1>0, WaitingIsPlain
  <2>5. CASE Waiting = <<>>
    BY <2>1, <2>3, <2>5
  <2>6. CASE Waiting # <<>>
    <3>1. Len(Waiting) \in Nat \ {0}
      BY <2>4, <2>6, EmptySeq
    <3>2. SubSeq(Waiting, Len(Waiting) + 1, Len(Waiting)) = <<>>
      BY <3>1, SubSeqEmpty
    <3>3. Len(Waiting) \in 1..Len(Waiting)
      BY <3>1
    <3>4. Promise!Lose(Len(Waiting))
      BY <2>1, <2>3, <3>2 DEF Promise!Lose
    <3> QED
      BY <3>3, <3>4 DEF Promise!StoreNext
  <2> QED
    BY <2>5, <2>6
<1> QED
  BY <1>1, <1>2, <1>3, <1>4

(* A batch is stored as a whole, pruned to the newest, or lost as a whole. *)
LEMMA WriterRefines ==
  ASSUME HistoryInv, Write
  PROVE  Promise!StoreNext \/ UNCHANGED <<Waiting, rows, nextId>>
<1>0. TypeOK
  BY DEF HistoryInv
<1>p. /\ worker.batch \in Seq(Entry) /\ channel \in Seq(Entry)
      /\ Waiting \in Seq(Entry) /\ Len(Waiting) = Len(worker.batch) + Len(channel)
      /\ Len(worker.batch) \in Nat /\ Len(channel) \in Nat
      /\ SubSeq(Waiting, 1, Len(worker.batch)) = worker.batch
      /\ SubSeq(Waiting, Len(worker.batch) + 1, Len(Waiting)) = channel
  BY <1>0, WaitingIsPlain
<1>1. CASE ReceiveEntry
  <2>1. /\ channel # <<>> /\ channel' = Tail(channel)
        /\ worker'.batch = Append(worker.batch, Head(channel)) /\ UNCHANGED <<rows, nextId>>
    BY <1>1 DEF ReceiveEntry, fileVars
  <2>2. Waiting' = Waiting
    BY <1>p, <2>1, ConcatMove DEF Waiting
  <2> QED
    BY <2>1, <2>2
<1>2. CASE ReceiveFlush \/ StopReceiving \/ WorkerEnds
  <2>1. worker'.batch = worker.batch
    BY <1>0, <1>2 DEF ReceiveFlush, StopReceiving, WorkerEnds, TypeOK
  <2> QED
    BY <1>2, <2>1, QueueStaysStutters
       DEF ReceiveFlush, StopReceiving, WorkerEnds, QueueStays, fileVars
<1>3. ASSUME NEW outcome \in {"Persisted", "Lost"}, EndBatch(outcome)
      PROVE  /\ Waiting' = SubSeq(Waiting, Len(worker.batch) + 1, Len(Waiting))
             /\ worker.batch = <<>> => Waiting' = Waiting
  <2>1. worker'.batch = <<>> /\ channel' = channel
    BY <1>3 DEF EndBatch, IdleWorker
  <2>2. <<>> \o channel = channel
    BY <1>p, ConcatEmptySeq
  <2> QED
    BY <1>p, <2>1, <2>2 DEF Waiting
<1>4. worker.batch # <<>> => Len(worker.batch) \in 1..Len(Waiting)
  <2>1. worker.batch # <<>> => Len(worker.batch) \in Nat \ {0}
    BY <1>p, EmptySeq
  <2> QED
    BY <1>p, <2>1
<1>5. CASE LoseBatch
  <2>1. EndBatch("Lost") /\ UNCHANGED <<rows, nextId>> /\ worker.batch # <<>>
    BY <1>5 DEF LoseBatch
  <2>2. Promise!Lose(Len(worker.batch))
    BY <1>3, <2>1 DEF Promise!Lose
  <2> QED
    BY <1>4, <2>1, <2>2 DEF Promise!StoreNext
<1>6. CASE WriteBatch
  <2>1. EndBatch("Persisted")
    BY <1>6 DEF WriteBatch
  <2>2. CASE worker.batch = <<>>
    BY <1>3, <1>6, <2>1, <2>2 DEF WriteBatch
  <2>3. CASE worker.batch # <<>>
    <3> DEFINE all == rows \cup Promise!NewRows(worker.batch, nextId)
    <3>1. rows' = Pruned(all) /\ nextId' = nextId + Len(worker.batch)
      BY <1>6, <2>3 DEF WriteBatch, FirstId
    <3>2. /\ all \in SUBSET Row /\ IsFiniteSet(all)
          /\ \A row, other \in all : row.id = other.id => row = other
          /\ Pruned(all) \subseteq all
      BY <1>p, BatchIsApart
    <3>3. all = rows \cup Promise!NewRows(SubSeq(Waiting, 1, Len(worker.batch)), nextId)
      BY <1>p
    <3> HIDE DEF all
    <3>4. Promise!AreNewest(Pruned(all), all)
      BY <3>2, PrunedIsNewest
    <3>5. \E kept \in SUBSET all : Promise!AreNewest(kept, all) /\ rows' = kept
      BY <3>1, <3>2, <3>4
    <3>6. Promise!Store(Len(worker.batch))
      BY <1>3, <2>1, <3>1, <3>3, <3>5 DEF Promise!Store
    <3> QED
      BY <1>4, <2>3, <3>6 DEF Promise!StoreNext
  <2> QED
    BY <2>2, <2>3
<1> QED
  BY <1>1, <1>2, <1>5, <1>6 DEF Write

(* Of the pages only a confirmed deletion touches the table, and takes the  *)
(* row it showed.                                                           *)
LEMMA DeletionTakesWhatWasShown ==
  ASSUME HistoryInv, NEW m \in Managers, ConfirmDelete(m)
  PROVE  /\ page[m].row \in rows /\ rows' = rows \ {page[m].row}
         /\ UNCHANGED <<Waiting, nextId>>
<1> DEFINE hit == {row \in rows : row.id = page[m].row.id}
<1>1. /\ page[m].goal = "Confirm" /\ hit # {} /\ rows' = rows \ hit
      /\ UNCHANGED <<nextId, residentVars>>
  BY DEF ConfirmDelete
<1>2. page[m].row \in Row
  BY <1>1 DEF HistoryInv, ShownIsKnown
<1>3. page[m].row \in Shown(m)
  BY <1>2, ValuesArePlain DEF Shown
<1>4. \A row \in rows : row.id = page[m].row.id => row = page[m].row
  BY <1>3 DEF HistoryInv, ShownIsKnown
<1>5. hit = {page[m].row}
  BY <1>1, <1>4
<1> HIDE DEF hit
<1>6. UNCHANGED <<Waiting, nextId>>
  BY <1>1 DEF residentVars, Waiting
<1>7. page[m].row \in rows
  BY <1>5 DEF hit
<1> QED
  BY <1>1, <1>5, <1>6, <1>7

(* Every step is one of HistoryStore or changes nothing it speaks of. *)
LEMMA StepRefines ==
  ASSUME HistoryInv, [Next]_vars
  PROVE  Promise!StoreNext \/ UNCHANGED <<Waiting, rows, nextId>>
<1>1. ASSUME NEW p \in Processes, ReadVersion(p) \/ ReadTables(p) \/ CreateTables(p) \/ OpenFails(p)
      PROVE  UNCHANGED <<Waiting, rows, nextId>>
  <2>1. QueueStays
    BY <1>1 DEF ReadVersion, ReadTables, CreateTables, OpenFails, QueueStays, fileVars, residentVars
  <2> QED
    BY <2>1, QueueStaysStutters
<1>2. ASSUME NEW m \in Managers, AskRefresh(m) \/ Refresh(m) \/ AskDelete(m) \/ EndDelete(m)
      PROVE  UNCHANGED <<Waiting, rows, nextId>>
  <2>1. QueueStays
    BY <1>2 DEF AskRefresh, Refresh, AskDelete, EndDelete, QueueStays, fileVars, residentVars
  <2> QED
    BY <2>1, QueueStaysStutters
<1>3. ASSUME NEW m \in Managers, ConfirmDelete(m)
      PROVE  Promise!StoreNext
  <2>1. Promise!Delete(page[m].row) /\ page[m].row \in rows
    BY <1>3, DeletionTakesWhatWasShown DEF Promise!Delete
  <2> QED
    BY <2>1 DEF Promise!StoreNext
<1>4. CASE UNCHANGED vars
  <2>1. QueueStays
    BY <1>4 DEF vars, fileVars, residentVars, QueueStays
  <2> QED
    BY <2>1, QueueStaysStutters
<1> QED
  BY <1>1, <1>2, <1>3, <1>4, ResidentRefines, WriterRefines DEF Next

-----------------------------------------------------------------------------
(* Theorems *)

(* In every reachable state the queue, the batch, the rows and the pages    *)
(* are as HistoryInv says: nothing follows the flush, batches grow within   *)
(* the collecting thread only, no two rows share an id, and the row of a    *)
(* confirmation box is still the only one that can have its id.             *)
THEOREM InvariantCorrect == Spec => []HistoryInv
<1>1. HistoryInv /\ [Next]_vars => HistoryInv'
  BY StepKeepsInv
<1> QED
  BY InitHasInv, <1>1, PTL DEF Spec

(* The variables hold what the code's types allow. *)
THEOREM TypeCorrect == Spec => []TypeOK
<1>1. HistoryInv => TypeOK
  BY DEF HistoryInv
<1> QED
  BY InvariantCorrect, <1>1, PTL

(* The flush of Drop is never answered while an accepted entry is left in   *)
(* the channel or in the batch (history_writer.rs flush).                   *)
THEOREM FlushAnswersForAllCorrect == Spec => []FlushAnswersForAll
<1>1. HistoryInv => FlushAnswersForAll
  <2> SUFFICES ASSUME HistoryInv, flush \in {"Persisted", "Lost"}
               PROVE  Waiting = <<>>
    BY DEF FlushAnswersForAll
  <2>1. channel = <<>> /\ worker.batch = <<>>
    BY DEF HistoryInv, FlushIsLast, WorkerIsTidy, TypeOK
  <2> QED
    BY <2>1, EmptySeq, ConcatEmptySeq DEF Waiting
<1> QED
  BY InvariantCorrect, <1>1, PTL

(* A confirmed deletion takes exactly the row that its box showed           *)
(* (delete_history, delete_one), whatever was pruned, inserted or deleted   *)
(* while the box was open.                                                  *)
THEOREM DeletesWhatWasShownCorrect == Spec => DeletesWhatWasShown
<1>1. ASSUME HistoryInv, [Next]_vars, NEW m \in Managers,
             page[m].goal = "Confirm", page'[m].goal = "Refresh"
      PROVE  rows \ rows' = {page[m].row}
  <2>1. CASE ConfirmDelete(m)
    BY <1>1, <2>1, DeletionTakesWhatWasShown
  <2>2. ASSUME NEW n \in Managers, n # m,
               AskRefresh(n) \/ Refresh(n) \/ AskDelete(n) \/ ConfirmDelete(n) \/ EndDelete(n)
        PROVE  page'[m] = page[m]
    BY <1>1, <2>2 DEF AskRefresh, Refresh, AskDelete, ConfirmDelete, EndDelete,
                      HistoryInv, TypeOK
  <2>3. CASE AskRefresh(m) \/ Refresh(m) \/ AskDelete(m) \/ EndDelete(m)
    BY <1>1, <2>3 DEF AskRefresh, Refresh, AskDelete, EndDelete, HistoryInv, TypeOK
  <2>4. CASE UNCHANGED page
    BY <1>1, <2>4
  <2>5. \/ UNCHANGED page
        \/ \E n \in Managers : \/ AskRefresh(n) \/ Refresh(n) \/ AskDelete(n)
                              \/ ConfirmDelete(n) \/ EndDelete(n)
    BY <1>1 DEF Next, vars, ReadVersion, ReadTables, CreateTables, OpenFails,
                StartHistory, EnqueueHistory, BeginDrop, FlushReturns, JoinReturns, Crash,
                EndProcess, Restart, Write, ReceiveEntry, ReceiveFlush, StopReceiving,
                WriteBatch, LoseBatch, EndBatch, WorkerEnds
  <2> QED
    BY <1>1, <2>1, <2>2, <2>3, <2>4, <2>5
<1>2. HistoryInv /\ [Next]_vars
      => [\A m \in Managers :
            page[m].goal = "Confirm" /\ page'[m].goal = "Refresh"
            => rows \ rows' = {page[m].row}]_vars
  BY <1>1
<1> QED
  BY InvariantCorrect, <1>2, PTL DEF Spec, DeletesWhatWasShown

(* The writer, the SQLite store and the history pages together implement    *)
(* HistoryStore: accepted entries leave the front of the queue in whole     *)
(* batches, each stored once or lost, the table keeps the newest rows of    *)
(* what it was given, and besides that only a deletion takes a row away.    *)
THEOREM HistoryStoreImplemented == Spec => ImplementsHistoryStore
<1>1. HistoryInv /\ [Next]_vars => [Promise!StoreNext]_<<Waiting, rows, nextId>>
  BY StepRefines
<1> QED
  BY InitRefines, InvariantCorrect, <1>1, PTL
     DEF Spec, ImplementsHistoryStore, Promise!StoreSpec, Promise!storeVars

=============================================================================
