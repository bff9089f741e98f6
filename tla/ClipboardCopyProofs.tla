------------------------ MODULE ClipboardCopyProofs ------------------------
(***************************************************************************)
(* The borrowed clipboard for any number of extractions, writes by other   *)
(* programs and owner windows, and any modulus of the sequence number that *)
(* does not come round within them.                                        *)
(*                                                                         *)
(* What the worker compares are numbers; what it promises is about         *)
(* contents.  Distance ties the two: within one extraction the number has  *)
(* moved as far from the snapshot's as others took steps of a write, so an *)
(* equal number is an equal content.  What was settled, read and restored  *)
(* follows from where the numbers stood; that a calm extraction gives the  *)
(* clipboard back, from what calm excludes at each place (CalmIsUntouched).*)
(***************************************************************************)
EXTENDS ClipboardCopy, TLAPS

(* Steps from one sequence number to another. *)
Distance(from, to) == IF to >= from THEN to - from ELSE to - from + SeqMod

(* Steps of writes by other programs so far. *)
Steps == 2 * writes - (IF writer = "Nobody" THEN 0 ELSE 1)

(* The clipboard is cloned and not yet given back or given up. *)
Borrowed == {"Send", "Inject", "Await", "Reconsider", "Settle", "Observe", "Read",
             "Restore", "Reopen"}

SinceSnapshot == Distance(snapshot.sequence, clip.sequence)

(* Calls are served in order, and each injects Copy twice at most. *)
CallsInOrder ==
    /\ serving <= calls
    /\ slot # Shutdown => slot <= calls
    /\ slot \notin {0, Shutdown} => serving < slot
    /\ serving # 0 <=> pc \in Running

AskedIsBounded ==
    /\ pc = "Reconsider" => ~retried
    /\ asked <= IF serving # 0
                THEN 2 * (serving - 1) + (IF retried THEN 1 ELSE 0)
                     + (IF pc \in {"Snapshot", "Send", "Inject"} THEN 0 ELSE 1)
                ELSE IF slot \in 1..MaxCalls THEN 2 * (slot - 1) ELSE 2 * calls

(* Contents are numbered by the writes. *)
WritesAreNumbered == clip.content.write <= writes /\ snapshot.content.write <= writes

(* The number moved by one for every step of a write since the snapshot. *)
NumberCountsWrites ==
    pc \in Borrowed =>
        /\ SinceSnapshot + 2 * snapshot.content.write <= Steps
        /\ SinceSnapshot = 0 => clip.content = snapshot.content /\ writer = "Nobody"
        /\ SinceSnapshot > 0 => clip.content.write = writes

(* Where the worker is, it has seen a change or has not. *)
CopyIsObserved ==
    /\ copy # NoCopy => pc \in {"Read", "Restore", "Reopen", "Reply"} /\ copy.sequence = seen
    /\ pc \in {"Read", "Reopen"} => copy # NoCopy

(* While the number is the one seen, the content is. *)
SeenIsKnown ==
    pc \in {"Settle", "Observe"} \/ (pc \in Borrowed /\ copy # NoCopy) =>
        /\ Distance(snapshot.sequence, seen) \in 1..SinceSnapshot
        /\ clip.sequence = seen => clip.content = seenContent

ResultIsNew ==
    result.ok => pc \in {"Restore", "Reopen", "Reply"} /\ result.text # snapshot.content

(* What calm leaves as it was. *)
CalmIsUntouched ==
    calm =>
        /\ pc \in {"Idle", "Snapshot", "Send", "Inject", "Reconsider", "Reply"}
              => clip.content = snapshot.content
        /\ pc = "Restore" /\ copy = NoCopy => clip.content = snapshot.content
        /\ pc = "Observe" => clip.sequence = seen
        /\ pc \in {"Read", "Restore", "Reopen"} /\ copy # NoCopy
              => clip.sequence = copy.sequence /\ clip.owner = copy.owner

CopyInv ==
    /\ TypeOK
    /\ CallsInOrder
    /\ AskedIsBounded
    /\ WritesAreNumbered
    /\ NumberCountsWrites
    /\ CopyIsObserved
    /\ SeenIsKnown
    /\ ResultIsNew
    /\ CalmIsUntouched

-----------------------------------------------------------------------------
(* Numbers *)

(* The constants. *)
LEMMA ConstantsArePlain ==
  /\ MaxCalls \in Nat /\ MaxWrites \in Nat /\ SeqMod \in Nat
  /\ SeqMod > 2 * MaxWrites + 2 * MaxCalls
BY ClipboardAssumption

(* One or two steps on, wrapping at most once. *)
LEMMA StepsOn ==
  ASSUME NEW x \in Sequences, NEW k \in 0..SeqMod
  PROVE  /\ (x + k) % SeqMod \in Sequences
         /\ (x + k) % SeqMod = IF x + k < SeqMod THEN x + k ELSE x + k - SeqMod
BY ConstantsArePlain DEF Sequences

(* A step takes a number one further from every other but its successor. *)
LEMMA DistanceGrows ==
  ASSUME NEW from \in Sequences, NEW to \in Sequences,
         Distance(from, to) + 1 < SeqMod
  PROVE  /\ Distance(from, (to + 1) % SeqMod) = Distance(from, to) + 1
         /\ (to + 1) % SeqMod \in Sequences
<1> DEFINE next == (to + 1) % SeqMod
<1>1. 1 \in 0..SeqMod
  BY ConstantsArePlain DEF Sequences
<1>2. next \in Sequences /\ next = IF to + 1 < SeqMod THEN to + 1 ELSE to + 1 - SeqMod
  BY <1>1, StepsOn
<1> HIDE DEF next
<1>3. Distance(from, next) = Distance(from, to) + 1
  BY <1>2, ConstantsArePlain DEF Distance, Sequences
<1> QED
  BY <1>2, <1>3 DEF next

(* Distances are numbers, and tell numbers apart. *)
LEMMA DistanceApart ==
  ASSUME NEW from \in Sequences, NEW to \in Sequences
  PROVE  /\ Distance(from, to) \in 0..(SeqMod - 1)
         /\ Distance(from, to) = 0 <=> from = to
         /\ \A other \in Sequences : Distance(from, to) = Distance(from, other) <=> to = other
BY ConstantsArePlain DEF Distance, Sequences

-----------------------------------------------------------------------------
(* Init *)

(* Nothing is borrowed at first. *)
LEMMA InitHasInv ==
  ASSUME Init
  PROVE  CopyInv
<1>1. TypeOK
  <2>1. 0 \in Sequences /\ SeqMod - 1 \in Sequences
    BY ConstantsArePlain DEF Sequences
  <2>2. clip \in Clipboards
    <3>1. PICK start \in {0, SeqMod - 1}, owner \in OwnerSignals :
              clip = [sequence |-> start, owner |-> owner,
                      content |-> [by |-> "User", write |-> 0]]
      BY DEF Init
    <3> QED
      BY <2>1, <3>1, ConstantsArePlain DEF Clipboards, Contents
  <2>3. NoContent \in Contents
    BY ConstantsArePlain DEF NoContent, Contents
  <2>4. Failed \in Results /\ NoCopy \in Observations
    BY <2>3 DEF Failed, Results, Observations
  <2>5. 0 \in 0..MaxWrites /\ 0 \in 0..(2 * MaxCalls) /\ 0 \in 0..MaxCalls
    BY ConstantsArePlain
  <2> QED
    BY <2>1, <2>2, <2>3, <2>4, <2>5 DEF Init, TypeOK
<1>2. clip.content.write = 0
  BY DEF Init
<1> QED
  BY <1>1, <1>2, ConstantsArePlain
     DEF CopyInv, Init, CallsInOrder, AskedIsBounded, WritesAreNumbered, NumberCountsWrites,
         CopyIsObserved, SeenIsKnown, ResultIsNew, CalmIsUntouched, Borrowed, Running,
         Shutdown, Failed, TypeOK

-----------------------------------------------------------------------------
(* The worker steps that only move on *)

(* A request taken. *)
LEMMA ReceiveKeepsInv ==
  ASSUME CopyInv, Receive
  PROVE  CopyInv'
BY ConstantsArePlain
   DEF CopyInv, Receive, outside, TypeOK, CallsInOrder, AskedIsBounded, WritesAreNumbered,
       NumberCountsWrites, SinceSnapshot, Steps, CopyIsObserved, SeenIsKnown, ResultIsNew,
       CalmIsUntouched, Borrowed, Running, Shutdown

(* The end of the loop. *)
LEMMA ExitKeepsInv ==
  ASSUME CopyInv, Exit
  PROVE  CopyInv'
BY ConstantsArePlain
   DEF CopyInv, Exit, outside, callers, TypeOK, CallsInOrder, AskedIsBounded,
       WritesAreNumbered, NumberCountsWrites, SinceSnapshot, Steps, CopyIsObserved,
       SeenIsKnown, ResultIsNew, CalmIsUntouched, Borrowed, Running, Shutdown

(* The response, and the end of what the extraction knew. *)
LEMMA ReplyKeepsInv ==
  ASSUME CopyInv, Reply
  PROVE  CopyInv'
<1>1. TypeOK'
  <2>1. 0 \in Sequences /\ NoContent \in Contents /\ 0 \in 0..MaxCalls
    BY ConstantsArePlain DEF Sequences, NoContent, Contents
  <2>2. Failed \in Results /\ NoCopy \in Observations
    BY <2>1 DEF Failed, Results, Observations
  <2> QED
    BY <2>1, <2>2 DEF CopyInv, Reply, NoExtraction, outside, TypeOK
<1>2. AskedIsBounded'
  BY DEF CopyInv, Reply, NoExtraction, outside, TypeOK, CallsInOrder, AskedIsBounded,
         Running, Shutdown
<1> QED
  BY <1>1, <1>2, ConstantsArePlain
     DEF CopyInv, Reply, NoExtraction, outside, TypeOK, CallsInOrder, Failed, NoCopy,
         WritesAreNumbered, NumberCountsWrites, SinceSnapshot, Steps, CopyIsObserved,
         SeenIsKnown, ResultIsNew, CalmIsUntouched, Borrowed, Running, Shutdown

(* No clone. *)
LEMMA RefuseSnapshotKeepsInv ==
  ASSUME CopyInv, RefuseSnapshot
  PROVE  CopyInv'
BY ConstantsArePlain
   DEF CopyInv, RefuseSnapshot, outside, callers, TypeOK, CallsInOrder, AskedIsBounded,
       WritesAreNumbered, NumberCountsWrites, SinceSnapshot, Steps, CopyIsObserved,
       SeenIsKnown, ResultIsNew, CalmIsUntouched, Borrowed, Running, Shutdown

(* The checks before the keys pass. *)
LEMMA ApproveCopyKeepsInv ==
  ASSUME CopyInv, ApproveCopy
  PROVE  CopyInv'
BY ConstantsArePlain
   DEF CopyInv, ApproveCopy, outside, callers, TypeOK, CallsInOrder, AskedIsBounded,
       WritesAreNumbered, NumberCountsWrites, SinceSnapshot, Steps, CopyIsObserved,
       SeenIsKnown, ResultIsNew, CalmIsUntouched, Borrowed, Running, Shutdown, SignalsUnchanged

(* The checks before the keys fail. *)
LEMMA RefuseCopyKeepsInv ==
  ASSUME CopyInv, RefuseCopy
  PROVE  CopyInv'
BY ConstantsArePlain
   DEF CopyInv, RefuseCopy, outside, callers, TypeOK, CallsInOrder, AskedIsBounded,
       WritesAreNumbered, NumberCountsWrites, SinceSnapshot, Steps, CopyIsObserved,
       SeenIsKnown, ResultIsNew, CalmIsUntouched, Borrowed, Running, Shutdown

(* The number never moved. *)
LEMMA TimeOutKeepsInv ==
  ASSUME CopyInv, TimeOut
  PROVE  CopyInv'
<1>1. CalmIsUntouched'
  <2>1. SinceSnapshot = 0
    BY ConstantsArePlain
       DEF CopyInv, TypeOK, TimeOut, SinceSnapshot, Distance, Clipboards, Sequences
  <2> QED
    BY <2>1 DEF CopyInv, TimeOut, AfterTimeOut, outside, callers, NumberCountsWrites,
                CopyIsObserved, CalmIsUntouched, Borrowed
<1> QED
  BY <1>1, ConstantsArePlain
     DEF CopyInv, TimeOut, AfterTimeOut, outside, callers, TypeOK, CallsInOrder, AskedIsBounded,
         WritesAreNumbered, NumberCountsWrites, SinceSnapshot, Steps, CopyIsObserved,
         SeenIsKnown, ResultIsNew, Borrowed, Running, Shutdown

(* The second Copy. *)
LEMMA RetryKeepsInv ==
  ASSUME CopyInv, Retry
  PROVE  CopyInv'
BY ConstantsArePlain
   DEF CopyInv, Retry, outside, callers, TypeOK, CallsInOrder, AskedIsBounded,
       WritesAreNumbered, NumberCountsWrites, SinceSnapshot, Steps, CopyIsObserved,
       SeenIsKnown, ResultIsNew, CalmIsUntouched, Borrowed, Running, Shutdown, SignalsUnchanged

(* No second Copy. *)
LEMMA NoRetryKeepsInv ==
  ASSUME CopyInv, NoRetry
  PROVE  CopyInv'
BY ConstantsArePlain
   DEF CopyInv, NoRetry, outside, callers, TypeOK, CallsInOrder, AskedIsBounded,
       WritesAreNumbered, NumberCountsWrites, SinceSnapshot, Steps, CopyIsObserved,
       SeenIsKnown, ResultIsNew, CalmIsUntouched, Borrowed, Running, Shutdown

(* Nothing to read. *)
LEMMA ReadNothingKeepsInv ==
  ASSUME CopyInv, ReadNothing
  PROVE  CopyInv'
BY ConstantsArePlain
   DEF CopyInv, ReadNothing, outside, callers, TypeOK, CallsInOrder, AskedIsBounded,
       WritesAreNumbered, NumberCountsWrites, SinceSnapshot, Steps, CopyIsObserved,
       SeenIsKnown, ResultIsNew, CalmIsUntouched, Borrowed, Running, Shutdown

(* Whether to restore, as far as can be seen without opening. *)
LEMMA ConsiderRestoreKeepsInv ==
  ASSUME CopyInv, ConsiderRestore
  PROVE  CopyInv'
<1>1. CalmIsUntouched'
  <2>1. copy # NoCopy => snapshot.sequence # copy.sequence
    BY ConstantsArePlain
       DEF CopyInv, TypeOK, ConsiderRestore, CopyIsObserved, SeenIsKnown, SinceSnapshot, Distance,
           Borrowed, Clipboards, Sequences
  <2> QED
    BY <2>1 DEF CopyInv, ConsiderRestore, ShouldRestore, IsSequenceAdvance, outside, callers,
                CopyIsObserved, CalmIsUntouched, Borrowed
<1> QED
  BY <1>1, ConstantsArePlain
     DEF CopyInv, ConsiderRestore, ShouldRestore, outside, callers, TypeOK, CallsInOrder, AskedIsBounded,
         WritesAreNumbered, NumberCountsWrites, SinceSnapshot, Steps, CopyIsObserved,
         SeenIsKnown, ResultIsNew, Borrowed, Running, Shutdown

(* Whether to restore, seen again. *)
LEMMA RestoreRefusedKeepsInv ==
  ASSUME CopyInv, RestoreRefused
  PROVE  CopyInv'
<1>1. CalmIsUntouched'
  <2>1. copy # NoCopy => snapshot.sequence # copy.sequence
    BY ConstantsArePlain
       DEF CopyInv, TypeOK, RestoreRefused, CopyIsObserved, SeenIsKnown, SinceSnapshot, Distance,
           Borrowed, Clipboards, Sequences
  <2> QED
    BY <2>1 DEF CopyInv, RestoreRefused, ShouldRestore, IsSequenceAdvance, outside, callers,
                CopyIsObserved, CalmIsUntouched, Borrowed
<1> QED
  BY <1>1, ConstantsArePlain
     DEF CopyInv, RestoreRefused, ShouldRestore, outside, callers, TypeOK, CallsInOrder, AskedIsBounded,
         WritesAreNumbered, NumberCountsWrites, SinceSnapshot, Steps, CopyIsObserved,
         SeenIsKnown, ResultIsNew, Borrowed, Running, Shutdown

(* The clone is lost. *)
LEMMA RestoreFailsKeepsInv ==
  ASSUME CopyInv, RestoreFails
  PROVE  CopyInv'
BY ConstantsArePlain
   DEF CopyInv, RestoreFails, outside, callers, TypeOK, CallsInOrder, AskedIsBounded,
       WritesAreNumbered, NumberCountsWrites, SinceSnapshot, Steps, CopyIsObserved,
       SeenIsKnown, ResultIsNew, CalmIsUntouched, Borrowed, Running, Shutdown

-----------------------------------------------------------------------------
(* The callers *)

(* A call, or a call refused. *)
LEMMA CallKeepsInv ==
  ASSUME CopyInv, Call
  PROVE  CopyInv'
BY ConstantsArePlain
   DEF CopyInv, Call, outside, worker, TypeOK, CallsInOrder, AskedIsBounded,
       WritesAreNumbered, NumberCountsWrites, SinceSnapshot, Steps, CopyIsObserved,
       SeenIsKnown, ResultIsNew, CalmIsUntouched, Borrowed, Running, Shutdown

(* A caller that waits no longer. *)
LEMMA GiveUpKeepsInv ==
  ASSUME CopyInv, GiveUp
  PROVE  CopyInv'
BY ConstantsArePlain
   DEF CopyInv, GiveUp, outside, worker, TypeOK, CallsInOrder, AskedIsBounded,
       WritesAreNumbered, NumberCountsWrites, SinceSnapshot, Steps, CopyIsObserved,
       SeenIsKnown, ResultIsNew, CalmIsUntouched, Borrowed, Running, Shutdown

(* The sender goes. *)
LEMMA DropKeepsInv ==
  ASSUME CopyInv, Drop
  PROVE  CopyInv'
BY ConstantsArePlain
   DEF CopyInv, Drop, outside, worker, TypeOK, CallsInOrder, AskedIsBounded,
       WritesAreNumbered, NumberCountsWrites, SinceSnapshot, Steps, CopyIsObserved,
       SeenIsKnown, ResultIsNew, CalmIsUntouched, Borrowed, Running, Shutdown

(* The process may end under the worker. *)
LEMMA ProcessEndsKeepsInv ==
  ASSUME CopyInv, ProcessEnds
  PROVE  CopyInv'
<1>1. TypeOK'
  <2>1. 0 \in Sequences /\ NoContent \in Contents /\ 0 \in 0..MaxCalls
    BY ConstantsArePlain DEF Sequences, NoContent, Contents
  <2>2. Failed \in Results /\ NoCopy \in Observations
    BY <2>1 DEF Failed, Results, Observations
  <2> QED
    BY <2>1, <2>2 DEF CopyInv, ProcessEnds, NoExtraction, outside, TypeOK
<1>2. AskedIsBounded'
  BY DEF CopyInv, ProcessEnds, NoExtraction, outside, TypeOK, CallsInOrder, AskedIsBounded,
         Running, Shutdown
<1> QED
  BY <1>1, <1>2, ConstantsArePlain
     DEF CopyInv, ProcessEnds, NoExtraction, outside, TypeOK, CallsInOrder, Failed, NoCopy,
         WritesAreNumbered, NumberCountsWrites, SinceSnapshot, Steps, CopyIsObserved,
         SeenIsKnown, ResultIsNew, CalmIsUntouched, Borrowed, Running, Shutdown

-----------------------------------------------------------------------------
(* The worker steps that look at the clipboard *)

(* The keys, injected or perhaps injected. *)
LEMMA InjectKeepsInv ==
  ASSUME CopyInv, Inject
  PROVE  CopyInv'
<1>1. asked' \in {asked, asked + 1} /\ partial' \in BOOLEAN
  BY DEF CopyInv, TypeOK, Inject
<1>2. AskedIsBounded' /\ asked' \in 0..(2 * MaxCalls)
  BY <1>1, ConstantsArePlain
     DEF CopyInv, Inject, callers, TypeOK, CallsInOrder, AskedIsBounded, Running
<1>3. TypeOK'
  BY <1>1, <1>2 DEF CopyInv, Inject, callers, TypeOK, Running
<1> QED
  BY <1>2, <1>3
     DEF CopyInv, Inject, callers, CallsInOrder, WritesAreNumbered, NumberCountsWrites,
         SinceSnapshot, Steps, CopyIsObserved, SeenIsKnown, ResultIsNew, CalmIsUntouched,
         Borrowed, Running

(* The clone is taken while nobody writes. *)
LEMMA TakeSnapshotKeepsInv ==
  ASSUME CopyInv, TakeSnapshot
  PROVE  CopyInv'
<1>1. SinceSnapshot' = 0
  BY ConstantsArePlain
     DEF CopyInv, TypeOK, TakeSnapshot, outside, SinceSnapshot, Distance, Clipboards, Sequences
<1>2. NumberCountsWrites'
  BY <1>1 DEF CopyInv, TypeOK, TakeSnapshot, outside, NumberCountsWrites, WritesAreNumbered,
              Steps, Clipboards, Contents
<1> QED
  BY <1>2, ConstantsArePlain
     DEF CopyInv, TakeSnapshot, outside, callers, TypeOK, CallsInOrder, AskedIsBounded,
         WritesAreNumbered, CopyIsObserved, SeenIsKnown, ResultIsNew, CalmIsUntouched,
         Borrowed, Running

(* The number moved. *)
LEMMA SeeChangeKeepsInv ==
  ASSUME CopyInv, SeeChange
  PROVE  CopyInv'
<1>1. SinceSnapshot \in Nat \ {0}
  BY ConstantsArePlain
     DEF CopyInv, TypeOK, SeeChange, SinceSnapshot, Distance, Clipboards, Sequences
<1>2. SeenIsKnown'
  BY <1>1 DEF CopyInv, SeeChange, outside, SeenIsKnown, SinceSnapshot
<1> QED
  BY <1>2, ConstantsArePlain
     DEF CopyInv, SeeChange, outside, callers, TypeOK, CallsInOrder, AskedIsBounded,
         WritesAreNumbered, NumberCountsWrites, SinceSnapshot, Steps, CopyIsObserved,
         ResultIsNew, CalmIsUntouched, Borrowed, Running, Clipboards

(* It moved again. *)
LEMMA SeeMoreKeepsInv ==
  ASSUME CopyInv, SeeMore
  PROVE  CopyInv'
<1>1. SinceSnapshot \in Nat \ {0}
  <2>1. SinceSnapshot \in Nat /\ Distance(snapshot.sequence, seen) \in 1..SinceSnapshot
    BY DistanceApart DEF CopyInv, TypeOK, SeeMore, SinceSnapshot, SeenIsKnown, Clipboards
  <2> QED
    BY <2>1
<1>2. SeenIsKnown'
  BY <1>1 DEF CopyInv, SeeMore, outside, SeenIsKnown, SinceSnapshot
<1> QED
  BY <1>2, ConstantsArePlain
     DEF CopyInv, SeeMore, outside, callers, TypeOK, CallsInOrder, AskedIsBounded,
         WritesAreNumbered, NumberCountsWrites, SinceSnapshot, Steps, CopyIsObserved,
         ResultIsNew, CalmIsUntouched, Borrowed, Running, Clipboards

(* It stood still; a program in the middle of a write is a disturbance. *)
LEMMA SettledKeepsInv ==
  ASSUME CopyInv, Settled
  PROVE  CopyInv'
BY ConstantsArePlain
   DEF CopyInv, Settled, outside, callers, TypeOK, CallsInOrder, AskedIsBounded,
       WritesAreNumbered, NumberCountsWrites, SinceSnapshot, Steps, CopyIsObserved,
       SeenIsKnown, ResultIsNew, CalmIsUntouched, Borrowed, Running

(* The owner is read after the number. *)
LEMMA ObserveKeepsInv ==
  ASSUME CopyInv, Observe
  PROVE  CopyInv'
<1>1. snapshot.sequence # seen /\ seen \in Sequences /\ clip.owner \in OwnerSignals
  BY ConstantsArePlain
     DEF CopyInv, TypeOK, Observe, SeenIsKnown, SinceSnapshot, Distance, Clipboards, Sequences
<1> DEFINE seenNow == [sequence |-> seen, owner |-> clip.owner]
<1>2. copy' = seenNow
  BY <1>1 DEF Observe, IsSequenceAdvance
<1>3. /\ seenNow \in Observations /\ seenNow # NoCopy
      /\ seenNow.sequence = seen /\ seenNow.owner = clip.owner
  BY <1>1, ConstantsArePlain DEF Observations, NoCopy, Sequences
<1> HIDE DEF seenNow
<1>4. TypeOK'
  BY <1>2, <1>3 DEF CopyInv, TypeOK, Observe, outside, callers, Running
<1> QED
  BY <1>2, <1>3, <1>4, ConstantsArePlain
     DEF CopyInv, Observe, outside, callers, CallsInOrder, AskedIsBounded,
         WritesAreNumbered, NumberCountsWrites, SinceSnapshot, Steps, CopyIsObserved,
         SeenIsKnown, ResultIsNew, CalmIsUntouched, Borrowed, Running

(* What is read was written after the snapshot. *)
LEMMA ReadTextKeepsInv ==
  ASSUME CopyInv, ReadText
  PROVE  CopyInv'
<1>1. clip.content.write = writes
  <2>1. SinceSnapshot \in Nat /\ Distance(snapshot.sequence, seen) \in 1..SinceSnapshot
    BY DistanceApart
       DEF CopyInv, TypeOK, ReadText, SinceSnapshot, SeenIsKnown, CopyIsObserved, Borrowed,
           Clipboards
  <2> QED
    BY <2>1 DEF CopyInv, ReadText, NumberCountsWrites, Borrowed
<1>2. snapshot.content.write < writes
  <2>1. SinceSnapshot \in Nat /\ Distance(snapshot.sequence, seen) \in 1..SinceSnapshot
    BY DistanceApart
       DEF CopyInv, TypeOK, ReadText, SinceSnapshot, SeenIsKnown, CopyIsObserved, Borrowed,
           Clipboards
  <2> QED
    BY <2>1 DEF CopyInv, TypeOK, ReadText, NumberCountsWrites, Borrowed, Steps, Clipboards,
                Contents
<1>3. ResultIsNew'
  BY <1>1, <1>2 DEF CopyInv, TypeOK, ReadText, outside, ResultIsNew, Clipboards, Contents
<1>4. TypeOK'
  BY DEF CopyInv, TypeOK, ReadText, outside, callers, Running, Results, Clipboards
<1> QED
  BY <1>3, <1>4, ConstantsArePlain
     DEF CopyInv, ReadText, outside, callers, CallsInOrder, AskedIsBounded,
         WritesAreNumbered, NumberCountsWrites, SinceSnapshot, Steps, CopyIsObserved,
         SeenIsKnown, CalmIsUntouched, Borrowed, Running

-----------------------------------------------------------------------------
(* The steps that write the clipboard *)

(* A step of a write moves the number on from everything it was since the  *)
(* snapshot: there are fewer steps than numbers.                           *)
LEMMA WriteMovesOn ==
  ASSUME CopyInv, Steps < 2 * MaxWrites
  PROVE  /\ SequenceAfter(1) \in Sequences
         /\ pc \in Borrowed =>
               Distance(snapshot.sequence, SequenceAfter(1)) = SinceSnapshot + 1
         /\ pc \in {"Settle", "Observe"} \/ (pc \in Borrowed /\ copy # NoCopy) =>
               seen # SequenceAfter(1)
<1>1. clip.sequence \in Sequences /\ snapshot.sequence \in Sequences /\ seen \in Sequences
  BY DEF CopyInv, TypeOK, Clipboards
<1>2. SequenceAfter(1) \in Sequences
  BY <1>1, StepsOn, ConstantsArePlain DEF SequenceAfter
<1>3. ASSUME pc \in Borrowed
      PROVE  Distance(snapshot.sequence, SequenceAfter(1)) = SinceSnapshot + 1
  <2>1. SinceSnapshot \in Nat
    BY <1>1, DistanceApart DEF SinceSnapshot
  <2>2. SinceSnapshot <= Steps
    BY <1>3, <2>1 DEF CopyInv, TypeOK, NumberCountsWrites, Steps, Clipboards, Contents
  <2>3. SinceSnapshot + 1 < SeqMod
    BY <2>1, <2>2, ConstantsArePlain DEF CopyInv, TypeOK, Steps
  <2> QED
    BY <1>1, <2>3, DistanceGrows DEF SinceSnapshot, SequenceAfter
<1>4. ASSUME pc \in {"Settle", "Observe"} \/ (pc \in Borrowed /\ copy # NoCopy)
      PROVE  seen # SequenceAfter(1)
  <2>1. pc \in Borrowed
    BY <1>4 DEF Borrowed
  <2>2. Distance(snapshot.sequence, seen) <= SinceSnapshot /\ SinceSnapshot \in Nat
    BY <1>1, <1>4, DistanceApart DEF CopyInv, SeenIsKnown, SinceSnapshot
  <2>3. Distance(snapshot.sequence, SequenceAfter(1)) = SinceSnapshot + 1
    BY <1>3, <2>1
  <2> QED
    BY <2>2, <2>3
<1> QED
  BY <1>2, <1>3, <1>4

(* What a step of a write leaves behind; the two of them share it. *)
LEMMA WriteKeepsObservations ==
  ASSUME CopyInv, Steps < 2 * MaxWrites, Steps' = Steps + 1, clip' \in Clipboards,
         clip'.sequence = SequenceAfter(1), clip'.content.write = writes',
         pc' = pc, snapshot' = snapshot, seen' = seen, seenContent' = seenContent,
         copy' = copy
  PROVE  NumberCountsWrites' /\ SeenIsKnown'
<1>1. SinceSnapshot \in Nat
  BY DistanceApart DEF CopyInv, TypeOK, SinceSnapshot, Clipboards
<1>2. pc \in Borrowed => SinceSnapshot' = SinceSnapshot + 1
  BY WriteMovesOn DEF SinceSnapshot
<1>3. NumberCountsWrites'
  <2>1. Steps \in Int /\ snapshot.content.write \in Int
    BY DEF CopyInv, TypeOK, Steps, Clipboards, Contents
  <2> QED
    BY <1>1, <1>2, <2>1 DEF CopyInv, NumberCountsWrites
<1>4. SeenIsKnown'
  <2> SUFFICES ASSUME pc \in {"Settle", "Observe"} \/ (pc \in Borrowed /\ copy # NoCopy)
               PROVE  /\ Distance(snapshot.sequence, seen) \in 1..SinceSnapshot'
                      /\ clip'.sequence # seen
    BY DEF SeenIsKnown
  <2>1. pc \in Borrowed
    BY DEF Borrowed
  <2>2. Distance(snapshot.sequence, seen) \in 1..SinceSnapshot
    BY DEF CopyInv, SeenIsKnown
  <2> QED
    BY <1>1, <1>2, <2>1, <2>2, WriteMovesOn
<1> QED
  BY <1>3, <1>4

(* A program empties the clipboard. *)
LEMMA OpenAndEmptyKeepsInv ==
  ASSUME CopyInv, NEW by \in {"User", "Copy"}, NEW owner \in OwnerSignals,
         OpenAndEmpty(by, owner)
  PROVE  CopyInv'
<1>1. Steps < 2 * MaxWrites /\ Steps' = Steps + 1
  BY ConstantsArePlain DEF CopyInv, TypeOK, OpenAndEmpty, Steps
<1>2. writes' \in 0..MaxWrites /\ writes' = writes + 1
  BY ConstantsArePlain DEF CopyInv, TypeOK, OpenAndEmpty
<1> DEFINE next == SequenceAfter(1)
<1>3. next \in Sequences
  BY <1>1, WriteMovesOn
<1>4. clip' = [sequence |-> next, owner |-> owner,
               content |-> [by |-> "Nobody", write |-> writes']]
  BY <1>2 DEF OpenAndEmpty
<1> HIDE DEF next
<1>5. clip' \in Clipboards /\ clip'.sequence = next /\ clip'.content.write = writes'
  BY <1>2, <1>3, <1>4 DEF Clipboards, Contents
<1>6. asked' \in 0..(2 * MaxCalls) /\ asked' <= asked
  BY ConstantsArePlain DEF CopyInv, TypeOK, OpenAndEmpty
<1>7. NumberCountsWrites' /\ SeenIsKnown'
  BY <1>1, <1>5, WriteKeepsObservations DEF OpenAndEmpty, worker, next
<1>8. TypeOK'
  BY <1>2, <1>5, <1>6
     DEF CopyInv, TypeOK, OpenAndEmpty, callers, worker, Undisturbed
<1>9. AskedIsBounded'
  BY <1>6, ConstantsArePlain
     DEF CopyInv, TypeOK, AskedIsBounded, OpenAndEmpty, callers, worker
<1>10. WritesAreNumbered'
  BY <1>2, <1>5
     DEF CopyInv, TypeOK, WritesAreNumbered, OpenAndEmpty, worker, Clipboards, Contents
<1>11. CalmIsUntouched'
  BY DEF CalmIsUntouched, OpenAndEmpty, Undisturbed, worker
<1>12. CallsInOrder' /\ CopyIsObserved' /\ ResultIsNew'
  BY DEF CopyInv, CallsInOrder, CopyIsObserved, ResultIsNew, OpenAndEmpty, callers, worker
<1> QED
  BY <1>7, <1>8, <1>9, <1>10, <1>11, <1>12 DEF CopyInv

(* It fills it. *)
LEMMA FillAndCloseKeepsInv ==
  ASSUME CopyInv, FillAndClose
  PROVE  CopyInv'
<1>1. Steps < 2 * MaxWrites /\ Steps' = Steps + 1
  BY ConstantsArePlain DEF CopyInv, TypeOK, FillAndClose, Steps
<1> DEFINE next == SequenceAfter(1)
<1>2. next \in Sequences
  BY <1>1, WriteMovesOn
<1>3. /\ clip' \in Clipboards /\ clip'.sequence = next
      /\ clip'.content.write = clip.content.write
  <2>1. clip' = [clip EXCEPT !.sequence = next, !.content.by = writer]
    BY DEF FillAndClose
  <2>2. writer \in {"User", "Copy"} /\ clip \in Clipboards
    BY DEF CopyInv, TypeOK, FillAndClose
  <2> HIDE DEF next
  <2> QED
    BY <1>2, <2>1, <2>2 DEF Clipboards, Contents
<1> HIDE DEF next
<1>4. NumberCountsWrites' /\ SeenIsKnown'
  <2>1. SinceSnapshot \in Nat
    BY DistanceApart DEF CopyInv, TypeOK, SinceSnapshot, Clipboards
  <2>2. CASE pc \in Borrowed
    <3>1. clip.content.write = writes
      BY <2>1, <2>2 DEF CopyInv, NumberCountsWrites, FillAndClose
    <3> QED
      BY <1>1, <1>3, <3>1, WriteKeepsObservations DEF FillAndClose, worker, next
  <2>3. CASE pc \notin Borrowed
    BY <2>3 DEF NumberCountsWrites, SeenIsKnown, FillAndClose, worker, Borrowed
  <2> QED
    BY <2>2, <2>3
<1>5. TypeOK'
  BY <1>3 DEF CopyInv, TypeOK, FillAndClose, callers, worker, Undisturbed
<1> QED
  BY <1>3, <1>4, <1>5
     DEF CopyInv, TypeOK, CallsInOrder, AskedIsBounded, WritesAreNumbered, CopyIsObserved,
         ResultIsNew, CalmIsUntouched, FillAndClose, Undisturbed, callers, worker

(* The owner's window goes. *)
LEMMA OwnerClosesKeepsInv ==
  ASSUME CopyInv, OwnerCloses
  PROVE  CopyInv'
<1>1. /\ clip' \in Clipboards
      /\ clip'.sequence = clip.sequence /\ clip'.content = clip.content
  BY DEF CopyInv, TypeOK, OwnerCloses, Clipboards, OwnerSignals
<1>2. TypeOK'
  BY <1>1 DEF CopyInv, TypeOK, OwnerCloses, callers, worker
<1>3. WritesAreNumbered' /\ NumberCountsWrites' /\ SeenIsKnown'
  BY <1>1 DEF CopyInv, WritesAreNumbered, NumberCountsWrites, SinceSnapshot, Steps,
              SeenIsKnown, OwnerCloses, worker
<1>4. CalmIsUntouched'
  BY DEF CalmIsUntouched, OwnerCloses
<1>5. CallsInOrder' /\ AskedIsBounded' /\ CopyIsObserved' /\ ResultIsNew'
  BY DEF CopyInv, CallsInOrder, AskedIsBounded, CopyIsObserved, ResultIsNew, OwnerCloses,
         callers, worker
<1> QED
  BY <1>2, <1>3, <1>4, <1>5 DEF CopyInv

(* The clone goes back, or the clipboard stays emptied. *)
LEMMA RestoreSnapshotKeepsInv ==
  ASSUME CopyInv, RestoreSnapshot
  PROVE  CopyInv'
<1> DEFINE one == SequenceAfter(1)
           two == SequenceAfter(2)
<1>1. one \in Sequences /\ two \in Sequences
  <2>1. 1 \in 0..SeqMod /\ 2 \in 0..SeqMod
    BY ConstantsArePlain DEF CopyInv, TypeOK, CallsInOrder, RestoreSnapshot, Running
  <2> QED
    BY <2>1, StepsOn DEF CopyInv, TypeOK, Clipboards, SequenceAfter
<1>2. \/ /\ clip' = [sequence |-> two, owner |-> NoOwner, content |-> snapshot.content]
         /\ calm' = calm
      \/ /\ clip' = [sequence |-> one, owner |-> NoOwner, content |-> NoContent]
         /\ calm' = FALSE
  BY DEF RestoreSnapshot
<1> HIDE DEF one, two
<1>3. /\ clip' \in Clipboards
      /\ clip'.content.write <= writes
      /\ calm' \in BOOLEAN
      /\ calm' => clip'.content = snapshot.content
  <2>1. NoOwner \in OwnerSignals /\ snapshot.content \in Contents
    BY DEF CopyInv, TypeOK, OwnerSignals, Clipboards
  <2>2. NoContent \in Contents /\ NoContent.write = 0 /\ writes \in Nat
    BY ConstantsArePlain DEF CopyInv, TypeOK, NoContent, Contents
  <2>3. snapshot.content.write <= writes /\ calm \in BOOLEAN
    BY DEF CopyInv, TypeOK, WritesAreNumbered
  <2>4. CASE /\ clip' = [sequence |-> two, owner |-> NoOwner, content |-> snapshot.content]
             /\ calm' = calm
    <3>1. clip' \in Clipboards /\ clip'.content = snapshot.content
      BY <1>1, <2>1, <2>4 DEF Clipboards
    <3> QED
      BY <2>3, <2>4, <3>1
  <2>5. CASE /\ clip' = [sequence |-> one, owner |-> NoOwner, content |-> NoContent]
             /\ calm' = FALSE
    <3>1. clip' \in Clipboards /\ clip'.content = NoContent
      BY <1>1, <2>1, <2>2, <2>5 DEF Clipboards
    <3>2. clip'.content.write <= writes
      BY <2>2, <3>1
    <3>3. calm' \in BOOLEAN /\ ~calm'
      BY <2>5
    <3> QED
      BY <3>1, <3>2, <3>3
  <2> QED
    BY <1>2, <2>4, <2>5
<1>4. TypeOK'
  BY <1>3 DEF CopyInv, TypeOK, RestoreSnapshot, callers, Running
<1> QED
  BY <1>3, <1>4
     DEF CopyInv, CallsInOrder, AskedIsBounded, WritesAreNumbered, NumberCountsWrites,
         CopyIsObserved, SeenIsKnown, ResultIsNew, CalmIsUntouched, RestoreSnapshot,
         callers, Borrowed, Running

-----------------------------------------------------------------------------
(* The theorems *)

(* Every step of the others keeps what the invariant says. *)
LEMMA OthersKeepInv ==
  ASSUME CopyInv, Others
  PROVE  CopyInv'
<1>1. ASSUME NEW by \in {"User", "Copy"}, NEW owner \in OwnerSignals, OpenAndEmpty(by, owner)
      PROVE  CopyInv'
  BY <1>1, OpenAndEmptyKeepsInv
<1> QED
  BY <1>1, FillAndCloseKeepsInv, OwnerClosesKeepsInv, CallKeepsInv, GiveUpKeepsInv,
     DropKeepsInv, ProcessEndsKeepsInv
     DEF Others

(* Every step of the worker does. *)
LEMMA WorkerKeepsInv ==
  ASSUME CopyInv, Worker
  PROVE  CopyInv'
BY ReceiveKeepsInv, ExitKeepsInv, ReplyKeepsInv, TakeSnapshotKeepsInv,
   RefuseSnapshotKeepsInv, ApproveCopyKeepsInv, RefuseCopyKeepsInv, InjectKeepsInv,
   SeeChangeKeepsInv, TimeOutKeepsInv, RetryKeepsInv, NoRetryKeepsInv, SeeMoreKeepsInv,
   SettledKeepsInv, ObserveKeepsInv, ReadTextKeepsInv, ReadNothingKeepsInv,
   ConsiderRestoreKeepsInv, RestoreSnapshotKeepsInv, RestoreRefusedKeepsInv,
   RestoreFailsKeepsInv
   DEF Worker

(* Nothing happens. *)
LEMMA StutterKeepsInv ==
  ASSUME CopyInv, UNCHANGED vars
  PROVE  CopyInv'
BY DEF CopyInv, TypeOK, CallsInOrder, AskedIsBounded, WritesAreNumbered, NumberCountsWrites,
       SinceSnapshot, Steps, CopyIsObserved, SeenIsKnown, ResultIsNew, CalmIsUntouched,
       vars, outside, callers, worker

(* The inductive invariant: how far the sequence number moved since the    *)
(* snapshot, and what each place of the worker has seen of it.             *)
THEOREM InvariantCorrect == Spec => []CopyInv
<1>1. CopyInv /\ [Next]_vars => CopyInv'
  BY OthersKeepInv, WorkerKeepsInv, StutterKeepsInv DEF Next
<1> QED
  BY <1>1, InitHasInv, PTL DEF Spec

(* Every variable has its type, however many extractions are asked. *)
THEOREM TypeCorrect == Spec => []TypeOK
<1>1. CopyInv => TypeOK
  BY DEF CopyInv
<1> QED
  BY <1>1, InvariantCorrect, PTL

(* An extraction nothing came across leaves the clipboard as it was, after *)
(* one Copy or two and across any wrap of the sequence number.             *)
THEOREM ClipboardComesBackCorrect == Spec => []ClipboardComesBack
<1>1. CopyInv => ClipboardComesBack
  BY DEF CopyInv, CalmIsUntouched, ClipboardComesBack
<1> QED
  BY <1>1, InvariantCorrect, PTL

(* The text that is returned was written after the snapshot. *)
THEOREM OldClipboardIsNotTheAnswerCorrect == Spec => []OldClipboardIsNotTheAnswer
<1>1. CopyInv => OldClipboardIsNotTheAnswer
  BY DEF CopyInv, ResultIsNew, OldClipboardIsNotTheAnswer
<1> QED
  BY <1>1, InvariantCorrect, PTL

(* Restoring replaces the content that settled and no later one: the       *)
(* number that is checked with the clipboard open is still its number.     *)
THEOREM RestoreReplacesWhatSettledCorrect == Spec => RestoreReplacesWhatSettled
<1>1. CopyInv /\ [Next]_vars => [RestoreSnapshot => clip.content = seenContent]_vars
  BY DEF CopyInv, CopyIsObserved, SeenIsKnown, Borrowed, RestoreSnapshot, StillOurs,
         ShouldRestore
<1> QED
  BY <1>1, InvariantCorrect, PTL DEF Spec, RestoreReplacesWhatSettled

=============================================================================
