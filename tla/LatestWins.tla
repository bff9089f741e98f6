----------------------------- MODULE LatestWins -----------------------------
(***************************************************************************)
(* What the resident's message loop relies on when it asks for text: of    *)
(* the attempts it submitted it wants at most one, the latest; that one is *)
(* answered, every attempt is answered at most once, and an attempt that   *)
(* is no longer wanted may still be answered late or never.                *)
(* ExtractionMailbox.tla implements this, and the resident shell uses it.  *)
(***************************************************************************)
EXTENDS Integers, Sequences, SequencesExt

CONSTANT MaxAttempt     \* bound of the attempt counter for model checking

VARIABLES
    nextAttempt,    \* Pipeline::next_attempt
    wanted,         \* the attempt the message loop waits for, 0 for none
    open,           \* attempts that may still be answered
    answers         \* answers on their way to the message loop, oldest first

vars == <<nextAttempt, wanted, open, answers>>

Attempts == 1..MaxAttempt

TypeOK ==
    /\ nextAttempt \in 1..(MaxAttempt + 1)
    /\ wanted \in 0..MaxAttempt
    /\ open \subseteq Attempts
    /\ answers \in Seq(Attempts)

Init ==
    /\ nextAttempt = 1
    /\ wanted = 0
    /\ open = {}
    /\ answers = <<>>

(* A new attempt replaces the wanted one. *)
Submit ==
    /\ nextAttempt <= MaxAttempt
    /\ nextAttempt' = nextAttempt + 1
    /\ wanted' = nextAttempt
    /\ \E kept \in SUBSET open : open' = kept \cup {nextAttempt}
    /\ UNCHANGED answers

(* With no worker to take it the attempt fails at once. *)
Refuse ==
    /\ nextAttempt <= MaxAttempt
    /\ nextAttempt' = nextAttempt + 1
    /\ wanted' = nextAttempt
    /\ answers' = Append(answers, nextAttempt)
    /\ UNCHANGED open

Cancel ==
    /\ wanted' = 0
    /\ open' \in SUBSET open
    /\ UNCHANGED <<nextAttempt, answers>>

Answer(attempt) ==
    /\ attempt \in open
    /\ open' = open \ {attempt}
    /\ answers' = Append(answers, attempt)
    /\ UNCHANGED <<nextAttempt, wanted>>

Abandon(attempt) ==
    /\ attempt \in open \ {wanted}
    /\ open' = open \ {attempt}
    /\ UNCHANGED <<nextAttempt, wanted, answers>>

Deliver ==
    /\ answers # <<>>
    /\ answers' = Tail(answers)
    /\ wanted' = IF Head(answers) = wanted THEN 0 ELSE wanted
    /\ UNCHANGED <<nextAttempt, open>>

Next ==
    \/ Submit
    \/ Refuse
    \/ Cancel
    \/ \E attempt \in Attempts : Answer(attempt) \/ Abandon(attempt)
    \/ Deliver

Spec == Init /\ [][Next]_vars

-----------------------------------------------------------------------------
(* The wanted attempt can still be answered or its answer is on its way:   *)
(* the message loop never waits for nothing.                               *)
WantedIsServed == wanted # 0 => wanted \in open \cup ToSet(answers)

(* No attempt is answered twice, and none is answered that was not made.   *)
AnsweredOnce ==
    /\ IsInjective(answers)
    /\ open \cap ToSet(answers) = {}
    /\ \A attempt \in open \cup ToSet(answers) : attempt < nextAttempt
=============================================================================
