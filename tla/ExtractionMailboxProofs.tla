---------------------- MODULE ExtractionMailboxProofs ----------------------
(***************************************************************************)
(* The extraction mailbox for every number of attempts: stale work is      *)
(* cancelled, the sources are asked in order, and the mailbox with its     *)
(* worker implements LatestWins.                                           *)
(*                                                                         *)
(* None of the three is inductive.  StaleWorkIsCancelled needs to know     *)
(* that the request in the slot is the wanted one and which attempt the    *)
(* mailbox can still cancel (SlotIsWanted, ActiveIsRequest); dropping work *)
(* is allowed by LatestWins only because a wanted attempt is never         *)
(* cancelled (WantedIsNotCancelled); FallbackOrder needs to know at each   *)
(* stage what was asked before it (StageFollowsTrail).                     *)
(***************************************************************************)
EXTENDS ExtractionMailbox, TLAPS, SequenceTheorems

(* The slot is filled by Extract only, and emptied by whoever gives up the  *)
(* wanted attempt.                                                          *)
SlotIsWanted ==
    /\ slot # NoRequest => uiPc = "Idle" /\ slot.attempt = wanted
    /\ uiPc # "Idle" => wanted = 0
    /\ uiPc \in {"Idle", "Submitting"} => ~shuttingDown
    /\ pc = "Absent" => slot = NoRequest
    /\ uiPc = "Submitting" => nextAttempt <= MaxAttempt

(* The mailbox loses the worker's token only after it was cancelled. *)
ActiveIsRequest ==
    /\ Working => request \in Request
    /\ pc \in Stages \cup {"Complete"} => mailActive \in {0, request.attempt}
    /\ pc \notin Stages \cup {"Complete"} => mailActive = 0
    /\ Working /\ mailActive = 0 => request.attempt \in cancelled

WantedIsNotCancelled ==
    /\ wanted \notin cancelled
    /\ Working /\ request.attempt # wanted => request.attempt \in cancelled

(* An attempt is in one place only: the slot, the worker or the channel. *)
AttemptsAreApart ==
    /\ slot.attempt < nextAttempt /\ request.attempt < nextAttempt
    /\ wanted < nextAttempt
    /\ \A attempt \in cancelled : attempt < nextAttempt
    /\ Working => slot.attempt # request.attempt
    /\ \A i \in DOMAIN events :
          /\ events[i].attempt < nextAttempt
          /\ events[i].attempt # slot.attempt
          /\ Working => events[i].attempt # request.attempt
    /\ \A i, j \in DOMAIN events : events[i].attempt = events[j].attempt => i = j

(* The wanted attempt waits, is worked on or is answered. *)
WantedIsSomewhere ==
    \/ wanted = 0
    \/ wanted = slot.attempt
    \/ Working /\ wanted = request.attempt
    \/ \E i \in DOMAIN events : events[i].attempt = wanted

(* What a stage that asks a source knows of those asked before it. *)
StageFollowsTrail ==
    /\ pc \in Sources =>
          \A i \in DOMAIN trail :
             /\ trail[i].outcome \in Errors
             /\ trail[i] # [source |-> "Native", outcome |-> "Denied"]
    /\ pc = "Uia" => trail = <<>>
    /\ pc = "Native" => request.trigger = "Selection"
    /\ pc = "Clipboard" =>
          \/ request.trigger = "Manual"
          \/ /\ request.trigger = "Selection"
             /\ \E i \in DOMAIN trail : trail[i].source = "Native"
    /\ pc = "Enrich" => result \notin Errors /\ request.trigger # "Manual"

MailboxInv ==
    /\ TypeOK
    /\ SlotIsWanted
    /\ ActiveIsRequest
    /\ WantedIsNotCancelled
    /\ AttemptsAreApart
    /\ WantedIsSomewhere

TrailInv == StageFollowsTrail /\ FallbackOrder

Event == [attempt : Attempts, result : Outcomes]
Asked == [source : Sources, outcome : Outcomes]

(* The worker at one of its stages touches nothing the message loop sees,   *)
(* and leaves its stages for CompleteRequest only when it was cancelled.    *)
GoesOn ==
    /\ pc \in Stages
    /\ \/ pc' \in Stages
       \/ pc' = "Complete" /\ request.attempt \in cancelled
    /\ result' \in Outcomes
    /\ UNCHANGED <<uiVars, mailVars, cancelled, events, request>>

-----------------------------------------------------------------------------
(* What the two sequences hold, as functions on an interval. *)
LEMMA SequencesArePlain ==
  ASSUME TypeOK
  PROVE  /\ Len(events) \in Nat /\ DOMAIN events = 1..Len(events)
         /\ \A i \in DOMAIN events : events[i] \in Event
         /\ Len(trail) \in Nat /\ DOMAIN trail = 1..Len(trail)
         /\ \A i \in DOMAIN trail : trail[i] \in Asked
<1>1. events \in Seq(Event) /\ trail \in Seq(Asked)
  BY DEF TypeOK, Event, Asked
<1> QED
  BY <1>1, LenProperties, ElementOfSeq

(* A longer trail or channel, by its elements. *)
LEMMA Appended ==
  ASSUME NEW S, NEW s \in Seq(S), NEW e \in S
  PROVE  /\ Append(s, e) \in Seq(S)
         /\ Len(Append(s, e)) = Len(s) + 1
         /\ DOMAIN Append(s, e) = 1..(Len(s) + 1)
         /\ \A i \in 1..Len(s) : Append(s, e)[i] = s[i]
         /\ Append(s, e)[Len(s) + 1] = e
<1>1. Append(s, e) \in Seq(S) /\ Len(Append(s, e)) = Len(s) + 1
  BY AppendProperties
<1>2. DOMAIN Append(s, e) = 1..Len(Append(s, e))
  BY <1>1, LenProperties
<1> QED
  BY <1>1, <1>2, AppendProperties

(* The worker's own steps keep the invariant: only where it is changes. *)
LEMMA GoesOnKeepsInv ==
  ASSUME MailboxInv, GoesOn, trail' \in Seq(Asked)
  PROVE  MailboxInv'
<1>1. TypeOK'
  BY DEF MailboxInv, GoesOn, TypeOK, Asked, uiVars, mailVars, WorkerPcs, Stages
<1>2. SlotIsWanted' /\ ActiveIsRequest'
  BY DEF MailboxInv, GoesOn, SlotIsWanted, ActiveIsRequest, Working, uiVars, mailVars, Stages
<1>3. WantedIsNotCancelled' /\ AttemptsAreApart'
  BY DEF MailboxInv, GoesOn, WantedIsNotCancelled, AttemptsAreApart, Working, uiVars, mailVars
<1>4. WantedIsSomewhere'
  <2>1. CASE pc' \in Stages
    BY <2>1 DEF MailboxInv, GoesOn, WantedIsSomewhere, Working, uiVars, mailVars
  <2>2. CASE request.attempt \in cancelled
    <3>1. wanted # request.attempt
      BY <2>2 DEF MailboxInv, WantedIsNotCancelled
    <3> QED
      BY <3>1 DEF MailboxInv, GoesOn, WantedIsSomewhere, Working, uiVars, mailVars
  <2> QED
    BY <2>1, <2>2 DEF GoesOn
<1> QED
  BY <1>1, <1>2, <1>3, <1>4 DEF MailboxInv

(* A source that answered is added to the trail. *)
LEMMA TrailGrows ==
  ASSUME TypeOK, NEW source \in Sources, NEW outcome \in Outcomes
  PROVE  Append(trail, [source |-> source, outcome |-> outcome]) \in Seq(Asked)
<1>1. [source |-> source, outcome |-> outcome] \in Asked
  BY DEF Asked
<1> QED
  BY <1>1, AppendProperties DEF TypeOK, Asked

(* Every stage but the last is such a step. *)
StageStep == AskUia \/ AskNative \/ AskClipboard \/ AskOcr \/ Enrich \/ CheckBeforePost

(* Every such step keeps the worker at its request.                         *)
LEMMA StageStepGoesOn ==
  ASSUME MailboxInv, StageFollowsTrail, StageStep
  PROVE  GoesOn /\ trail' \in Seq(Asked)
<1> USE DEF Stages, uiVars, mailVars
<1>0. TypeOK
  BY DEF MailboxInv
<1>r. pc \in Stages => request.trigger \in Triggers
  BY DEF MailboxInv, ActiveIsRequest, Working, Request
<1>1. CASE AskUia
  <2>1. PICK outcome \in Outcomes : Ask("Uia", outcome, AfterUia(outcome))
    BY <1>1 DEF AskUia
  <2>2. \/ AfterUia(outcome) \in Stages
        \/ AfterUia(outcome) = "Complete" /\ request.attempt \in cancelled
    BY <1>1, <1>r DEF AskUia, AfterUia, IsCancelled, Triggers
  <2> QED
    BY <1>0, <1>1, <2>1, <2>2, TrailGrows DEF AskUia, Ask, GoesOn, Sources
<1>2. CASE AskNative
  <2>1. CASE Skip("Check")
    BY <1>0, <1>2, <2>1 DEF AskNative, Skip, GoesOn, TypeOK, Asked
  <2>2. CASE ~Skip("Check")
    <3>1. PICK outcome \in Outcomes :
             Ask("Native", outcome,
                 IF outcome \notin Errors THEN "Enrich"
                 ELSE IF FallbackAllowed(outcome) THEN "Clipboard" ELSE "Check")
      BY <1>2, <2>2 DEF AskNative
    <3> QED
      BY <1>0, <1>2, <3>1, TrailGrows DEF AskNative, Ask, GoesOn, Sources
  <2> QED
    BY <2>1, <2>2
<1>3. CASE AskClipboard
  <2>1. CASE Skip("Check")
    BY <1>0, <1>3, <2>1 DEF AskClipboard, Skip, GoesOn, TypeOK, Asked
  <2>2. CASE Skip("Ocr")
    BY <1>0, <1>3, <2>2 DEF AskClipboard, Skip, GoesOn, TypeOK, Asked
  <2>3. CASE ~Skip("Check") /\ ~Skip("Ocr")
    <3> DEFINE goto(outcome) ==
             CASE outcome \notin Errors /\ request.trigger = "Selection" -> "Enrich"
               [] outcome \notin Errors /\ request.trigger = "Manual"    -> "Check"
               [] outcome \in Errors ->
                     IF request.trigger = "Manual" \/ FallbackAllowed(outcome)
                     THEN "Ocr" ELSE "Check"
    <3>1. PICK outcome \in Outcomes \ {"Ok"} : Ask("Clipboard", outcome, goto(outcome))
      BY <1>3, <2>3 DEF AskClipboard
    <3>2. request.trigger \in {"Manual", "Selection"}
      BY <1>3 DEF AskClipboard, StageFollowsTrail
    <3>3. goto(outcome) \in {"Enrich", "Check", "Ocr"}
      BY <3>2
    <3> HIDE DEF goto
    <3> QED
      BY <1>0, <1>3, <3>1, <3>3, TrailGrows DEF AskClipboard, Ask, GoesOn, Sources
  <2> QED
    BY <2>1, <2>2, <2>3
<1>4. CASE AskOcr
  <2>1. CASE Skip("Check")
    BY <1>0, <1>4, <2>1 DEF AskOcr, Skip, GoesOn, TypeOK, Asked
  <2>2. CASE ~Skip("Check")
    BY <1>0, <1>4, <2>2, TrailGrows DEF AskOcr, Ask, GoesOn, Sources
  <2> QED
    BY <2>1, <2>2
<1>5. CASE Enrich
  <2>1. result \in {"Ok", "Bare"} /\ request.trigger \in {"Hover", "Selection"}
    BY <1>0, <1>5, <1>r DEF Enrich, StageFollowsTrail, TypeOK, Outcomes, Errors, Triggers
  <2> QED
    BY <1>0, <1>5, <2>1 DEF Enrich, GoesOn, TypeOK, Outcomes, Asked
<1>6. CASE CheckBeforePost
  BY <1>0, <1>6 DEF CheckBeforePost, Skip, GoesOn, TypeOK, Asked, IsCancelled
<1> QED
  BY <1>1, <1>2, <1>3, <1>4, <1>5, <1>6 DEF StageStep

-----------------------------------------------------------------------------
(* FallbackOrder by the elements of the trail. *)
OrderOf(t) ==
    /\ \A i \in 1..(Len(t) - 1) : t[i].outcome \in Errors
    /\ \A i \in DOMAIN t : t[i].source = "Clipboard" =>
          \/ request.trigger = "Manual"
          \/ /\ request.trigger = "Selection"
             /\ request.hasRect
             /\ \E j \in DOMAIN t : t[j].source = "Native"
    /\ \A i \in DOMAIN t :
          t[i] = [source |-> "Native", outcome |-> "Denied"] => i = Len(t)
    /\ \A i \in DOMAIN t : t[i].source = "Native" => request.trigger = "Selection"

(* The order is a property of the trail and of the request.                 *)
LEMMA FallbackOrderIs == FallbackOrder <=> OrderOf(trail)
BY DEF FallbackOrder, OrderOf

(* The same after a step that keeps the request.                            *)
LEMMA FallbackOrderNextIs == UNCHANGED request => (FallbackOrder' <=> OrderOf(trail'))
BY DEF FallbackOrder, OrderOf

(* One more source keeps the order when those before it failed and the      *)
(* source is allowed where the worker is.                                   *)
LEMMA OneMoreSource ==
  ASSUME TypeOK, StageFollowsTrail, FallbackOrder,
         NEW source \in Sources, NEW outcome \in Outcomes,
         pc = source,
         source = "Clipboard" => ClipboardAllowed
  PROVE  OrderOf(Append(trail, [source |-> source, outcome |-> outcome]))
<1> DEFINE new == [source |-> source, outcome |-> outcome]
           longer == Append(trail, new)
<1>1. /\ Len(longer) = Len(trail) + 1
      /\ DOMAIN longer = 1..(Len(trail) + 1)
      /\ \A i \in 1..Len(trail) : longer[i] = trail[i]
      /\ longer[Len(trail) + 1] = new
      /\ new.source = source /\ new.outcome = outcome
  <2>1. trail \in Seq(Asked) /\ new \in Asked
    BY DEF TypeOK, Asked
  <2> QED
    BY <2>1, Appended
<1>2. Len(trail) \in Nat /\ DOMAIN trail = 1..Len(trail)
  BY SequencesArePlain
<1>3. \A i \in DOMAIN trail :
         /\ trail[i].outcome \in Errors
         /\ trail[i] # [source |-> "Native", outcome |-> "Denied"]
  BY DEF StageFollowsTrail
<1>4. OrderOf(trail)
  BY FallbackOrderIs
<1> HIDE DEF longer, new
<1>5. \A i \in 1..(Len(longer) - 1) : longer[i].outcome \in Errors
  BY <1>1, <1>2, <1>3
<1>6. \A i \in DOMAIN longer : longer[i].source = "Clipboard" =>
          \/ request.trigger = "Manual"
          \/ /\ request.trigger = "Selection"
             /\ request.hasRect
             /\ \E j \in DOMAIN longer : longer[j].source = "Native"
  <2> SUFFICES ASSUME NEW i \in DOMAIN longer, longer[i].source = "Clipboard",
                      request.trigger # "Manual"
               PROVE  /\ request.trigger = "Selection"
                      /\ request.hasRect
                      /\ \E j \in DOMAIN longer : longer[j].source = "Native"
    OBVIOUS
  <2>1. CASE i \in 1..Len(trail)
    <3>1. PICK j \in DOMAIN trail : trail[j].source = "Native"
      BY <1>1, <1>2, <1>4, <2>1 DEF OrderOf
    <3> QED
      BY <1>1, <1>2, <1>4, <2>1, <3>1 DEF OrderOf
  <2>2. CASE i = Len(trail) + 1
    <3>1. source = "Clipboard"
      BY <1>1, <2>2
    <3>2. PICK j \in DOMAIN trail : trail[j].source = "Native"
      BY <3>1 DEF StageFollowsTrail
    <3> QED
      BY <1>1, <1>2, <3>1, <3>2 DEF ClipboardAllowed, StageFollowsTrail
  <2> QED
    BY <1>1, <1>2, <2>1, <2>2
<1>7. \A i \in DOMAIN longer :
         longer[i] = [source |-> "Native", outcome |-> "Denied"] => i = Len(longer)
  BY <1>1, <1>2, <1>3
<1>8. \A i \in DOMAIN longer : longer[i].source = "Native" => request.trigger = "Selection"
  BY <1>1, <1>2, <1>4 DEF OrderOf, StageFollowsTrail
<1> QED
  BY <1>5, <1>6, <1>7, <1>8 DEF OrderOf, longer, new

(* The worker's stages lead from one to the next as the trail says. *)
LEMMA StageStepKeepsTrail ==
  ASSUME MailboxInv, TrailInv, StageStep
  PROVE  TrailInv'
<1>0. TypeOK /\ StageFollowsTrail /\ FallbackOrder
  BY DEF MailboxInv, TrailInv
<1>r. pc \in Stages => request.trigger \in Triggers
  BY DEF MailboxInv, ActiveIsRequest, Working, Request
<1>u. UNCHANGED request
  BY <1>0, StageStepGoesOn DEF GoesOn
<1>f. OrderOf(trail') => FallbackOrder'
  BY <1>u, FallbackOrderNextIs
<1>s. ASSUME UNCHANGED trail PROVE FallbackOrder'
  BY <1>0, <1>u, <1>s DEF FallbackOrder
<1>l. /\ trail \in Seq(Asked)
      /\ Len(trail) \in Nat /\ DOMAIN trail = 1..Len(trail)
  BY <1>0, SequencesArePlain DEF TypeOK, Asked
(* What holds of a trail with one more source at the end. *)
<1>a. ASSUME NEW source \in Sources, NEW outcome \in Outcomes, pc = source,
             trail' = Append(trail, [source |-> source, outcome |-> outcome])
      PROVE  /\ DOMAIN trail' = 1..(Len(trail) + 1)
             /\ trail'[Len(trail) + 1] = [source |-> source, outcome |-> outcome]
             /\ \/ outcome \notin Errors
                \/ source = "Native" /\ outcome = "Denied"
                \/ \A i \in DOMAIN trail' :
                      /\ trail'[i].outcome \in Errors
                      /\ trail'[i] # [source |-> "Native", outcome |-> "Denied"]
  <2> DEFINE new == [source |-> source, outcome |-> outcome]
  <2>1. new \in Asked /\ new.source = source /\ new.outcome = outcome
    BY DEF Asked
  <2>2. /\ DOMAIN trail' = 1..(Len(trail) + 1)
        /\ \A i \in 1..Len(trail) : trail'[i] = trail[i]
        /\ trail'[Len(trail) + 1] = new
    BY <1>a, <1>l, <2>1, Appended
  <2>3. \A i \in DOMAIN trail :
           /\ trail[i].outcome \in Errors
           /\ trail[i] # [source |-> "Native", outcome |-> "Denied"]
    BY <1>0, <1>a DEF StageFollowsTrail
  <2>4. new = [source |-> "Native", outcome |-> "Denied"] =>
           source = "Native" /\ outcome = "Denied"
    BY <2>1
  <2> HIDE DEF new
  <2>5. ASSUME outcome \in Errors, ~(source = "Native" /\ outcome = "Denied"),
               NEW i \in DOMAIN trail'
        PROVE  /\ trail'[i].outcome \in Errors
               /\ trail'[i] # [source |-> "Native", outcome |-> "Denied"]
    <3>1. CASE i \in 1..Len(trail)
      BY <1>l, <2>2, <2>3, <3>1
    <3>2. CASE i = Len(trail) + 1
      BY <2>1, <2>2, <2>4, <2>5, <3>2
    <3> QED
      BY <1>l, <2>2, <3>1, <3>2
  <2> QED
    BY <2>2, <2>5 DEF new
<1>1. CASE AskUia
  <2>1. PICK outcome \in Outcomes : Ask("Uia", outcome, AfterUia(outcome))
    BY <1>1 DEF AskUia
  <2>2. trail' = Append(trail, [source |-> "Uia", outcome |-> outcome]) /\ pc = "Uia"
    BY <1>1, <2>1 DEF Ask, AskUia
  <2>3. OrderOf(trail')
    BY <1>0, <2>2, OneMoreSource DEF Sources
  <2>4. StageFollowsTrail'
    <3>1. CASE outcome \in Errors
      <4>1. \A i \in DOMAIN trail' :
               /\ trail'[i].outcome \in Errors
               /\ trail'[i] # [source |-> "Native", outcome |-> "Denied"]
        BY <1>a, <2>2, <3>1 DEF Sources
      <4>2. /\ pc' \in {"Ocr", "Clipboard", "Native", "Complete"}
            /\ pc' = "Clipboard" => request.trigger = "Manual"
            /\ pc' = "Native" => request.trigger = "Selection"
        BY <1>r, <2>1, <2>2, <3>1 DEF Ask, AfterUia, Triggers, Stages
      <4> QED
        BY <1>u, <4>1, <4>2 DEF StageFollowsTrail
    <3>2. CASE outcome \notin Errors
      <4>1. pc' \in {"Enrich", "Check", "Complete"} /\ result' = outcome
        BY <1>r, <2>1, <2>2, <3>2 DEF Ask, AfterUia, Triggers, Stages
      <4>2. pc' = "Enrich" => request.trigger # "Manual"
        BY <1>r, <2>1, <2>2, <3>2 DEF Ask, AfterUia, Triggers, Stages
      <4> QED
        BY <1>u, <3>2, <4>1, <4>2 DEF StageFollowsTrail, Sources
    <3> QED
      BY <3>1, <3>2
  <2> QED
    BY <1>f, <2>3, <2>4 DEF TrailInv
<1>2. CASE AskNative
  <2>1. CASE Skip("Check")
    BY <1>s, <1>2, <2>1 DEF AskNative, Skip, StageFollowsTrail, Sources, TrailInv
  <2>2. CASE ~Skip("Check")
    <3>1. PICK outcome \in Outcomes :
             Ask("Native", outcome,
                 IF outcome \notin Errors THEN "Enrich"
                 ELSE IF FallbackAllowed(outcome) THEN "Clipboard" ELSE "Check")
      BY <1>2, <2>2 DEF AskNative
    <3>2. trail' = Append(trail, [source |-> "Native", outcome |-> outcome]) /\ pc = "Native"
      BY <1>2, <3>1 DEF Ask, AskNative
    <3>3. OrderOf(trail')
      BY <1>0, <3>2, OneMoreSource DEF Sources
    <3>4. request.trigger = "Selection"
      BY <1>0, <3>2 DEF StageFollowsTrail
    <3>5. CASE outcome \in Errors /\ outcome # "Denied"
      <4>1. /\ \A i \in DOMAIN trail' :
               /\ trail'[i].outcome \in Errors
               /\ trail'[i] # [source |-> "Native", outcome |-> "Denied"]
            /\ \E i \in DOMAIN trail' : trail'[i].source = "Native"
        BY <1>a, <1>l, <3>2, <3>5 DEF Sources
      <4>2. pc' = "Clipboard"
        BY <3>1, <3>5 DEF Ask, FallbackAllowed
      <4> QED
        BY <1>f, <1>u, <3>3, <3>4, <4>1, <4>2 DEF StageFollowsTrail, TrailInv
    <3>6. CASE outcome = "Denied"
      BY <1>f, <3>1, <3>3, <3>6 DEF Ask, FallbackAllowed, Errors, StageFollowsTrail,
                                      Sources, TrailInv
    <3>7. CASE outcome \notin Errors
      BY <1>f, <1>u, <3>1, <3>3, <3>4, <3>7 DEF Ask, StageFollowsTrail, Sources, TrailInv
    <3> QED
      BY <3>5, <3>6, <3>7 DEF Errors
  <2> QED
    BY <2>1, <2>2
<1>3. CASE AskClipboard
  <2>1. CASE Skip("Check")
    BY <1>s, <1>3, <2>1 DEF AskClipboard, Skip, StageFollowsTrail, Sources, TrailInv
  <2>2. CASE Skip("Ocr")
    <3>1. \A i \in DOMAIN trail' :
             /\ trail'[i].outcome \in Errors
             /\ trail'[i] # [source |-> "Native", outcome |-> "Denied"]
      BY <1>0, <1>3, <2>2 DEF AskClipboard, Skip, StageFollowsTrail, Sources
    <3> QED
      BY <1>s, <2>2, <3>1 DEF Skip, StageFollowsTrail, Sources, TrailInv
  <2>3. CASE ~Skip("Check") /\ ~Skip("Ocr")
    <3> DEFINE goto(outcome) ==
             CASE outcome \notin Errors /\ request.trigger = "Selection" -> "Enrich"
               [] outcome \notin Errors /\ request.trigger = "Manual"    -> "Check"
               [] outcome \in Errors ->
                     IF request.trigger = "Manual" \/ FallbackAllowed(outcome)
                     THEN "Ocr" ELSE "Check"
    <3>1. PICK outcome \in Outcomes \ {"Ok"} : Ask("Clipboard", outcome, goto(outcome))
      BY <1>3, <2>3 DEF AskClipboard
    <3>2. ClipboardAllowed /\ pc = "Clipboard"
      BY <1>3, <2>3 DEF AskClipboard
    <3>3. request.trigger \in {"Manual", "Selection"}
      BY <1>0, <3>2 DEF StageFollowsTrail
    <3>4. trail' = Append(trail, [source |-> "Clipboard", outcome |-> outcome])
      BY <3>1 DEF Ask
    <3>5. OrderOf(trail')
      BY <1>0, <3>2, <3>4, OneMoreSource DEF Sources
    <3>6. CASE outcome \in Errors
      <4>1. \A i \in DOMAIN trail' :
               /\ trail'[i].outcome \in Errors
               /\ trail'[i] # [source |-> "Native", outcome |-> "Denied"]
        BY <1>a, <3>2, <3>4, <3>6 DEF Sources
      <4>2. pc' \in {"Ocr", "Check"}
        BY <3>1, <3>6 DEF Ask
      <4> QED
        BY <1>f, <3>5, <4>1, <4>2 DEF StageFollowsTrail, TrailInv
    <3>7. CASE outcome \notin Errors
      <4>1. pc' \in {"Enrich", "Check"} /\ result' = outcome
        BY <3>1, <3>3, <3>7 DEF Ask
      <4>2. pc' = "Enrich" => request.trigger # "Manual"
        BY <3>1, <3>3, <3>7 DEF Ask
      <4> QED
        BY <1>f, <1>u, <3>5, <3>7, <4>1, <4>2 DEF StageFollowsTrail, Sources, TrailInv
    <3> QED
      BY <3>6, <3>7
  <2> QED
    BY <2>1, <2>2, <2>3
<1>4. CASE AskOcr
  <2>1. CASE Skip("Check")
    BY <1>s, <1>4, <2>1 DEF AskOcr, Skip, StageFollowsTrail, Sources, TrailInv
  <2>2. CASE ~Skip("Check")
    <3>1. PICK outcome \in Outcomes : Ask("Ocr", outcome, "Check")
      BY <1>4, <2>2 DEF AskOcr
    <3>2. trail' = Append(trail, [source |-> "Ocr", outcome |-> outcome]) /\ pc = "Ocr"
      BY <1>4, <3>1 DEF Ask, AskOcr
    <3>3. OrderOf(trail')
      BY <1>0, <3>2, OneMoreSource DEF Sources
    <3> QED
      BY <1>f, <3>1, <3>3 DEF Ask, StageFollowsTrail, Sources, TrailInv
  <2> QED
    BY <2>1, <2>2
<1>5. CASE Enrich
  BY <1>s, <1>5 DEF Enrich, StageFollowsTrail, Sources, TrailInv
<1>6. CASE CheckBeforePost
  BY <1>s, <1>6 DEF CheckBeforePost, Skip, StageFollowsTrail, Sources, TrailInv
<1> QED
  BY <1>1, <1>2, <1>3, <1>4, <1>5, <1>6 DEF StageStep
-----------------------------------------------------------------------------
(* Everything else leaves the trail of the request in place or begins one. *)
LEMMA OtherStepsKeepTrail ==
  ASSUME MailboxInv, TrailInv, Next, ~StageStep
  PROVE  TrailInv'
<1> USE DEF TrailInv, StageFollowsTrail, Sources
<1>k. ASSUME UNCHANGED <<request, result, trail>>,
             UNCHANGED pc \/ pc' \notin Sources \cup {"Enrich"}
      PROVE  TrailInv'
  BY <1>k DEF FallbackOrder
<1>n. pc' = Notified(pc) => UNCHANGED pc \/ pc' \notin Sources \cup {"Enrich"}
  BY DEF Notified
<1>1. ASSUME NEW trigger \in Triggers, NEW hasRect \in BOOLEAN, Extract(trigger, hasRect)
      PROVE  TrailInv'
  BY <1>1, <1>k, <1>n DEF Extract, MailboxSubmit
<1>2. CASE BeginRequest \/ CancelExtraction \/ HandleExtraction \/ StopWaitingForWorker
  BY <1>2, <1>k DEF BeginRequest, CancelExtraction, HandleExtraction, StopWaitingForWorker,
                    workVars
<1>3. CASE DropWorker
  BY <1>3, <1>k, <1>n DEF DropWorker, MailboxShutdown
<1>4. CASE SpuriousWakeup
  BY <1>4, <1>k DEF SpuriousWakeup
<1>5. CASE TakeNext
  <2>1. CASE shuttingDown \/ slot = NoRequest
    BY <1>5, <1>k, <2>1 DEF TakeNext
  <2>2. CASE ~shuttingDown /\ slot # NoRequest
    <3>1. trail' = <<>> /\ pc' = "Uia"
      BY <1>5, <2>2 DEF TakeNext
    <3>2. Len(trail') = 0 /\ DOMAIN trail' = {}
      BY <3>1
    <3>3. FallbackOrder'
      BY <3>2 DEF FallbackOrder
    <3> QED
      BY <3>1, <3>2, <3>3
  <2> QED
    BY <2>1, <2>2
<1>6. CASE PostResult
  BY <1>6, <1>k DEF PostResult
<1>7. CASE CompleteRequest
  BY <1>7, <1>k DEF CompleteRequest
<1> QED
  BY <1>1, <1>2, <1>3, <1>4, <1>5, <1>6, <1>7 DEF Next, Worker, StageStep

-----------------------------------------------------------------------------
(* An answer of an attempt nobody else holds joins the channel. *)
LEMMA AnswerPosted ==
  ASSUME MailboxInv, NEW answer \in Event,
         events' = Append(events, answer)
  PROVE  /\ events' \in Seq(Event)
         /\ DOMAIN events' = 1..(Len(events) + 1)
         /\ \A i \in DOMAIN events : i \in DOMAIN events' /\ events'[i] = events[i]
         /\ \A i \in DOMAIN events' : i \in DOMAIN events \/ i = Len(events) + 1
         /\ events'[Len(events) + 1] = answer
         /\ Len(events) + 1 \in DOMAIN events' \ DOMAIN events
<1>1. TypeOK /\ events \in Seq(Event)
  BY DEF MailboxInv, TypeOK, Event
<1>2. Len(events) \in Nat /\ DOMAIN events = 1..Len(events)
  BY <1>1, SequencesArePlain
<1> QED
  BY <1>1, <1>2, Appended

(* Handling the oldest answer moves the others down by one. *)
LEMMA AnswerHandled ==
  ASSUME MailboxInv, events # <<>>, events' = Tail(events)
  PROVE  /\ events' \in Seq(Event)
         /\ DOMAIN events' = 1..(Len(events) - 1)
         /\ DOMAIN events = 1..Len(events)
         /\ Len(events) \in Nat \ {0}
         /\ \A i \in DOMAIN events' : events'[i] = events[i + 1]
         /\ Head(events) = events[1]
<1>1. TypeOK /\ events \in Seq(Event)
  BY DEF MailboxInv, TypeOK, Event
<1>2. Len(events) \in Nat /\ DOMAIN events = 1..Len(events)
  BY <1>1, SequencesArePlain
<1>3. Len(events) # 0
  BY <1>1, EmptySeq
<1>4. events' \in Seq(Event) /\ Len(events') = Len(events) - 1
  BY <1>1, HeadTailProperties
<1>5. DOMAIN events' = 1..Len(events')
  BY <1>4, LenProperties
<1>6. \A i \in 1..Len(events') : events'[i] = events[i + 1]
  BY <1>1, HeadTailProperties
<1> QED
  BY <1>1, <1>2, <1>3, <1>4, <1>5, <1>6

(* Giving up the wanted attempt empties the slot and cancels the worker. *)
LEMMA GivingUpKeepsInv ==
  ASSUME MailboxInv,
         slot' = NoRequest /\ mailActive' = 0,
         cancelled' = cancelled \cup ({mailActive} \ {0}),
         wanted' = 0,
         UNCHANGED <<nextAttempt, events, request, result, trail>>,
         pc' = pc \/ pc' = Notified(pc),
         uiPc' \in {"Idle", "Submitting", "Dropping"},
         uiPc' = "Submitting" => nextAttempt <= MaxAttempt,
         shuttingDown' \in BOOLEAN,
         uiPc' \in {"Idle", "Submitting"} => ~shuttingDown'
  PROVE  MailboxInv'
<1> USE DEF MailboxInv
<1>0. /\ pc' \in WorkerPcs
      /\ pc' \in Stages <=> pc \in Stages
      /\ pc' = "Complete" <=> pc = "Complete"
      /\ pc' = "Absent" <=> pc = "Absent"
  BY DEF TypeOK, Notified, WorkerPcs, Stages
<1>1. Working' <=> Working
  BY <1>0 DEF Working
<1>2. mailActive # 0 => mailActive = request.attempt /\ pc \in Stages \cup {"Complete"}
  BY DEF ActiveIsRequest
<1>3. TypeOK'
  <2>1. cancelled' \subseteq Attempts /\ 0 \in 0..MaxAttempt
    BY AttemptAssumption DEF TypeOK, Attempts
  <2> QED
    BY <1>0, <2>1 DEF TypeOK
<1>4. SlotIsWanted'
  BY DEF SlotIsWanted
<1>5. ActiveIsRequest'
  BY <1>0, <1>1, <1>2 DEF ActiveIsRequest, Working
<1>6. WantedIsNotCancelled'
  <2>1. 0 \notin cancelled'
    BY DEF TypeOK, Attempts
  <2>2. Working => request.attempt \in cancelled'
    <3>1. CASE mailActive = 0
      BY <3>1 DEF ActiveIsRequest
    <3>2. CASE mailActive # 0
      BY <1>2, <3>2
    <3> QED
      BY <3>1, <3>2
  <2> QED
    BY <1>1, <2>1, <2>2 DEF WantedIsNotCancelled
<1>7. AttemptsAreApart'
  <2>1. slot'.attempt = 0 /\ 0 < nextAttempt
    BY DEF NoRequest, TypeOK
  <2>2. \A attempt \in cancelled' : attempt < nextAttempt
    BY <1>2 DEF AttemptsAreApart
  <2>3. Working => request.attempt # 0
    BY DEF ActiveIsRequest, Request, Attempts
  <2>4. \A i \in DOMAIN events : events[i].attempt # 0
    BY SequencesArePlain DEF Event, Attempts
  <2> QED
    BY <1>1, <2>1, <2>2, <2>3, <2>4 DEF AttemptsAreApart
<1>8. WantedIsSomewhere'
  BY DEF WantedIsSomewhere
<1> QED
  BY <1>3, <1>4, <1>5, <1>6, <1>7, <1>8

(* A new attempt goes to the slot, or with no worker straight to the channel. *)
LEMMA ExtractKeepsInv ==
  ASSUME MailboxInv, NEW trigger \in Triggers, NEW hasRect \in BOOLEAN, Extract(trigger, hasRect)
  PROVE  MailboxInv'
<1> USE DEF MailboxInv
<1> DEFINE new == [attempt |-> nextAttempt, trigger |-> trigger, hasRect |-> hasRect]
<1>0. /\ uiPc = "Submitting" /\ uiPc' = "Idle"
      /\ wanted' = nextAttempt /\ nextAttempt' = nextAttempt + 1
      /\ nextAttempt \in Attempts /\ MaxAttempt \in Nat
      /\ wanted = 0 /\ slot = NoRequest /\ ~shuttingDown
      /\ UNCHANGED <<request, result, trail, shuttingDown, mailActive>>
  <2>1. /\ uiPc = "Submitting" /\ uiPc' = "Idle"
        /\ wanted' = nextAttempt /\ nextAttempt' = nextAttempt + 1
        /\ UNCHANGED <<request, result, trail, shuttingDown, mailActive>>
    BY DEF Extract, Await, MailboxSubmit, mailVars
  <2>2. wanted = 0 /\ slot = NoRequest /\ ~shuttingDown /\ nextAttempt <= MaxAttempt
    BY <2>1 DEF SlotIsWanted
  <2>3. nextAttempt \in 1..(MaxAttempt + 1)
    BY DEF TypeOK
  <2> QED
    BY <2>1, <2>2, <2>3, AttemptAssumption DEF Attempts
<1>1. slot.attempt = 0
  BY <1>0 DEF NoRequest
<1>2. Working => request.attempt \in cancelled /\ request.attempt \in Attempts
  BY <1>0 DEF WantedIsNotCancelled, ActiveIsRequest, Request, Attempts
<1>3. /\ nextAttempt \notin cancelled
      /\ request.attempt < nextAttempt
      /\ \A i \in DOMAIN events : events[i].attempt < nextAttempt
      /\ \A attempt \in cancelled : attempt < nextAttempt
      /\ nextAttempt \in Nat
  BY <1>0 DEF AttemptsAreApart, Attempts
<1>t. /\ request.attempt \in Int
      /\ \A i \in DOMAIN events : events[i].attempt \in Attempts
      /\ \A attempt \in cancelled : attempt \in Int
  BY SequencesArePlain DEF TypeOK, Request, NoRequest, Attempts, Event
<1>4. CASE pc = "Absent"
  <2> DEFINE answer == [attempt |-> nextAttempt, result |-> "Failed"]
  <2>1. /\ events' = Append(events, answer) /\ answer \in Event
        /\ UNCHANGED <<slot, cancelled, pc>>
    BY <1>0, <1>4 DEF Extract, mailVars, Event, Outcomes
  <2>2. /\ events' \in Seq(Event)
        /\ \A i \in DOMAIN events : i \in DOMAIN events' /\ events'[i] = events[i]
        /\ \A i \in DOMAIN events' : i \in DOMAIN events \/ i = Len(events) + 1
        /\ events'[Len(events) + 1].attempt = nextAttempt
        /\ Len(events) + 1 \in DOMAIN events' \ DOMAIN events
    BY <2>1, AnswerPosted
  <2>3. ~Working /\ ~Working'
    BY <1>4, <2>1 DEF Working, Stages
  <2>4. TypeOK'
    BY <1>0, <2>1, <2>2 DEF TypeOK, Event, Attempts
  <2>5. SlotIsWanted' /\ ActiveIsRequest' /\ WantedIsNotCancelled'
    BY <1>0, <1>3, <2>1, <2>3 DEF SlotIsWanted, ActiveIsRequest, WantedIsNotCancelled, Working
  <2>6. AttemptsAreApart'
    <3>1. /\ slot'.attempt < nextAttempt' /\ request'.attempt < nextAttempt'
          /\ wanted' < nextAttempt'
          /\ \A attempt \in cancelled' : attempt < nextAttempt'
      BY <1>0, <1>1, <1>3, <1>t, <2>1
    <3>2. \A i \in DOMAIN events' :
             events'[i].attempt < nextAttempt' /\ events'[i].attempt # 0
      BY <1>0, <1>3, <1>t, <2>2 DEF Attempts
    <3>3. \A i, j \in DOMAIN events' : events'[i].attempt = events'[j].attempt => i = j
      <4>1. \A i \in DOMAIN events : events'[i].attempt # nextAttempt
        BY <1>3, <1>t, <2>2 DEF Attempts
      <4> QED
        BY <2>2, <4>1 DEF AttemptsAreApart
    <3> QED
      BY <1>1, <2>1, <2>3, <3>1, <3>2, <3>3 DEF AttemptsAreApart
  <2>7. WantedIsSomewhere'
    BY <1>0, <2>2 DEF WantedIsSomewhere
  <2> QED
    BY <2>4, <2>5, <2>6, <2>7
<1>5. CASE pc # "Absent"
  <2>1. /\ slot' = new /\ UNCHANGED events /\ pc' = Notified(pc)
        /\ cancelled' = cancelled \cup ({mailActive} \ {0})
    BY <1>5 DEF Extract, MailboxSubmit
  <2>2. /\ pc' \in WorkerPcs /\ pc' # "Absent"
        /\ pc' \in Stages <=> pc \in Stages
        /\ pc' = "Complete" <=> pc = "Complete"
        /\ Working' <=> Working
    BY <1>5, <2>1 DEF TypeOK, Notified, WorkerPcs, Stages, Working
  <2>3. /\ new.attempt = nextAttempt /\ new \in Request /\ new # NoRequest
    BY <1>0 DEF Request, NoRequest, Attempts
  <2>4. \A attempt \in cancelled' : attempt \in cancelled \/ attempt = request.attempt
    BY <2>1 DEF ActiveIsRequest
  <2>5. TypeOK'
    <3>1. cancelled' \subseteq Attempts
      BY <2>1 DEF TypeOK, Attempts
    <3> QED
      BY <1>0, <2>1, <2>2, <2>3, <3>1 DEF TypeOK, Attempts
  <2>6. SlotIsWanted'
    BY <1>0, <2>1, <2>2, <2>3 DEF SlotIsWanted
  <2>7. ActiveIsRequest'
    BY <1>0, <1>2, <2>1, <2>2 DEF ActiveIsRequest, Working
  <2>8. WantedIsNotCancelled'
    BY <1>0, <1>2, <1>3, <1>t, <2>1, <2>2, <2>4 DEF WantedIsNotCancelled
  <2>9. AttemptsAreApart'
    BY <1>0, <1>3, <1>t, <2>1, <2>2, <2>3, <2>4 DEF AttemptsAreApart, Attempts
  <2>10. WantedIsSomewhere'
    BY <1>0, <2>1, <2>3 DEF WantedIsSomewhere
  <2> QED
    BY <2>5, <2>6, <2>7, <2>8, <2>9, <2>10
<1> QED
  BY <1>4, <1>5

(* The handled answer was the wanted one, or the wanted one is elsewhere. *)
LEMMA HandleKeepsInv ==
  ASSUME MailboxInv, HandleExtraction
  PROVE  MailboxInv'
<1> USE DEF MailboxInv
<1>0. /\ uiPc = "Idle" /\ events # <<>> /\ events' = Tail(events)
      /\ wanted' = IF events[1].attempt = wanted THEN 0 ELSE wanted
      /\ UNCHANGED <<uiPc, nextAttempt, slot, mailActive, shuttingDown, cancelled,
                     pc, request, result, trail>>
  BY AnswerHandled DEF HandleExtraction, mailVars, workVars
<1>1. /\ events' \in Seq(Event)
      /\ DOMAIN events' = 1..(Len(events) - 1)
      /\ DOMAIN events = 1..Len(events)
      /\ Len(events) \in Nat \ {0}
      /\ \A i \in DOMAIN events' : events'[i] = events[i + 1]
  BY <1>0, AnswerHandled
<1>2. \A i \in DOMAIN events : events[i].attempt \in Attempts
  BY SequencesArePlain DEF Event
<1>w. Working' <=> Working
  BY <1>0 DEF Working
<1>3. wanted' \in {0, wanted} /\ 0 \notin cancelled /\ 0 < nextAttempt
  BY <1>0 DEF TypeOK, Attempts
<1>4. events[1].attempt = wanted =>
         /\ slot.attempt # wanted
         /\ Working => request.attempt # wanted
  BY <1>1 DEF AttemptsAreApart
<1>5. TypeOK'
  BY <1>0, <1>1, AttemptAssumption DEF TypeOK, Event
<1>6. SlotIsWanted'
  BY <1>0, <1>4 DEF SlotIsWanted
<1>7. ActiveIsRequest' /\ WantedIsNotCancelled'
  BY <1>0, <1>3, <1>4, <1>w DEF ActiveIsRequest, WantedIsNotCancelled
<1>8. AttemptsAreApart'
  <2>1. \A i \in DOMAIN events' : i + 1 \in DOMAIN events
    BY <1>1
  <2>2. \A i, j \in DOMAIN events' : events'[i].attempt = events'[j].attempt => i = j
    <3> SUFFICES ASSUME NEW i \in DOMAIN events', NEW j \in DOMAIN events',
                        events'[i].attempt = events'[j].attempt
                 PROVE  i = j
      OBVIOUS
    <3>1. i + 1 = j + 1
      BY <1>1, <2>1 DEF AttemptsAreApart
    <3> QED
      BY <1>1, <3>1
  <2> QED
    BY <1>0, <1>1, <1>3, <1>w, <2>1, <2>2 DEF AttemptsAreApart
<1>9. WantedIsSomewhere'
  <2>1. CASE wanted' = 0
    BY <2>1 DEF WantedIsSomewhere
  <2>2. CASE wanted' # 0 /\ \E i \in DOMAIN events : events[i].attempt = wanted
    <3>1. PICK i \in DOMAIN events : events[i].attempt = wanted
      BY <2>2
    <3>2. i # 1 /\ wanted' = wanted
      BY <1>0, <2>2, <3>1
    <3>3. i - 1 \in DOMAIN events' /\ events'[i - 1] = events[i]
      BY <1>1, <3>2
    <3> QED
      BY <3>1, <3>2, <3>3 DEF WantedIsSomewhere
  <2>3. CASE wanted' # 0 /\ ~\E i \in DOMAIN events : events[i].attempt = wanted
    BY <1>0, <1>w, <2>3 DEF WantedIsSomewhere
  <2> QED
    BY <2>1, <2>2, <2>3
<1> QED
  BY <1>5, <1>6, <1>7, <1>8, <1>9

(* The worker takes the wanted attempt, so nothing it holds is stale yet. *)
LEMMA TakeNextKeepsInv ==
  ASSUME MailboxInv, TakeNext
  PROVE  MailboxInv'
<1> USE DEF MailboxInv
<1>0. /\ pc = "Next" /\ ~Working /\ mailActive = 0
      /\ UNCHANGED <<uiPc, nextAttempt, wanted, shuttingDown, cancelled, events, result>>
  BY DEF TakeNext, uiVars, Working, Stages, ActiveIsRequest
<1>1. CASE shuttingDown \/ slot = NoRequest
  <2>1. /\ slot' = NoRequest /\ slot = NoRequest
        /\ pc' \in {"Exited", "Waiting"}
        /\ UNCHANGED <<mailActive, request, trail>>
    BY <1>0, <1>1 DEF TakeNext, SlotIsWanted
  <2>2. ~Working'
    BY <2>1 DEF Working, Stages
  <2>3. TypeOK'
    BY <1>0, <2>1 DEF TypeOK, WorkerPcs
  <2>4. SlotIsWanted' /\ ActiveIsRequest' /\ WantedIsNotCancelled'
    BY <1>0, <2>1, <2>2 DEF SlotIsWanted, ActiveIsRequest, WantedIsNotCancelled, Stages
  <2>5. AttemptsAreApart' /\ WantedIsSomewhere'
    BY <1>0, <2>1, <2>2 DEF AttemptsAreApart, WantedIsSomewhere
  <2> QED
    BY <2>3, <2>4, <2>5
<1>2. CASE ~shuttingDown /\ slot # NoRequest
  <2>1. /\ slot' = NoRequest /\ mailActive' = slot.attempt /\ request' = slot
        /\ pc' = "Uia" /\ trail' = <<>>
        /\ slot \in Request /\ slot.attempt = wanted /\ uiPc = "Idle"
    BY <1>0, <1>2 DEF TakeNext, TakeSlot, SlotIsWanted, TypeOK
  <2>2. Working' /\ slot.attempt \in Attempts /\ slot'.attempt = 0
    BY <2>1 DEF Working, Stages, Request, NoRequest
  <2>3. TypeOK'
    BY <1>0, <2>1, <2>2, EmptySeq DEF TypeOK, WorkerPcs, Stages, Attempts
  <2>4. SlotIsWanted' /\ ActiveIsRequest' /\ WantedIsNotCancelled'
    BY <1>0, <2>1, <2>2 DEF SlotIsWanted, ActiveIsRequest, WantedIsNotCancelled, Stages, Attempts
  <2>5. \A i \in DOMAIN events : events[i].attempt # 0
    BY SequencesArePlain DEF Event, Attempts
  <2>6. AttemptsAreApart'
    BY <1>0, <2>1, <2>2, <2>5 DEF AttemptsAreApart, Attempts, TypeOK
  <2>7. WantedIsSomewhere'
    BY <1>0, <2>1, <2>2 DEF WantedIsSomewhere
  <2> QED
    BY <2>3, <2>4, <2>6, <2>7
<1> QED
  BY <1>1, <1>2

(* The answer joins the channel as the worker leaves its last stage. *)
LEMMA PostKeepsInv ==
  ASSUME MailboxInv, PostResult
  PROVE  MailboxInv'
<1> USE DEF MailboxInv
<1> DEFINE answer == [attempt |-> request.attempt, result |-> result]
<1>0. /\ pc = "Post" /\ pc' = "Complete" /\ Working /\ ~Working'
      /\ events' = Append(events, answer)
      /\ UNCHANGED <<uiPc, nextAttempt, wanted, slot, mailActive, shuttingDown,
                     cancelled, request, result, trail>>
  BY DEF PostResult, uiVars, mailVars, Working, Stages
<1>1. answer \in Event /\ answer.attempt = request.attempt /\ request.attempt \in Attempts
  BY <1>0 DEF Event, ActiveIsRequest, Request, TypeOK
<1>2. /\ events' \in Seq(Event)
      /\ \A i \in DOMAIN events : i \in DOMAIN events' /\ events'[i] = events[i]
      /\ \A i \in DOMAIN events' : i \in DOMAIN events \/ i = Len(events) + 1
      /\ events'[Len(events) + 1] = answer
      /\ Len(events) + 1 \in DOMAIN events' \ DOMAIN events
  BY <1>0, <1>1, AnswerPosted
<1> HIDE DEF answer
<1>3. TypeOK'
  BY <1>0, <1>2 DEF TypeOK, Event, WorkerPcs
<1>4. SlotIsWanted' /\ ActiveIsRequest' /\ WantedIsNotCancelled'
  BY <1>0 DEF SlotIsWanted, ActiveIsRequest, WantedIsNotCancelled, Stages
<1>5. AttemptsAreApart'
  <2>1. \A i \in DOMAIN events : events[i].attempt # request.attempt
    BY <1>0 DEF AttemptsAreApart
  <2>2. \A i, j \in DOMAIN events' : events'[i].attempt = events'[j].attempt => i = j
    BY <1>1, <1>2, <2>1 DEF AttemptsAreApart
  <2>3. \A i \in DOMAIN events' :
           events'[i].attempt < nextAttempt /\ events'[i].attempt # slot.attempt
    BY <1>0, <1>1, <1>2 DEF AttemptsAreApart
  <2> QED
    BY <1>0, <2>2, <2>3 DEF AttemptsAreApart
<1>6. WantedIsSomewhere'
  BY <1>0, <1>1, <1>2 DEF WantedIsSomewhere
<1> QED
  BY <1>3, <1>4, <1>5, <1>6

(* Nothing is asked for and nothing is known at the start.                  *)
LEMMA InitHasInv == Init => MailboxInv /\ TrailInv
<1> SUFFICES ASSUME Init PROVE MailboxInv /\ TrailInv
  OBVIOUS
<1> USE DEF Init
<1>1. Len(trail) = 0 /\ DOMAIN trail = {} /\ DOMAIN events = {} /\ ~Working
  BY DEF Working, Stages
<1>2. TypeOK
  <2>1. events \in Seq([attempt : Attempts, result : Outcomes])
    BY EmptySeq
  <2>2. trail \in Seq([source : Sources, outcome : Outcomes])
    BY EmptySeq
  <2>3. 1 \in 1..(MaxAttempt + 1) /\ 0 \in 0..MaxAttempt
    BY AttemptAssumption
  <2> QED
    BY <2>1, <2>2, <2>3 DEF TypeOK, WorkerPcs, Outcomes
<1>3. SlotIsWanted /\ ActiveIsRequest /\ WantedIsNotCancelled
  BY <1>1 DEF SlotIsWanted, ActiveIsRequest, WantedIsNotCancelled, Stages
<1>4. AttemptsAreApart /\ WantedIsSomewhere
  BY <1>1 DEF AttemptsAreApart, WantedIsSomewhere, NoRequest
<1>5. StageFollowsTrail
  BY DEF StageFollowsTrail, Sources
<1>6. FallbackOrder
  <2>1. OrderOf(trail)
    BY <1>1 DEF OrderOf
  <2> QED
    BY <2>1, FallbackOrderIs
<1> QED
  BY <1>2, <1>3, <1>4, <1>5, <1>6 DEF MailboxInv, TrailInv

(* The invariant is inductive.                                              *)
LEMMA StepKeepsInv == MailboxInv /\ TrailInv /\ [Next]_vars => MailboxInv' /\ TrailInv'
<1> SUFFICES ASSUME MailboxInv, TrailInv, [Next]_vars PROVE MailboxInv' /\ TrailInv'
  OBVIOUS
<1>1. CASE StageStep
  <2>1. GoesOn /\ trail' \in Seq(Asked)
    BY <1>1, StageStepGoesOn DEF TrailInv
  <2> QED
    BY <1>1, <2>1, GoesOnKeepsInv, StageStepKeepsTrail
<1>2. CASE Next /\ ~StageStep
  <2>1. TrailInv'
    BY <1>2, OtherStepsKeepTrail
  <2>2. CASE BeginRequest
    BY <2>1, <2>2, GivingUpKeepsInv
       DEF BeginRequest, MailboxCancel, workVars, MailboxInv, SlotIsWanted, TypeOK
  <2>3. ASSUME NEW trigger \in Triggers, NEW hasRect \in BOOLEAN, Extract(trigger, hasRect)
        PROVE  MailboxInv'
    BY <2>3, ExtractKeepsInv
  <2>4. CASE CancelExtraction
    BY <2>1, <2>4, GivingUpKeepsInv
       DEF CancelExtraction, MailboxCancel, workVars, MailboxInv, SlotIsWanted, TypeOK
  <2>5. CASE HandleExtraction
    BY <2>1, <2>5, HandleKeepsInv
  <2>6. CASE DropWorker
    BY <2>1, <2>6, GivingUpKeepsInv
       DEF DropWorker, MailboxShutdown, MailboxInv, SlotIsWanted
  <2>7. CASE StopWaitingForWorker
    <3>1. MailboxInv'
      BY <2>7 DEF StopWaitingForWorker, MailboxInv, TypeOK, SlotIsWanted, ActiveIsRequest,
                  WantedIsNotCancelled, AttemptsAreApart, WantedIsSomewhere, Working,
                  mailVars, workVars
    <3> QED
      BY <2>1, <3>1
  <2>8. CASE SpuriousWakeup
    <3>1. MailboxInv'
      BY <2>8 DEF SpuriousWakeup, MailboxInv, TypeOK, SlotIsWanted, ActiveIsRequest,
                  WantedIsNotCancelled, AttemptsAreApart, WantedIsSomewhere, Working,
                  mailVars, uiVars, WorkerPcs, Stages
    <3> QED
      BY <2>1, <3>1
  <2>9. CASE TakeNext
    BY <2>1, <2>9, TakeNextKeepsInv
  <2>10. CASE PostResult
    BY <2>1, <2>10, PostKeepsInv
  <2>11. CASE CompleteRequest
    <3>1. ~Working /\ ~Working' /\ mailActive' = 0 /\ pc' = "Next"
      BY <2>11 DEF CompleteRequest, MailboxComplete, Working, Stages, MailboxInv, ActiveIsRequest
    <3>2. UNCHANGED <<uiPc, nextAttempt, wanted, slot, shuttingDown, cancelled, events,
                     request, result, trail>>
      BY <2>11 DEF CompleteRequest, uiVars
    <3>3. TypeOK'
      BY <3>1, <3>2, AttemptAssumption DEF MailboxInv, TypeOK, WorkerPcs
    <3>4. SlotIsWanted' /\ ActiveIsRequest' /\ WantedIsNotCancelled'
      BY <2>11, <3>1, <3>2 DEF CompleteRequest, MailboxInv, SlotIsWanted, ActiveIsRequest,
                        WantedIsNotCancelled, Stages
    <3>5. AttemptsAreApart' /\ WantedIsSomewhere'
      BY <3>1, <3>2 DEF MailboxInv, AttemptsAreApart, WantedIsSomewhere
    <3> QED
      BY <2>1, <3>3, <3>4, <3>5 DEF MailboxInv
  <2> QED
    BY <1>2, <2>1, <2>2, <2>3, <2>4, <2>5, <2>6, <2>7, <2>8, <2>9, <2>10, <2>11
       DEF Next, Worker, StageStep
<1>3. CASE UNCHANGED vars
  <2>1. UNCHANGED <<uiPc, nextAttempt, wanted, slot, mailActive, shuttingDown, cancelled,
                   events, pc, request, result, trail>>
    BY <1>3 DEF vars, uiVars, mailVars, workVars
  <2> QED
    BY <2>1 DEF MailboxInv, TypeOK, SlotIsWanted, ActiveIsRequest, WantedIsNotCancelled,
                AttemptsAreApart, WantedIsSomewhere, Working, TrailInv, StageFollowsTrail,
                FallbackOrder
<1> QED
  BY <1>1, <1>2, <1>3

-----------------------------------------------------------------------------
(* Every variable stays in its type. *)
THEOREM TypeCorrect == Spec => []TypeOK
<1>1. MailboxInv /\ TrailInv => TypeOK
  BY DEF MailboxInv
<1> QED
  BY <1>1, InitHasInv, StepKeepsInv, PTL DEF Spec

(* The inductive invariant of the mailbox, and what each stage knows of the *)
(* sources asked before it.                                                 *)
THEOREM InvariantCorrect == Spec => [](MailboxInv /\ TrailInv)
BY InitHasInv, StepKeepsInv, PTL DEF Spec

(* Work nobody wants any more has been told to stop, for every number of    *)
(* attempts (ExtractionMailbox::submit, next, cancel and complete).         *)
THEOREM StaleWorkIsCancelledCorrect == Spec => []StaleWorkIsCancelled
<1>1. MailboxInv /\ TrailInv => StaleWorkIsCancelled
  BY DEF MailboxInv, WantedIsNotCancelled, StaleWorkIsCancelled
<1> QED
  BY <1>1, InvariantCorrect, PTL

(* The sources are asked in the documented order (run_extraction). *)
THEOREM FallbackOrderCorrect == Spec => []FallbackOrder
<1>1. MailboxInv /\ TrailInv => FallbackOrder
  BY DEF TrailInv
<1> QED
  BY <1>1, InvariantCorrect, PTL

-----------------------------------------------------------------------------
(* The refinement of LatestWins: the program starts as the promise does. *)
LEMMA InitRefines == Init => Promise!Init
<1> SUFFICES ASSUME Init PROVE Promise!Init
  OBVIOUS
<1>1. OpenAttempts = {}
  BY DEF Init, OpenAttempts, NoRequest, Working, Stages
<1>2. [i \in DOMAIN events |-> events[i].attempt] = <<>>
  BY DEF Init
<1> QED
  BY <1>1, <1>2 DEF Init, Promise!Init

(* The attempts in the channel, as a sequence. *)
LEMMA AnswersArePlain ==
  ASSUME NEW s \in Seq(Event)
  PROVE  /\ [i \in DOMAIN s |-> s[i].attempt] \in Seq(Attempts)
         /\ Len([i \in DOMAIN s |-> s[i].attempt]) = Len(s)
<1> DEFINE a == [i \in DOMAIN s |-> s[i].attempt]
<1>1. Len(s) \in Nat /\ DOMAIN s = 1..Len(s) /\ \A i \in DOMAIN s : s[i] \in Event
  BY LenProperties, ElementOfSeq
<1>2. a \in [1..Len(s) -> Attempts]
  BY <1>1 DEF Event
<1>3. a \in Seq(Attempts)
  BY <1>1, <1>2, SeqDef
<1>4. Len(a) = Len(s)
  BY <1>1, <1>2, <1>3, LenProperties
<1> QED
  BY <1>3, <1>4

(* The worker posts an event: the channel of LatestWins grows by its attempt. *)
LEMMA AppendRefines ==
  ASSUME NEW s \in Seq(Event), NEW e \in Event, NEW longer, longer = Append(s, e)
  PROVE  [i \in DOMAIN longer |-> longer[i].attempt]
           = Append([i \in DOMAIN s |-> s[i].attempt], e.attempt)
<1> DEFINE a == [i \in DOMAIN s |-> s[i].attempt]
           b == [i \in DOMAIN longer |-> longer[i].attempt]
<1>1. /\ longer \in Seq(Event) /\ Len(longer) = Len(s) + 1
      /\ DOMAIN longer = 1..(Len(s) + 1)
      /\ \A i \in 1..Len(s) : longer[i] = s[i]
      /\ longer[Len(s) + 1] = e
  BY Appended
<1>2. a \in Seq(Attempts) /\ Len(a) = Len(s) /\ b \in Seq(Attempts) /\ Len(b) = Len(s) + 1
  BY <1>1, AnswersArePlain
<1>3. e.attempt \in Attempts
  BY DEF Event
<1>4. /\ Append(a, e.attempt) \in Seq(Attempts)
      /\ Len(Append(a, e.attempt)) = Len(s) + 1
      /\ \A i \in 1..Len(s) : Append(a, e.attempt)[i] = a[i]
      /\ Append(a, e.attempt)[Len(s) + 1] = e.attempt
  BY <1>2, <1>3, Appended
<1>5. Len(s) \in Nat /\ DOMAIN s = 1..Len(s)
  BY LenProperties
<1>6. \A i \in 1..(Len(s) + 1) : b[i] = Append(a, e.attempt)[i]
  <2> TAKE i \in 1..(Len(s) + 1)
  <2>1. CASE i \in 1..Len(s)
    BY <1>1, <1>4, <1>5, <2>1
  <2>2. CASE i = Len(s) + 1
    BY <1>1, <1>4, <1>5, <2>2
  <2> QED
    BY <1>5, <2>1, <2>2
<1> HIDE DEF a, b
<1>7. b = Append(a, e.attempt)
  BY <1>2, <1>4, <1>6, SeqEqual
<1> QED
  BY <1>7 DEF a, b

(* The message loop takes an event: the channel of LatestWins loses its first. *)
LEMMA TailRefines ==
  ASSUME NEW s \in Seq(Event), s # <<>>, NEW rest, rest = Tail(s)
  PROVE  /\ [i \in DOMAIN rest |-> rest[i].attempt]
               = Tail([i \in DOMAIN s |-> s[i].attempt])
         /\ [i \in DOMAIN s |-> s[i].attempt] # <<>>
         /\ Head([i \in DOMAIN s |-> s[i].attempt]) = Head(s).attempt
<1> DEFINE a == [i \in DOMAIN s |-> s[i].attempt]
           b == [i \in DOMAIN rest |-> rest[i].attempt]
<1>0. Len(s) \in Nat \ {0} /\ DOMAIN s = 1..Len(s)
  BY LenProperties, EmptySeq
<1>1. /\ rest \in Seq(Event) /\ Len(rest) = Len(s) - 1
      /\ \A i \in 1..Len(rest) : rest[i] = s[i + 1]
  BY HeadTailProperties
<1>2. a \in Seq(Attempts) /\ Len(a) = Len(s) /\ b \in Seq(Attempts) /\ Len(b) = Len(s) - 1
  BY <1>1, AnswersArePlain
<1>3. a # <<>>
  <2> HIDE DEF a
  <2> QED
    BY <1>0, <1>2, EmptySeq
<1>4. /\ Tail(a) \in Seq(Attempts) /\ Len(Tail(a)) = Len(s) - 1
      /\ \A i \in 1..(Len(s) - 1) : Tail(a)[i] = a[i + 1]
  <2> HIDE DEF a
  <2> QED
    BY <1>2, <1>3, HeadTailProperties
<1>5. DOMAIN rest = 1..Len(rest)
  BY <1>1, LenProperties
<1>6. \A i \in 1..(Len(s) - 1) : b[i] = Tail(a)[i]
  <2> TAKE i \in 1..(Len(s) - 1)
  <2>1. i \in DOMAIN rest /\ i + 1 \in DOMAIN s /\ rest[i] = s[i + 1]
    BY <1>0, <1>1, <1>5
  <2>2. Tail(a)[i] = a[i + 1]
    BY <1>4
  <2>3. a[i + 1] = s[i + 1].attempt /\ b[i] = rest[i].attempt
    BY <2>1
  <2> HIDE DEF a, b
  <2> QED
    BY <2>1, <2>2, <2>3
<1>7. Head(a) = a[1] /\ a[1] = s[1].attempt /\ Head(s) = s[1]
  BY <1>0
<1> HIDE DEF a, b
<1>8. b = Tail(a)
  BY <1>2, <1>4, <1>6, SeqEqual
<1> QED
  BY <1>3, <1>7, <1>8 DEF a, b

(* Giving up the wanted attempt is Cancel, with or without a worker at it. *)
LEMMA GivingUpRefines ==
  ASSUME slot' = NoRequest, wanted' = 0,
         UNCHANGED <<nextAttempt, events, request>>,
         pc' = pc \/ pc' = Notified(pc)
  PROVE  Promise!Cancel
<1>1. Working' <=> Working
  BY DEF Working, Notified, Stages
<1>2. OpenAttempts' \in SUBSET OpenAttempts
  BY <1>1 DEF OpenAttempts, NoRequest
<1> QED
  BY <1>2 DEF Promise!Cancel

(* A stage ends with the request open as before, or abandons one that is    *)
(* cancelled and so not the wanted one.                                     *)
LEMMA GoesOnRefines ==
  ASSUME MailboxInv, GoesOn
  PROVE  [Promise!Next]_(Promise!vars)
<1>0. /\ UNCHANGED <<nextAttempt, wanted, slot, events, request>>
      /\ Working
  BY DEF GoesOn, uiVars, mailVars, Working
<1>1. CASE pc' \in Stages
  <2>1. UNCHANGED OpenAttempts
    BY <1>0, <1>1 DEF OpenAttempts, Working
  <2> QED
    BY <1>0, <2>1 DEF Promise!vars
<1>2. CASE pc' = "Complete" /\ request.attempt \in cancelled
  <2>1. /\ request.attempt # wanted
        /\ request.attempt # slot.attempt
        /\ request.attempt \in Attempts
    BY <1>0, <1>2 DEF MailboxInv, WantedIsNotCancelled, AttemptsAreApart, ActiveIsRequest, Request
  <2>2. ~Working'
    BY <1>2 DEF Working, Stages
  <2>3. OpenAttempts' = OpenAttempts \ {request.attempt} /\ request.attempt \in OpenAttempts
    BY <1>0, <2>1, <2>2 DEF OpenAttempts
  <2>4. Promise!Abandon(request.attempt)
    BY <1>0, <2>1, <2>3 DEF Promise!Abandon
  <2>5. request.attempt \in Promise!Attempts
    BY <2>1 DEF Attempts, Promise!Attempts
  <2> QED
    BY <2>4, <2>5 DEF Promise!Next
<1> QED
  BY <1>1, <1>2 DEF GoesOn

(* A new attempt is submitted to the worker, or refused without one. *)
LEMMA ExtractRefines ==
  ASSUME MailboxInv, NEW trigger \in Triggers, NEW hasRect \in BOOLEAN,
         Extract(trigger, hasRect)
  PROVE  Promise!Next
<1>0. /\ nextAttempt' = nextAttempt + 1 /\ wanted' = nextAttempt
      /\ nextAttempt <= MaxAttempt /\ slot = NoRequest
      /\ UNCHANGED request
  BY DEF Extract, Await, MailboxInv, SlotIsWanted
<1>t. nextAttempt \in Attempts /\ nextAttempt # 0
  BY <1>0, AttemptAssumption DEF MailboxInv, TypeOK, Attempts
<1>1. CASE pc = "Absent"
  <2> DEFINE answer == [attempt |-> nextAttempt, result |-> "Failed"]
  <2>1. events' = Append(events, answer) /\ UNCHANGED <<slot, pc>>
    BY <1>1 DEF Extract, mailVars
  <2>2. answer \in Event /\ answer.attempt = nextAttempt /\ events \in Seq(Event)
    BY <1>t DEF Event, Outcomes, MailboxInv, TypeOK
  <2> HIDE DEF answer
  <2>3. [i \in DOMAIN events' |-> events'[i].attempt]
           = Append([i \in DOMAIN events |-> events[i].attempt], nextAttempt)
    BY <2>1, <2>2, AppendRefines
  <2>4. UNCHANGED OpenAttempts
    BY <1>0, <2>1 DEF OpenAttempts, Working
  <2>5. Promise!Refuse
    BY <1>0, <2>3, <2>4 DEF Promise!Refuse
  <2> QED
    BY <2>5 DEF Promise!Next
<1>2. CASE pc # "Absent"
  <2>1. /\ slot'.attempt = nextAttempt /\ UNCHANGED events /\ pc' = Notified(pc)
    BY <1>2 DEF Extract, MailboxSubmit
  <2>2. Working' <=> Working
    BY <2>1 DEF Working, Notified, Stages
  <2>3. OpenAttempts' = OpenAttempts \cup {nextAttempt}
    BY <1>0, <1>t, <2>1, <2>2 DEF OpenAttempts, NoRequest
  <2>4. Promise!Submit
    BY <1>0, <2>1, <2>3 DEF Promise!Submit
  <2> QED
    BY <2>4 DEF Promise!Next
<1> QED
  BY <1>1, <1>2

(* Every step is one of LatestWins, or invisible to it. *)
LEMMA StepRefines ==
  MailboxInv /\ TrailInv /\ [Next]_vars => [Promise!Next]_(Promise!vars)
<1> SUFFICES ASSUME MailboxInv, TrailInv, [Next]_vars
             PROVE  [Promise!Next]_(Promise!vars)
  OBVIOUS
<1>e. events \in Seq(Event)
  BY DEF MailboxInv, TypeOK, Event
<1>1. CASE StageStep
  BY <1>1, StageStepGoesOn, GoesOnRefines DEF TrailInv
<1>2. CASE BeginRequest \/ CancelExtraction
  BY <1>2, GivingUpRefines
     DEF BeginRequest, CancelExtraction, MailboxCancel, workVars, Promise!Next
<1>3. ASSUME NEW trigger \in Triggers, NEW hasRect \in BOOLEAN, Extract(trigger, hasRect)
      PROVE  Promise!Next
  BY <1>3, ExtractRefines
<1>4. CASE HandleExtraction
  <2>1. /\ events # <<>> /\ events' = Tail(events)
        /\ wanted' = IF Head(events).attempt = wanted THEN 0 ELSE wanted
        /\ UNCHANGED <<nextAttempt, slot, pc, request>>
    BY <1>4 DEF HandleExtraction, mailVars, workVars
  <2>2. /\ [i \in DOMAIN events' |-> events'[i].attempt]
              = Tail([i \in DOMAIN events |-> events[i].attempt])
        /\ [i \in DOMAIN events |-> events[i].attempt] # <<>>
        /\ Head([i \in DOMAIN events |-> events[i].attempt]) = Head(events).attempt
    BY <1>e, <2>1, TailRefines
  <2>3. UNCHANGED OpenAttempts
    BY <2>1 DEF OpenAttempts, Working
  <2>4. Promise!Deliver
    BY <2>1, <2>2, <2>3 DEF Promise!Deliver
  <2> QED
    BY <2>4 DEF Promise!Next
<1>5. CASE DropWorker
  BY <1>5, GivingUpRefines DEF DropWorker, MailboxShutdown, Promise!Next
<1>6. CASE PostResult
  <2> DEFINE answer == [attempt |-> request.attempt, result |-> result]
  <2>1. /\ Working /\ ~Working'
        /\ events' = Append(events, answer)
        /\ UNCHANGED <<nextAttempt, wanted, slot>>
    BY <1>6 DEF PostResult, uiVars, mailVars, Working, Stages
  <2>2. /\ answer \in Event /\ answer.attempt = request.attempt
        /\ request.attempt \in Attempts /\ request.attempt # slot.attempt
    BY <2>1 DEF Event, MailboxInv, ActiveIsRequest, AttemptsAreApart, Request, TypeOK
  <2> HIDE DEF answer
  <2>3. [i \in DOMAIN events' |-> events'[i].attempt]
           = Append([i \in DOMAIN events |-> events[i].attempt], request.attempt)
    BY <1>e, <2>1, <2>2, AppendRefines
  <2>4. OpenAttempts' = OpenAttempts \ {request.attempt} /\ request.attempt \in OpenAttempts
    BY <2>1, <2>2 DEF OpenAttempts
  <2>5. request.attempt \in Promise!Attempts
    BY <2>2 DEF Attempts, Promise!Attempts
  <2>6. \E attempt \in Promise!Attempts : Promise!Answer(attempt)
    BY <2>1, <2>3, <2>4, <2>5 DEF Promise!Answer
  <2> QED
    BY <2>6 DEF Promise!Next
<1>7. CASE TakeNext
  <2>1. ~Working /\ UNCHANGED <<nextAttempt, wanted, events>>
    BY <1>7 DEF TakeNext, uiVars, Working, Stages
  <2>2. UNCHANGED OpenAttempts
    <3>1. CASE shuttingDown \/ slot = NoRequest
      <4>1. slot' = NoRequest /\ slot = NoRequest /\ pc' \in {"Exited", "Waiting"}
        BY <1>7, <3>1 DEF TakeNext, MailboxInv, SlotIsWanted
      <4> QED
        BY <2>1, <4>1 DEF OpenAttempts, Working, Stages
    <3>2. CASE ~shuttingDown /\ slot # NoRequest
      <4>1. slot' = NoRequest /\ request' = slot /\ pc' = "Uia" /\ slot \in Request
        BY <1>7, <3>2 DEF TakeNext, TakeSlot, MailboxInv, TypeOK
      <4>2. Working' /\ slot.attempt # 0
        BY <4>1 DEF Working, Stages, Request, Attempts
      <4> QED
        BY <2>1, <4>1, <4>2 DEF OpenAttempts, NoRequest
    <3> QED
      BY <3>1, <3>2
  <2> QED
    BY <2>1, <2>2 DEF Promise!vars
<1>8. CASE StopWaitingForWorker \/ SpuriousWakeup \/ CompleteRequest \/ UNCHANGED vars
  <2>1. UNCHANGED <<nextAttempt, wanted, slot, events, request, Working>>
    BY <1>8 DEF StopWaitingForWorker, SpuriousWakeup, CompleteRequest, vars, uiVars, mailVars,
                workVars, Working, Stages
  <2> QED
    BY <2>1 DEF Promise!vars, OpenAttempts
<1> QED
  BY <1>1, <1>2, <1>3, <1>4, <1>5, <1>6, <1>7, <1>8 DEF Next, Worker, StageStep

(* The mailbox and its worker implement LatestWins, for every number of     *)
(* attempts (composition.rs, ExtractionMailbox and run_extraction).         *)
THEOREM LatestWinsImplemented == Spec => ImplementsLatestWins
BY InitRefines, InvariantCorrect, StepRefines, PTL DEF Spec, ImplementsLatestWins, Promise!Spec

(* What the message loop may conclude from it: the wanted attempt is open   *)
(* or answered, and no attempt is answered twice.                           *)
THEOREM PromiseKept == Spec => [](Promise!WantedIsServed /\ Promise!AnsweredOnce)
<1>1. MailboxInv => Promise!WantedIsServed /\ Promise!AnsweredOnce
  <2> SUFFICES ASSUME MailboxInv PROVE Promise!WantedIsServed /\ Promise!AnsweredOnce
    OBVIOUS
  <2> DEFINE answers == [i \in DOMAIN events |-> events[i].attempt]
  <2>1. DOMAIN answers = DOMAIN events
    OBVIOUS
  <2>2. ToSet(answers) = {events[i].attempt : i \in DOMAIN events}
    BY DEF ToSet
  <2>3. wanted # 0 => wanted \in OpenAttempts \cup ToSet(answers)
    BY <2>2 DEF MailboxInv, WantedIsSomewhere, OpenAttempts
  <2>4. IsInjective(answers)
    BY DEF IsInjective, MailboxInv, AttemptsAreApart
  <2>5. OpenAttempts \cap ToSet(answers) = {}
    BY <2>2 DEF MailboxInv, AttemptsAreApart, OpenAttempts
  <2>6. \A attempt \in OpenAttempts \cup ToSet(answers) : attempt < nextAttempt
    BY <2>2 DEF MailboxInv, AttemptsAreApart, OpenAttempts
  <2> QED
    BY <2>3, <2>4, <2>5, <2>6
       DEF Promise!WantedIsServed, Promise!AnsweredOnce, Promise!ToSet, ToSet,
           Promise!IsInjective, IsInjective
<1> QED
  BY <1>1, InvariantCorrect, PTL
=============================================================================
