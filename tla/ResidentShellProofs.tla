------------------------ MODULE ResidentShellProofs ------------------------
(***************************************************************************)
(* The message loop for every number of popups, texts, configurations and  *)
(* jobs.  A handler is a composition of operators on shell values, so the  *)
(* invariant is an operator too, Sound(s, o, st): each operator of the     *)
(* model gets a lemma about any sound shell, and a step of the system      *)
(* only puts these together.                                               *)
(*                                                                         *)
(* Cancelling, removing and creating popups happen in almost every         *)
(* handler.  What they have in common is Calmer(s, t): nothing is started, *)
(* asked for or chosen.  Which popups they may take is Spared(s, t, ...).  *)
(***************************************************************************)
EXTENDS ResidentShell, TLAPS, SequenceTheorems, FiniteSetTheorems, WellFoundedInduction

Popups == UNION {[ids -> PopupEntry] : ids \in SUBSET PopupIds}
Streams == UNION {[jobs -> Stream] : jobs \in SUBSET JobIds}

Shell ==
    [rest : BOOLEAN, hoverOn : BOOLEAN, startupError : BOOLEAN, provider : BOOLEAN,
     config : Configs, generation : 1..MaxGeneration, coord : CoordinatorValue,
     popups : Popups, nextPopup : 1..(MaxPopup + 1), nextAttempt : 1..(MaxAttempt + 1),
     pending : Pending \cup {NoPending}, choice : Choice \cup {NoChoice},
     activeRequest : GoodTexts \cup {"None"}, activePopup : 0..MaxPopup,
     popupJob : (0..MaxId) \cup Attempts,
     token : 0..MaxId, revoked : SUBSET JobIds,
     output : Seq(JobIds), cache : [GoodTexts -> Output \cup {NoOutput}]]

-----------------------------------------------------------------------------
(* The invariant, of a shell s, open attempts o and streams st *)

Typed(s, o, st) == s \in Shell /\ o \subseteq Attempts /\ st \in Streams

(* Popups are numbered in the order they are made, and a closed window      *)
(* reports no pin.                                                          *)
Numbered(s) ==
    \A id \in DOMAIN s.popups :
        /\ id < s.nextPopup
        /\ s.popups[id].view = "Closed" => ~s.popups[id].pinned

Roomy(s) == Cardinality(DOMAIN s.popups) <= MaxVisible

(* The active job was started and has not been cancelled; the token held    *)
(* is its own, and no other stream runs unrevoked.                          *)
Held(s, st) ==
    /\ s.coord.active # NoJob =>
          s.coord.active.id \in DOMAIN st /\ s.coord.active.id \notin s.coord.cancelled
    /\ s.token # 0 => s.coord.active # NoJob /\ s.coord.active.id = s.token
    /\ \A job \in DOMAIN st :
          st[job].end = "Running" /\ job \notin s.revoked => s.token = job

(* What a stream that sent so many deltas has left. *)
AllDeltas(job, sent) == [i \in 1..sent |-> job]

(* The job shown is wired to its popup, and the output at hand is all its   *)
(* stream sent.                                                             *)
Presented(s) == s.coord.active # NoJob /\ s.popupJob = s.coord.active.id

Wired(s, st) ==
    Presented(s) =>
        /\ s.activePopup \in DOMAIN s.popups
        /\ s.activeRequest # "None"
        /\ s.token = s.popupJob
        /\ s.popups[s.activePopup].replay =
              [trigger |-> s.coord.active.trigger, text |-> s.activeRequest]
        /\ st[s.popupJob].end = "Running"
        /\ st[s.popupJob].generation = s.generation
        /\ s.output = AllDeltas(s.popupJob, st[s.popupJob].sent)

(* A pending request excludes a choice, and a Manual one any job. *)
Awaits(s, o) ==
    /\ s.pending # NoPending =>
          s.pending.attempt \in o /\ s.pending.generation = s.generation
    /\ s.choice # NoChoice =>
          /\ s.choice.popup \in DOMAIN s.popups
          /\ s.choice.generation = s.generation
          /\ s.pending = NoPending
    /\ s.pending.trigger = "Manual" => s.coord.active = NoJob

Quiet(s) ==
    s.rest => /\ DOMAIN s.popups = {}
              /\ s.pending = NoPending
              /\ s.choice = NoChoice
              /\ s.coord.active = NoJob
              /\ s.token = 0

WholeOutput(o, generation, st) ==
    /\ o.job \in DOMAIN st
    /\ o.chunks # <<>>
    /\ o.chunks = AllDeltas(o.job, st[o.job].sent)
    /\ st[o.job].end = "Ok"
    /\ st[o.job].generation = generation

Whole(s, st) ==
    \A text \in GoodTexts :
        s.cache[text] # NoOutput => WholeOutput(s.cache[text], s.generation, st)

Sound(s, o, st) ==
    /\ Typed(s, o, st)
    /\ Numbered(s)
    /\ Roomy(s)
    /\ Held(s, st)
    /\ Wired(s, st)
    /\ Awaits(s, o)
    /\ Quiet(s)
    /\ Whole(s, st)

ShellInv == Sound(shell, open, streams)

(* From s to t nothing is started, asked for or chosen. *)
Calmer(s, t) ==
    /\ t.rest = s.rest /\ t.startupError = s.startupError /\ t.provider = s.provider
    /\ t.config = s.config /\ t.generation = s.generation
    /\ t.nextAttempt = s.nextAttempt /\ t.cache = s.cache
    /\ t.coord.nextId = s.coord.nextId
    /\ t.coord.active \in {s.coord.active, NoJob}
    /\ t.pending \in {s.pending, NoPending}
    /\ t.choice \in {s.choice, NoChoice}

(* The popups of s that stay are as they were. *)
Kept(s, t) ==
    \A id \in DOMAIN s.popups \cap DOMAIN t.popups : t.popups[id] = s.popups[id]

(* A popup taken away was closed, or is a finished one making room for      *)
(* another source's popup.                                                  *)
Spared(s, t, evicting, source) ==
    \A id \in DOMAIN s.popups \ DOMAIN t.popups :
        \/ s.popups[id].view = "Closed"
        \/ /\ evicting
           /\ s.popups[id].view = "Result"
           /\ ~s.popups[id].pinned
           /\ id # source

(* No pinned popup is taken away. *)
SparesPins(s, t) ==
    \A id \in DOMAIN s.popups \ DOMAIN t.popups : ~s.popups[id].pinned

-----------------------------------------------------------------------------
(* Types *)

(* Zero is a value of every counter. *)
LEMMA ZeroIsThere ==
  /\ 0 \in 0..MaxId /\ 0 \in 0..MaxPopup /\ <<>> \in Seq(JobIds)
  /\ MaxId \in Nat /\ MaxPopup \in Nat /\ MaxAttempt \in Nat /\ MaxVisible \in Nat \ {0}
  /\ MaxGeneration \in Nat \ {0} /\ MaxChunks \in Nat
BY ShellAssumption, CoordinatorAssumption

(* The registry as a function.                                              *)
LEMMA PopupsArePlain ==
  ASSUME NEW p \in Popups
  PROVE  /\ DOMAIN p \subseteq PopupIds
         /\ p \in [DOMAIN p -> PopupEntry]
         /\ \A id \in DOMAIN p : p[id] \in PopupEntry
BY DEF Popups

(* The streams as a function.                                               *)
LEMMA StreamsArePlain ==
  ASSUME NEW st \in Streams
  PROVE  /\ DOMAIN st \subseteq JobIds
         /\ st \in [DOMAIN st -> Stream]
         /\ \A job \in DOMAIN st : st[job] \in Stream
BY DEF Streams

(* One entry changes. *)
LEMMA PopupEdited ==
  ASSUME NEW p \in Popups, NEW id \in DOMAIN p, NEW e \in PopupEntry
  PROVE  /\ [p EXCEPT ![id] = e] \in Popups
         /\ DOMAIN [p EXCEPT ![id] = e] = DOMAIN p
         /\ [p EXCEPT ![id] = e][id] = e
         /\ \A other \in DOMAIN p \ {id} : [p EXCEPT ![id] = e][other] = p[other]
<1>1. DOMAIN p \in SUBSET PopupIds /\ p \in [DOMAIN p -> PopupEntry]
  BY PopupsArePlain
<1>2. [p EXCEPT ![id] = e] \in [DOMAIN p -> PopupEntry]
  BY <1>1
<1> QED
  BY <1>1, <1>2 DEF Popups

(* Some popups go, the others stay as they are.                             *)
LEMMA PopupsRestricted ==
  ASSUME NEW p \in Popups, NEW ids
  PROVE  /\ Restrict(p, DOMAIN p \ ids) \in Popups
         /\ DOMAIN Restrict(p, DOMAIN p \ ids) = DOMAIN p \ ids
         /\ \A id \in DOMAIN p \ ids : Restrict(p, DOMAIN p \ ids)[id] = p[id]
<1>1. DOMAIN p \in SUBSET PopupIds /\ \A id \in DOMAIN p : p[id] \in PopupEntry
  BY PopupsArePlain
<1>2. Restrict(p, DOMAIN p \ ids) \in [DOMAIN p \ ids -> PopupEntry]
  BY <1>1 DEF Restrict
<1>3. DOMAIN p \ ids \in SUBSET PopupIds
  BY <1>1
<1> QED
  BY <1>2, <1>3 DEF Popups, Restrict

(* A new popup, the others stay as they are.                                *)
LEMMA PopupAdded ==
  ASSUME NEW p \in Popups, NEW id \in PopupIds, id \notin DOMAIN p
  PROVE  /\ Entered(p, id, NewEntry) \in Popups
         /\ DOMAIN Entered(p, id, NewEntry) = DOMAIN p \cup {id}
         /\ Entered(p, id, NewEntry)[id] = NewEntry
         /\ \A other \in DOMAIN p : Entered(p, id, NewEntry)[other] = p[other]
<1>1. DOMAIN p \in SUBSET PopupIds /\ \A other \in DOMAIN p : p[other] \in PopupEntry
  BY PopupsArePlain
<1>2. NewEntry \in PopupEntry
  BY DEF NewEntry, PopupEntry
<1>3. Entered(p, id, NewEntry) \in [DOMAIN p \cup {id} -> PopupEntry]
  BY <1>1, <1>2 DEF Entered
<1>4. DOMAIN p \cup {id} \in SUBSET PopupIds
  BY <1>1
<1> QED
  BY <1>3, <1>4 DEF Popups, Entered

-----------------------------------------------------------------------------
(* The smallest and the largest of some popup ids *)

(* Only finitely many ids exist, so sets of popups have an oldest and a newest. *)
LEMMA PopupIdsAreFinite == IsFiniteSet(PopupIds)
<1>1. MaxPopup \in Int /\ 1 \in Int
  BY ShellAssumption
<1> QED
  BY <1>1, FS_Interval DEF PopupIds

(* The oldest of some popups is one of them.  The smallest element of a     *)
(* finite set is found by well-founded induction on its initial segments.   *)
LEMMA MinIsThere ==
  ASSUME NEW S \in SUBSET PopupIds, S # {}
  PROVE  Min(S) \in S
<1>0. IsFiniteSet(S)
  BY PopupIdsAreFinite, FS_Subset
<1>1. S \subseteq Int
  BY DEF PopupIds
<1> DEFINE Below(x) == {y \in S : y <= x}
           T == {Below(x) : x \in S}
<1>2. T \subseteq FiniteSubsetsOf(S) /\ T # {}
  <2>1. FiniteSubsetsOf(S) = SUBSET S
    BY <1>0, FS_FiniteSubsetsOfFinite
  <2>2. \A x \in S : Below(x) \in SUBSET S
    OBVIOUS
  <2> HIDE DEF Below
  <2> QED
    BY <2>1, <2>2
<1>3. PICK t \in T : \A u \in T : ~(<<u, t>> \in StrictSubsetOrdering(S))
  <2> HIDE DEF T
  <2> QED
    BY <1>1, <1>2, FS_StrictSubsetOrderingWellFounded, WFMin
<1>4. PICK x \in S : t = Below(x)
  OBVIOUS
<1>5. \A y \in S : x <= y
  <2> SUFFICES ASSUME NEW y \in S, ~(x <= y) PROVE FALSE
    OBVIOUS
  <2>1. Below(y) \in T /\ Below(y) \subseteq S /\ Below(x) \subseteq S
    OBVIOUS
  <2> HIDE DEF T
  <2>2. Below(y) \subseteq Below(x) /\ x \in Below(x) /\ x \notin Below(y)
    <3>1. x \in Int /\ y \in Int /\ \A z \in S : z \in Int
      BY <1>1
    <3>2. \A z \in S : z <= y => z <= x
      BY <3>1
    <3>3. x <= x
      BY <3>1
    <3> QED
      BY <3>2, <3>3
  <2> HIDE DEF Below
  <2>3. Below(y) # Below(x) /\ <<Below(y), Below(x)>> \in (SUBSET S) \X (SUBSET S)
    BY <2>1, <2>2
  <2>4. <<Below(y), Below(x)>> \in StrictSubsetOrdering(S)
    BY <2>2, <2>3 DEF StrictSubsetOrdering
  <2> QED
    BY <1>3, <1>4, <2>1, <2>4
<1> QED
  BY <1>5 DEF Min

(* The newest of some popups is one of them.                                *)
LEMMA MaxIsThere ==
  ASSUME NEW S \in SUBSET PopupIds, S # {}
  PROVE  Max(S) \in S
<1>0. IsFiniteSet(S)
  BY PopupIdsAreFinite, FS_Subset
<1>1. S \subseteq Int
  BY DEF PopupIds
<1> DEFINE Above(x) == {y \in S : y >= x}
           T == {Above(x) : x \in S}
<1>2. T \subseteq FiniteSubsetsOf(S) /\ T # {}
  <2>1. FiniteSubsetsOf(S) = SUBSET S
    BY <1>0, FS_FiniteSubsetsOfFinite
  <2>2. \A x \in S : Above(x) \in SUBSET S
    OBVIOUS
  <2> HIDE DEF Above
  <2> QED
    BY <2>1, <2>2
<1>3. PICK t \in T : \A u \in T : ~(<<u, t>> \in StrictSubsetOrdering(S))
  <2> HIDE DEF T
  <2> QED
    BY <1>1, <1>2, FS_StrictSubsetOrderingWellFounded, WFMin
<1>4. PICK x \in S : t = Above(x)
  OBVIOUS
<1>5. \A y \in S : x >= y
  <2> SUFFICES ASSUME NEW y \in S, ~(x >= y) PROVE FALSE
    OBVIOUS
  <2>1. Above(y) \in T /\ Above(y) \subseteq S /\ Above(x) \subseteq S
    OBVIOUS
  <2> HIDE DEF T
  <2>2. Above(y) \subseteq Above(x) /\ x \in Above(x) /\ x \notin Above(y)
    <3>1. x \in Int /\ y \in Int /\ \A z \in S : z \in Int
      BY <1>1
    <3>2. \A z \in S : z >= y => z >= x
      BY <3>1
    <3>3. x >= x
      BY <3>1
    <3> QED
      BY <3>2, <3>3
  <2> HIDE DEF Above
  <2>3. Above(y) # Above(x) /\ <<Above(y), Above(x)>> \in (SUBSET S) \X (SUBSET S)
    BY <2>1, <2>2
  <2>4. <<Above(y), Above(x)>> \in StrictSubsetOrdering(S)
    BY <2>2, <2>3 DEF StrictSubsetOrdering
  <2> QED
    BY <1>3, <1>4, <2>1, <2>4
<1> QED
  BY <1>5 DEF Max

-----------------------------------------------------------------------------
(* Cancelling and removing *)

(* Stopping the stream of the active popup leaves nothing it owns behind.   *)
LEMMA StopStreamSound ==
  ASSUME NEW s, NEW o, NEW st, Sound(s, o, st)
  PROVE  LET t == StopStream(s)
         IN  /\ Sound(t, o, st) /\ Calmer(s, t)
             /\ t.popups = s.popups /\ t.nextPopup = s.nextPopup
             /\ t.pending = s.pending /\ t.choice = s.choice
             /\ t.coord.active = NoJob /\ t.activePopup = 0
<1> DEFINE t == StopStream(s)
<1>1. CancelActiveJob(s.coord) \in CoordinatorValue
  BY DEF Sound, Typed, Shell, CancelActiveJob, CoordinatorValue, Job, NoJob
<1>2. s.revoked \cup ({s.token} \ {0}) \in SUBSET JobIds
  BY DEF Sound, Typed, Shell, JobIds
<1>3. /\ t \in Shell
      /\ t.rest = s.rest /\ t.startupError = s.startupError /\ t.provider = s.provider
      /\ t.config = s.config /\ t.generation = s.generation
      /\ t.nextAttempt = s.nextAttempt /\ t.cache = s.cache
      /\ t.popups = s.popups /\ t.nextPopup = s.nextPopup
      /\ t.pending = s.pending /\ t.choice = s.choice
      /\ t.coord = CancelActiveJob(s.coord) /\ t.token = 0 /\ t.activePopup = 0
      /\ t.revoked = s.revoked \cup ({s.token} \ {0})
  BY <1>1, <1>2, ZeroIsThere DEF Sound, Typed, Shell, StopStream
<1>4. t.coord.active = NoJob /\ t.coord.nextId = s.coord.nextId
  BY <1>3 DEF Sound, Typed, Shell, CancelActiveJob, CoordinatorValue
<1> HIDE DEF t
<1>5. Calmer(s, t)
  BY <1>3, <1>4 DEF Calmer
<1>6. Numbered(t) /\ Roomy(t) /\ Quiet(t) /\ Whole(t, st) /\ Awaits(t, o)
  BY <1>3, <1>4 DEF Sound, Numbered, Roomy, Quiet, Whole, Awaits
<1>7. Held(t, st) /\ Wired(t, st)
  <2>1. \A job \in DOMAIN st : job # 0
    BY StreamsArePlain DEF Sound, Typed, JobIds
  <2> QED
    BY <2>1, <1>3, <1>4 DEF Sound, Held, Wired, Presented
<1> QED
  BY <1>3, <1>4, <1>5, <1>6, <1>7 DEF Sound, Typed, t

(* The pending extraction is dropped.                                       *)
LEMMA CancelPendingSound ==
  ASSUME NEW s, NEW o, NEW st, Sound(s, o, st)
  PROVE  LET t == CancelPendingExtraction(s)
         IN  /\ Sound(t, o, st) /\ Calmer(s, t)
             /\ t.popups = s.popups /\ t.nextPopup = s.nextPopup
             /\ t.pending = NoPending /\ t.choice = s.choice /\ t.coord = s.coord
             /\ t.activePopup = s.activePopup
<1> DEFINE t == CancelPendingExtraction(s)
<1>1. s \in Shell
  BY DEF Sound, Typed
<1>2. /\ t \in Shell
      /\ t.rest = s.rest /\ t.startupError = s.startupError /\ t.provider = s.provider
      /\ t.config = s.config /\ t.generation = s.generation
      /\ t.nextAttempt = s.nextAttempt /\ t.cache = s.cache
      /\ t.popups = s.popups /\ t.nextPopup = s.nextPopup
      /\ t.pending = NoPending /\ t.choice = s.choice /\ t.coord = s.coord
      /\ t.token = s.token /\ t.revoked = s.revoked /\ t.output = s.output
      /\ t.activeRequest = s.activeRequest /\ t.activePopup = s.activePopup
      /\ t.popupJob = s.popupJob
  BY <1>1 DEF Shell, CancelPendingExtraction
<1>3. NoPending.trigger # "Manual"
  BY DEF NoPending
<1> HIDE DEF t
<1> QED
  BY <1>2, <1>3 DEF Sound, Typed, Calmer, Numbered, Roomy, Quiet, Whole, Awaits, Held,
                    Wired, Presented, t

(* The choice is dropped.                                                   *)
LEMMA DropChoiceSound ==
  ASSUME NEW s, NEW o, NEW st, Sound(s, o, st)
  PROVE  LET t == [s EXCEPT !.choice = NoChoice]
         IN  /\ Sound(t, o, st) /\ Calmer(s, t)
             /\ t.popups = s.popups /\ t.nextPopup = s.nextPopup
             /\ t.pending = s.pending /\ t.choice = NoChoice /\ t.coord = s.coord
             /\ t.activePopup = s.activePopup
<1> DEFINE t == [s EXCEPT !.choice = NoChoice]
<1>1. s \in Shell
  BY DEF Sound, Typed
<1>2. /\ t \in Shell
      /\ t.rest = s.rest /\ t.startupError = s.startupError /\ t.provider = s.provider
      /\ t.config = s.config /\ t.generation = s.generation
      /\ t.nextAttempt = s.nextAttempt /\ t.cache = s.cache
      /\ t.popups = s.popups /\ t.nextPopup = s.nextPopup
      /\ t.pending = s.pending /\ t.choice = NoChoice /\ t.coord = s.coord
      /\ t.token = s.token /\ t.revoked = s.revoked /\ t.output = s.output
      /\ t.activeRequest = s.activeRequest /\ t.activePopup = s.activePopup
      /\ t.popupJob = s.popupJob
  BY <1>1 DEF Shell
<1> HIDE DEF t
<1> QED
  BY <1>2 DEF Sound, Typed, Calmer, Numbered, Roomy, Quiet, Whole, Awaits, Held,
              Wired, Presented, t

(* Two calmer steps are one.                                                *)
LEMMA CalmerTransitive ==
  ASSUME NEW r, NEW s, NEW t, Calmer(r, s), Calmer(s, t)
  PROVE  Calmer(r, t)
BY DEF Calmer

(* cancel_inflight_work: neither an extraction nor a job is left.           *)
LEMMA CancelInflightSound ==
  ASSUME NEW s, NEW o, NEW st, Sound(s, o, st)
  PROVE  LET t == CancelInflightWork(s)
         IN  /\ Sound(t, o, st) /\ Calmer(s, t)
             /\ t.popups = s.popups /\ t.nextPopup = s.nextPopup
             /\ t.pending = NoPending /\ t.choice = s.choice /\ t.coord.active = NoJob
             /\ t.activePopup = 0
<1> DEFINE c == CancelPendingExtraction(s)
           t == StopStream(c)
<1>1. /\ Sound(c, o, st) /\ Calmer(s, c) /\ c.popups = s.popups
      /\ c.nextPopup = s.nextPopup /\ c.pending = NoPending /\ c.choice = s.choice
  BY CancelPendingSound
<1> HIDE DEF c
<1>2. /\ Sound(t, o, st) /\ Calmer(c, t) /\ t.popups = c.popups
      /\ t.nextPopup = c.nextPopup /\ t.pending = c.pending /\ t.choice = c.choice
      /\ t.coord.active = NoJob /\ t.activePopup = 0
  BY <1>1, StopStreamSound
<1>3. Calmer(s, t)
  BY <1>1, <1>2, CalmerTransitive
<1> QED
  BY <1>1, <1>2, <1>3 DEF CancelInflightWork, c

Forgetting(s, ids) == [s EXCEPT !.popups = Restrict(@, DOMAIN @ \ ids)]

(* Popups leave the registry once nothing refers to them.                   *)
LEMMA ForgetPopupsSound ==
  ASSUME NEW s, NEW o, NEW st, Sound(s, o, st), NEW ids,
         Presented(s) => s.activePopup \notin ids,
         s.choice # NoChoice => s.choice.popup \notin ids
  PROVE  LET t == Forgetting(s, ids)
         IN  /\ Sound(t, o, st) /\ Calmer(s, t) /\ Kept(s, t)
             /\ DOMAIN t.popups = DOMAIN s.popups \ ids
             /\ t.nextPopup = s.nextPopup /\ t.pending = s.pending
             /\ t.choice = s.choice /\ t.coord = s.coord
<1> DEFINE new == Restrict(s.popups, DOMAIN s.popups \ ids)
           t == Forgetting(s, ids)
<1>1. s \in Shell /\ s.popups \in Popups
  BY DEF Sound, Typed, Shell
<1>2. /\ new \in Popups /\ DOMAIN new = DOMAIN s.popups \ ids
      /\ \A id \in DOMAIN s.popups \ ids : new[id] = s.popups[id]
  BY <1>1, PopupsRestricted
<1>3. t = [s EXCEPT !.popups = new]
  BY DEF Forgetting, new, t
<1> HIDE DEF new, t
<1>4. /\ t \in Shell
      /\ t.rest = s.rest /\ t.startupError = s.startupError /\ t.provider = s.provider
      /\ t.config = s.config /\ t.generation = s.generation
      /\ t.nextAttempt = s.nextAttempt /\ t.cache = s.cache
      /\ t.popups = new /\ t.nextPopup = s.nextPopup
      /\ t.pending = s.pending /\ t.choice = s.choice /\ t.coord = s.coord
      /\ t.token = s.token /\ t.revoked = s.revoked /\ t.output = s.output
      /\ t.activeRequest = s.activeRequest /\ t.activePopup = s.activePopup
      /\ t.popupJob = s.popupJob
  BY <1>1, <1>2, <1>3 DEF Shell
<1>5. Roomy(t)
  <2>1. IsFiniteSet(DOMAIN s.popups)
    BY <1>1, PopupsArePlain, PopupIdsAreFinite, FS_Subset
  <2>2. DOMAIN new \in SUBSET DOMAIN s.popups
    BY <1>2
  <2>3. /\ Cardinality(DOMAIN new) <= Cardinality(DOMAIN s.popups)
        /\ Cardinality(DOMAIN new) \in Nat /\ Cardinality(DOMAIN s.popups) \in Nat
    BY <2>1, <2>2, FS_Subset, FS_CardinalityType
  <2>4. MaxVisible \in Nat
    BY ZeroIsThere
  <2> QED
    BY <2>3, <2>4, <1>4 DEF Sound, Roomy
<1>6. Numbered(t) /\ Kept(s, t) /\ Quiet(t)
  BY <1>2, <1>4 DEF Sound, Numbered, Kept, Quiet
<1>7. Awaits(t, o) /\ Held(t, st) /\ Whole(t, st) /\ Calmer(s, t)
  BY <1>2, <1>4 DEF Sound, Awaits, Held, Whole, Calmer
<1>8. Wired(t, st)
  BY <1>2, <1>4 DEF Sound, Wired, Presented
<1> QED
  BY <1>2, <1>4, <1>5, <1>6, <1>7, <1>8 DEF Sound, Typed, t

(* remove_popup: what the popup was shown, asked or awaited for goes too.    *)
LEMMA RemovePopupsSound ==
  ASSUME NEW s, NEW o, NEW st, Sound(s, o, st), NEW ids
  PROVE  LET t == RemovePopups(s, ids)
         IN  /\ Sound(t, o, st) /\ Calmer(s, t) /\ Kept(s, t)
             /\ DOMAIN t.popups = DOMAIN s.popups \ ids
             /\ t.nextPopup = s.nextPopup
             /\ s.choice.popup \in ids => t.choice = NoChoice
<1> DEFINE p == IF s.pending.source \in ids THEN CancelPendingExtraction(s) ELSE s
           c == IF s.choice.popup \in ids THEN [p EXCEPT !.choice = NoChoice] ELSE p
           a == IF s.activePopup \in ids THEN StopStream(c) ELSE c
           t == Forgetting(a, ids)
<1>0. Calmer(s, s)
  BY DEF Calmer
<1>1. /\ Sound(p, o, st) /\ Calmer(s, p) /\ p.popups = s.popups
      /\ p.nextPopup = s.nextPopup /\ p.choice = s.choice
      /\ p.activePopup = s.activePopup
  BY <1>0, CancelPendingSound
<1> HIDE DEF p
<1>2. /\ Sound(c, o, st) /\ Calmer(p, c) /\ c.popups = s.popups
      /\ c.nextPopup = s.nextPopup /\ c.activePopup = s.activePopup
      /\ c.choice = IF s.choice.popup \in ids THEN NoChoice ELSE s.choice
  <2>1. CASE s.choice.popup \in ids
    BY <1>1, <2>1, DropChoiceSound
  <2>2. CASE s.choice.popup \notin ids
    BY <1>1, <2>2 DEF Calmer
  <2> QED
    BY <2>1, <2>2
<1> HIDE DEF c
<1>3. /\ Sound(a, o, st) /\ Calmer(c, a) /\ a.popups = s.popups
      /\ a.nextPopup = s.nextPopup /\ a.choice = c.choice
      /\ Presented(a) => a.activePopup \notin ids
  <2>1. CASE s.activePopup \in ids
    BY <1>2, <2>1, StopStreamSound DEF Presented
  <2>2. CASE s.activePopup \notin ids
    BY <1>2, <2>2 DEF Calmer
  <2> QED
    BY <2>1, <2>2
<1> HIDE DEF a
<1>4. /\ Sound(t, o, st) /\ Calmer(a, t) /\ Kept(a, t)
      /\ DOMAIN t.popups = DOMAIN a.popups \ ids
      /\ t.nextPopup = a.nextPopup /\ t.choice = a.choice
  <2>1. a.choice # NoChoice => a.choice.popup \notin ids
    BY <1>2, <1>3
  <2> QED
    BY <2>1, <1>3, ForgetPopupsSound
<1> HIDE DEF t
<1>5. Calmer(s, t)
  BY <1>1, <1>2, <1>3, <1>4, CalmerTransitive
<1>6. Kept(s, t)
  BY <1>3, <1>4 DEF Kept
<1>7. RemovePopups(s, ids) = t
  BY DEF RemovePopups, Forgetting, p, c, a, t
<1> QED
  BY <1>2, <1>3, <1>4, <1>5, <1>6, <1>7

(* remove_popup, for one popup or for none.                                 *)
LEMMA RemovePopupSound ==
  ASSUME NEW s, NEW o, NEW st, Sound(s, o, st), NEW id
  PROVE  LET t == RemovePopup(s, id)
         IN  /\ Sound(t, o, st) /\ Calmer(s, t) /\ Kept(s, t)
             /\ DOMAIN t.popups = DOMAIN s.popups \ {id}
             /\ t.nextPopup = s.nextPopup
             /\ s.choice.popup = id /\ id # 0 => t.choice = NoChoice
<1>1. 0 \notin DOMAIN s.popups
  <2>1. DOMAIN s.popups \subseteq PopupIds
    BY PopupsArePlain DEF Sound, Typed, Shell
  <2> QED
    BY <2>1 DEF PopupIds
<1>2. DOMAIN s.popups \ ({id} \ {0}) = DOMAIN s.popups \ {id}
  BY <1>1
<1> QED
  BY <1>2, RemovePopupsSound DEF RemovePopup

-----------------------------------------------------------------------------
(* Finding a surface *)

(* A window that could not be created costs an id.                          *)
LEMMA SkipIdSound ==
  ASSUME NEW s, NEW o, NEW st, Sound(s, o, st), s.nextPopup <= MaxPopup
  PROVE  LET t == [s EXCEPT !.nextPopup = @ + 1]
         IN  /\ Sound(t, o, st) /\ Calmer(s, t) /\ t.popups = s.popups
<1> DEFINE t == [s EXCEPT !.nextPopup = @ + 1]
<1>1. s \in Shell /\ DOMAIN s.popups \subseteq PopupIds
  BY PopupsArePlain DEF Sound, Typed, Shell
<1>2. s.nextPopup + 1 \in 1..(MaxPopup + 1)
  BY <1>1, ZeroIsThere DEF Shell
<1>3. /\ t \in Shell
      /\ t.rest = s.rest /\ t.startupError = s.startupError /\ t.provider = s.provider
      /\ t.config = s.config /\ t.generation = s.generation
      /\ t.nextAttempt = s.nextAttempt /\ t.cache = s.cache
      /\ t.popups = s.popups /\ t.nextPopup = s.nextPopup + 1
      /\ t.pending = s.pending /\ t.choice = s.choice /\ t.coord = s.coord
      /\ t.token = s.token /\ t.revoked = s.revoked /\ t.output = s.output
      /\ t.activeRequest = s.activeRequest /\ t.activePopup = s.activePopup
      /\ t.popupJob = s.popupJob
  BY <1>1, <1>2 DEF Shell
<1> HIDE DEF t
<1>4. Numbered(t)
  <2>1. s.nextPopup \in Int /\ \A id \in DOMAIN s.popups : id \in Int
    BY <1>1, ZeroIsThere DEF Shell, PopupIds
  <2> QED
    BY <1>3, <2>1 DEF Sound, Numbered
<1> QED
  BY <1>3, <1>4 DEF Sound, Typed, Calmer, Roomy, Quiet, Whole, Awaits, Held,
                    Wired, Presented, t

(* A new popup enters the registry where there is room.                     *)
LEMMA OpenPopupSound ==
  ASSUME NEW s, NEW o, NEW st, Sound(s, o, st), ~s.rest, s.nextPopup <= MaxPopup, ~Full(s)
  PROVE  LET t == [s EXCEPT !.popups = Entered(@, s.nextPopup, NewEntry),
                            !.nextPopup = @ + 1]
         IN  /\ Sound(t, o, st) /\ Calmer(s, t) /\ Kept(s, t)
             /\ DOMAIN t.popups = DOMAIN s.popups \cup {s.nextPopup}
             /\ Alive(t, s.nextPopup)
<1> DEFINE id == s.nextPopup
           new == Entered(s.popups, id, NewEntry)
           t == [s EXCEPT !.popups = Entered(@, s.nextPopup, NewEntry), !.nextPopup = @ + 1]
<1>1. s \in Shell /\ s.popups \in Popups /\ DOMAIN s.popups \subseteq PopupIds
  BY PopupsArePlain DEF Sound, Typed, Shell
<1>2. id \in PopupIds /\ id + 1 \in 1..(MaxPopup + 1) /\ id \in Int
  BY <1>1, ZeroIsThere DEF Shell, PopupIds
<1>3. \A other \in DOMAIN s.popups : other \in Int /\ other < id
  BY <1>1, <1>2 DEF Sound, Numbered, PopupIds
<1>4. id \notin DOMAIN s.popups
  BY <1>2, <1>3
<1>5. /\ new \in Popups /\ DOMAIN new = DOMAIN s.popups \cup {id} /\ new[id] = NewEntry
      /\ \A other \in DOMAIN s.popups : new[other] = s.popups[other]
  BY <1>1, <1>2, <1>4, PopupAdded
<1>6. t = [s EXCEPT !.popups = new, !.nextPopup = id + 1]
  BY DEF new, t, id
<1> HIDE DEF id, new, t
<1>7. /\ t \in Shell
      /\ t.rest = s.rest /\ t.startupError = s.startupError /\ t.provider = s.provider
      /\ t.config = s.config /\ t.generation = s.generation
      /\ t.nextAttempt = s.nextAttempt /\ t.cache = s.cache
      /\ t.popups = new /\ t.nextPopup = id + 1
      /\ t.pending = s.pending /\ t.choice = s.choice /\ t.coord = s.coord
      /\ t.token = s.token /\ t.revoked = s.revoked /\ t.output = s.output
      /\ t.activeRequest = s.activeRequest /\ t.activePopup = s.activePopup
      /\ t.popupJob = s.popupJob
  BY <1>1, <1>2, <1>5, <1>6 DEF Shell
<1>8. Roomy(t)
  <2>1. IsFiniteSet(DOMAIN s.popups)
    BY <1>1, PopupIdsAreFinite, FS_Subset
  <2>2. Cardinality(DOMAIN new) = Cardinality(DOMAIN s.popups) + 1
    BY <2>1, <1>4, <1>5, FS_AddElement
  <2>3. Cardinality(DOMAIN s.popups) \in Nat /\ MaxVisible \in Nat
    BY <2>1, FS_CardinalityType, ZeroIsThere
  <2> QED
    BY <2>2, <2>3, <1>7 DEF Roomy, Full
<1>9. Numbered(t) /\ Kept(s, t) /\ Alive(t, id)
  <2>1. id < id + 1 /\ \A other \in DOMAIN s.popups : other < id + 1
    BY <1>2, <1>3
  <2> QED
    BY <2>1, <1>4, <1>5, <1>7 DEF Sound, Numbered, Kept, Alive, NewEntry
<1>10. Quiet(t) /\ Awaits(t, o) /\ Held(t, st) /\ Whole(t, st) /\ Calmer(s, t)
  BY <1>5, <1>7 DEF Sound, Quiet, Awaits, Held, Whole, Calmer
<1>11. Wired(t, st)
  BY <1>5, <1>7 DEF Sound, Wired, Presented
<1> QED
  BY <1>5, <1>7, <1>8, <1>9, <1>10, <1>11 DEF Sound, Typed, t, id

(* A popup is found, or room is made at the cost of a finished one.         *)
LEMMA CreatePopupSound ==
  ASSUME NEW s, NEW o, NEW st, Sound(s, o, st), ~s.rest, NEW source, NEW canShow \in BOOLEAN
  PROVE  LET f == CreatePopup(s, source, canShow)
             t == f.shell
         IN  /\ Sound(t, o, st) /\ Calmer(s, t) /\ Kept(s, t)
             /\ f.popup = 0 \/ Alive(t, f.popup)
             /\ f.popup \in {0, s.nextPopup}
             /\ DOMAIN t.popups \subseteq DOMAIN s.popups \cup {s.nextPopup}
             /\ Spared(s, t, Full(s) /\ Evictable(s, source) # {}, source)
<1> DEFINE f == CreatePopup(s, source, canShow)
           able == Full(s) /\ Evictable(s, source) # {}
           evicted == IF Full(s) THEN {Min(Evictable(s, source))} ELSE {}
           kept == RemovePopups(s, evicted)
           t == [kept EXCEPT !.popups = Entered(@, s.nextPopup, NewEntry),
                             !.nextPopup = @ + 1]
<1>0. /\ s.nextPopup \in Int /\ MaxPopup \in Int /\ Calmer(s, s) /\ Kept(s, s)
      /\ DOMAIN s.popups \subseteq PopupIds
  BY ZeroIsThere, PopupsArePlain DEF Sound, Typed, Shell, Calmer, Kept
<1>1. CASE (Full(s) /\ Evictable(s, source) = {}) \/ s.nextPopup > MaxPopup
  <2>1. f = NoSurface(s)
    BY <1>1 DEF CreatePopup
  <2> QED
    BY <2>1, <1>0 DEF NoSurface, Spared
<1>2. CASE ~((Full(s) /\ Evictable(s, source) = {}) \/ s.nextPopup > MaxPopup) /\ ~canShow
  <2> DEFINE skipped == [s EXCEPT !.nextPopup = @ + 1]
  <2>1. f = NoSurface(skipped)
    BY <1>2 DEF CreatePopup
  <2>2. s.nextPopup <= MaxPopup
    BY <1>0, <1>2
  <2>3. Sound(skipped, o, st) /\ Calmer(s, skipped) /\ skipped.popups = s.popups
    BY <2>2, SkipIdSound
  <2> HIDE DEF f, skipped
  <2>4. Kept(s, skipped) /\ Spared(s, skipped, able, source)
    BY <2>3 DEF Kept, Spared
  <2>5. f.shell = skipped /\ f.popup = 0
    BY <2>1 DEF NoSurface
  <2> QED
    BY <2>3, <2>4, <2>5 DEF f
<1>3. CASE ~((Full(s) /\ Evictable(s, source) = {}) \/ s.nextPopup > MaxPopup) /\ canShow
  <2>1. f = OnSurface(t, s.nextPopup)
    BY <1>3 DEF CreatePopup
  <2>2. s.nextPopup <= MaxPopup
    BY <1>0, <1>3
  <2>3. Full(s) => Min(Evictable(s, source)) \in Evictable(s, source)
    <3>1. Evictable(s, source) \in SUBSET PopupIds
      BY <1>0 DEF Evictable, Reusable
    <3> QED
      BY <3>1, <1>3, MinIsThere
  <2>4. /\ Sound(kept, o, st) /\ Calmer(s, kept) /\ Kept(s, kept)
        /\ DOMAIN kept.popups = DOMAIN s.popups \ evicted
        /\ kept.nextPopup = s.nextPopup
    BY RemovePopupsSound
  <2>5. ~Full(kept)
    <3>1. CASE ~Full(s)
      BY <3>1, <2>4 DEF Full
    <3>2. CASE Full(s)
      <4> DEFINE gone == Min(Evictable(s, source))
      <4>1. gone \in DOMAIN s.popups /\ DOMAIN kept.popups = DOMAIN s.popups \ {gone}
        BY <3>2, <2>3, <2>4 DEF Evictable, Reusable
      <4> HIDE DEF gone, kept
      <4>2. IsFiniteSet(DOMAIN s.popups)
        BY <1>0, PopupIdsAreFinite, FS_Subset
      <4>3. Cardinality(DOMAIN kept.popups) = Cardinality(DOMAIN s.popups) - 1
        BY <4>1, <4>2, FS_RemoveElement
      <4>4. /\ Cardinality(DOMAIN s.popups) \in Nat /\ MaxVisible \in Nat
            /\ Cardinality(DOMAIN s.popups) <= MaxVisible
        BY <4>2, FS_CardinalityType, ZeroIsThere DEF Sound, Roomy
      <4> QED
        BY <4>3, <4>4 DEF Full
    <3> QED
      BY <3>1, <3>2
  <2>6. Spared(s, kept, able, source)
    BY <2>3, <2>4 DEF Spared, Evictable, Reusable
  <2> HIDE DEF kept, evicted
  <2>7. ~kept.rest
    BY <2>4 DEF Calmer
  <2>8. /\ Sound(t, o, st) /\ Calmer(kept, t) /\ Kept(kept, t)
        /\ DOMAIN t.popups = DOMAIN kept.popups \cup {s.nextPopup}
        /\ Alive(t, s.nextPopup)
    BY <2>2, <2>4, <2>5, <2>7, OpenPopupSound
  <2> HIDE DEF t
  <2>9. s.nextPopup \notin DOMAIN s.popups
    <3>1. \A id \in DOMAIN s.popups : id \in Int /\ id < s.nextPopup
      BY <1>0 DEF PopupIds, Sound, Numbered
    <3> QED
      BY <3>1, <1>0
  <2>10. Calmer(s, t) /\ Kept(s, t) /\ Spared(s, t, able, source)
    <3>1. Calmer(s, t)
      BY <2>4, <2>8, CalmerTransitive
    <3>2. Kept(s, t)
      BY <2>4, <2>8, <2>9 DEF Kept
    <3>3. Spared(s, t, able, source)
      BY <2>6, <2>8 DEF Spared
    <3> QED
      BY <3>1, <3>2, <3>3
  <2>11. DOMAIN t.popups \subseteq DOMAIN s.popups \cup {s.nextPopup}
    BY <2>4, <2>8
  <2> QED
    BY <2>1, <2>8, <2>10, <2>11 DEF OnSurface
<1> QED
  BY <1>1, <1>2, <1>3

(* ensure_popup: an open popup is found or made, and only a cascade at       *)
(* capacity may cost one that is not closed.                                *)
LEMMA EnsurePopupSound ==
  ASSUME NEW s, NEW o, NEW st, Sound(s, o, st), ~s.rest,
         NEW destination, NEW source, NEW forceNew \in BOOLEAN, NEW canShow \in BOOLEAN
  PROVE  LET f == EnsurePopup(s, destination, source, forceNew, canShow)
             t == f.shell
         IN  /\ Sound(t, o, st) /\ Calmer(s, t) /\ Kept(s, t)
             /\ f.popup = 0 \/ Alive(t, f.popup)
             /\ f.popup \in DOMAIN s.popups \ {destination} => ~s.popups[f.popup].pinned
             /\ Spared(s, t, forceNew, source)
<1> DEFINE f == EnsurePopup(s, destination, source, forceNew, canShow)
           there == RemovePopup(s, destination)
           reused == IF forceNew \/ Reusable(there) = {} THEN 0 ELSE Max(Reusable(there))
           r == RemovePopup(there, reused)
           g == CreatePopup(r, source, canShow)
<1>1. CASE Alive(s, destination)
  <2>1. f = OnSurface(s, destination)
    BY <1>1 DEF EnsurePopup
  <2> HIDE DEF f
  <2>2. f.shell = s /\ f.popup = destination
    BY <2>1 DEF OnSurface
  <2> QED
    BY <1>1, <2>2 DEF Calmer, Kept, Spared, f
<1>2. CASE ~Alive(s, destination)
  <2>1. /\ Sound(there, o, st) /\ Calmer(s, there) /\ Kept(s, there)
        /\ DOMAIN there.popups = DOMAIN s.popups \ {destination}
        /\ there.nextPopup = s.nextPopup
    BY RemovePopupSound
  <2>2. f = IF Alive(there, reused) THEN OnSurface(there, reused) ELSE g
    BY <1>2 DEF EnsurePopup
  <2> HIDE DEF there, f
  <2>3. Spared(s, there, FALSE, source)
    BY <1>2, <2>1 DEF Spared, Alive
  <2>4. CASE Alive(there, reused)
    <3>0. ~s.popups[reused].pinned
      <4>1. 0 \notin DOMAIN there.popups /\ Reusable(there) \in SUBSET PopupIds
        BY <2>1, PopupsArePlain DEF Sound, Typed, Shell, PopupIds, Reusable
      <4>2. reused \in Reusable(there)
        BY <2>4, <4>1, MaxIsThere DEF Alive
      <4> QED
        BY <2>1, <4>2 DEF Reusable, Kept
    <3> HIDE DEF reused
    <3>1. f.shell = there /\ f.popup = reused
      BY <2>2, <2>4 DEF OnSurface
    <3> QED
      BY <2>1, <2>3, <2>4, <3>0, <3>1 DEF Spared, f
  <2>5. CASE ~Alive(there, reused)
    <3>1. DOMAIN there.popups \subseteq PopupIds
      BY <2>1, PopupsArePlain DEF Sound, Typed, Shell
    <3>2. forceNew \/ Reusable(there) = {} \/ reused \in DOMAIN there.popups
      <4>1. Reusable(there) \in SUBSET PopupIds
        BY <3>1 DEF Reusable
      <4> QED
        BY <4>1, MaxIsThere DEF Reusable
    <3> HIDE DEF reused
    <3>3. /\ Sound(r, o, st) /\ Calmer(there, r) /\ Kept(there, r)
          /\ DOMAIN r.popups = DOMAIN there.popups \ {reused}
          /\ r.nextPopup = there.nextPopup
      BY <2>1, RemovePopupSound
    <3> HIDE DEF r
    <3>4. ~r.rest
      BY <2>1, <3>3 DEF Calmer
    <3>5. /\ Sound(g.shell, o, st) /\ Calmer(r, g.shell) /\ Kept(r, g.shell)
          /\ g.popup = 0 \/ Alive(g.shell, g.popup)
          /\ g.popup \in {0, r.nextPopup}
          /\ DOMAIN g.shell.popups \subseteq DOMAIN r.popups \cup {r.nextPopup}
          /\ Spared(r, g.shell, Full(r) /\ Evictable(r, source) # {}, source)
      BY <3>3, <3>4, CreatePopupSound
    <3>6. f = g
      BY <2>2, <2>5
    <3> HIDE DEF g
    <3>7. Calmer(s, g.shell)
      BY <2>1, <3>3, <3>5, CalmerTransitive
    <3>8. Spared(there, r, FALSE, source)
      BY <2>5, <3>3 DEF Spared, Alive
    <3>9. Full(r) /\ Evictable(r, source) # {} => forceNew
      <4> SUFFICES ASSUME ~forceNew, Full(r), Evictable(r, source) # {} PROVE FALSE
        OBVIOUS
      <4>1. CASE Reusable(there) = {}
        <5>1. Reusable(r) = {}
          BY <4>1, <3>3 DEF Reusable, Kept
        <5> QED
          BY <5>1 DEF Evictable
      <4>2. CASE Reusable(there) # {}
        <5>1. reused \in DOMAIN there.popups
          BY <4>2, <3>2
        <5>2. IsFiniteSet(DOMAIN there.popups)
          BY <3>1, PopupIdsAreFinite, FS_Subset
        <5>3. Cardinality(DOMAIN r.popups) = Cardinality(DOMAIN there.popups) - 1
          BY <5>1, <5>2, <3>3, FS_RemoveElement
        <5>4. /\ Cardinality(DOMAIN there.popups) \in Nat /\ MaxVisible \in Nat
              /\ Cardinality(DOMAIN there.popups) <= MaxVisible
          BY <5>2, <2>1, FS_CardinalityType, ZeroIsThere DEF Sound, Roomy
        <5> QED
          BY <5>3, <5>4 DEF Full
      <4> QED
        BY <4>1, <4>2
    <3>10. Kept(s, g.shell) /\ g.popup \notin DOMAIN s.popups
      <4>1. s.nextPopup \in Int /\ \A id \in DOMAIN s.popups : id \in Int /\ id < s.nextPopup
        BY ZeroIsThere, PopupsArePlain DEF Sound, Typed, Shell, PopupIds, Numbered
      <4>2. s.nextPopup \notin DOMAIN s.popups /\ 0 \notin DOMAIN s.popups
        <5>1. DOMAIN s.popups \subseteq PopupIds
          BY PopupsArePlain DEF Sound, Typed, Shell
        <5> QED
          BY <4>1, <5>1 DEF PopupIds
      <4>3. r.nextPopup = s.nextPopup
        BY <2>1, <3>3
      <4> QED
        BY <2>1, <3>3, <3>5, <4>2, <4>3 DEF Kept
    <3>11. Spared(s, g.shell, forceNew, source)
      BY <2>1, <2>3, <3>3, <3>5, <3>8, <3>9 DEF Spared, Kept
    <3> QED
      BY <3>5, <3>6, <3>7, <3>10, <3>11 DEF f
  <2> QED
    BY <2>4, <2>5
<1> QED
  BY <1>1, <1>2

-----------------------------------------------------------------------------
(* Showing *)

(* q is p with another entry at id, which may be closed but keeps what it   *)
(* can replay.                                                              *)
Edited(p, q, id) ==
    /\ q \in Popups /\ DOMAIN q = DOMAIN p
    /\ \A other \in DOMAIN p \ {id} : q[other] = p[other]
    /\ q[id].view = "Closed" => ~q[id].pinned
    /\ q[id].replay = p[id].replay

(* From s to t only popups, what is presented and the choice change.        *)
SameWork(s, t) ==
    /\ t.rest = s.rest /\ t.startupError = s.startupError /\ t.provider = s.provider
    /\ t.config = s.config /\ t.generation = s.generation
    /\ t.nextAttempt = s.nextAttempt /\ t.cache = s.cache
    /\ t.nextPopup = s.nextPopup /\ t.pending = s.pending /\ t.coord = s.coord
    /\ t.token = s.token /\ t.revoked = s.revoked /\ t.output = s.output
    /\ t.activeRequest = s.activeRequest

(* An edited popup leaves a sound shell, unless the presentation moves to   *)
(* it under the name of the active job.                                     *)
LEMMA EditedSound ==
  ASSUME NEW s, NEW o, NEW st, Sound(s, o, st), NEW t \in Shell, NEW id \in DOMAIN s.popups,
         Edited(s.popups, t.popups, id), SameWork(s, t),
         t.choice # NoChoice => /\ t.choice.popup \in DOMAIN s.popups
                                /\ t.choice.generation = s.generation
                                /\ s.pending = NoPending,
         \/ t.popupJob = s.popupJob /\ t.activePopup = s.activePopup
         \/ ~Presented(t)
  PROVE  /\ Sound(t, o, st) /\ DOMAIN t.popups = DOMAIN s.popups
         /\ Spared(s, t, FALSE, 0)
<1>1. Numbered(t) /\ Roomy(t) /\ Spared(s, t, FALSE, 0)
  BY DEF Sound, Numbered, Roomy, Spared, Edited, SameWork
<1>2. Quiet(t)
  BY DEF Sound, Quiet, Edited, SameWork
<1>3. Held(t, st) /\ Whole(t, st) /\ Awaits(t, o)
  BY DEF Sound, Held, Whole, Awaits, Edited, SameWork
<1>4. Wired(t, st)
  <2>1. \A other \in DOMAIN s.popups : t.popups[other].replay = s.popups[other].replay
    BY DEF Edited
  <2> QED
    BY <2>1 DEF Sound, Wired, Presented, Edited, SameWork
<1> QED
  BY <1>1, <1>2, <1>3, <1>4 DEF Sound, Typed, Edited

(* One field of one entry changes; the others stay.                         *)
Touched(p, q, id) ==
    /\ q \in Popups /\ DOMAIN q = DOMAIN p
    /\ \A other \in DOMAIN p \ {id} : q[other] = p[other]

WithView(p, id, view) == [p EXCEPT ![id] = [@ EXCEPT !.view = view]]
WithChoosing(p, id, choosing) == [p EXCEPT ![id] = [@ EXCEPT !.choosing = choosing]]
WithHover(p, id, hover) == [p EXCEPT ![id] = [@ EXCEPT !.hover = hover]]
WithPin(p, id, pinned) == [p EXCEPT ![id] = [@ EXCEPT !.pinned = pinned]]
WithReplay(p, id, replay) == [p EXCEPT ![id] = [@ EXCEPT !.replay = replay]]

WithEntry(p, id, e) == [p EXCEPT ![id] = e]

(* One entry is replaced.                                                   *)
LEMMA EntryTouched ==
  ASSUME NEW p \in Popups, NEW id \in DOMAIN p, NEW e \in PopupEntry
  PROVE  Touched(p, WithEntry(p, id, e), id) /\ WithEntry(p, id, e)[id] = e
BY PopupEdited DEF Touched, WithEntry

(* Another view of a popup.                                                 *)
LEMMA WithViewTouches ==
  ASSUME NEW p \in Popups, NEW id \in DOMAIN p, NEW view \in {"Loading", "Result", "Error", "Closed"}
  PROVE  /\ Touched(p, WithView(p, id, view), id)
         /\ WithView(p, id, view)[id].view = view
         /\ WithView(p, id, view)[id].pinned = p[id].pinned
         /\ WithView(p, id, view)[id].replay = p[id].replay
<1> DEFINE e == [p[id] EXCEPT !.view = view]
<1>1. p[id] \in PopupEntry
  BY PopupsArePlain
<1>2. /\ e \in PopupEntry /\ e.view = view /\ e.pinned = p[id].pinned
      /\ e.replay = p[id].replay
  BY <1>1 DEF PopupEntry
<1>3. WithView(p, id, view) = WithEntry(p, id, e)
  BY DEF WithView, WithEntry
<1> HIDE DEF e
<1> QED
  BY <1>2, <1>3, EntryTouched

(* A popup shows its chooser or stops showing it.                           *)
LEMMA WithChoosingTouches ==
  ASSUME NEW p \in Popups, NEW id \in DOMAIN p, NEW choosing \in BOOLEAN
  PROVE  /\ Touched(p, WithChoosing(p, id, choosing), id)
         /\ WithChoosing(p, id, choosing)[id].view = p[id].view
         /\ WithChoosing(p, id, choosing)[id].pinned = p[id].pinned
         /\ WithChoosing(p, id, choosing)[id].replay = p[id].replay
<1> DEFINE e == [p[id] EXCEPT !.choosing = choosing]
<1>1. p[id] \in PopupEntry
  BY PopupsArePlain
<1>2. /\ e \in PopupEntry /\ e.view = p[id].view /\ e.pinned = p[id].pinned
      /\ e.replay = p[id].replay
  BY <1>1 DEF PopupEntry
<1>3. WithChoosing(p, id, choosing) = WithEntry(p, id, e)
  BY DEF WithChoosing, WithEntry
<1> HIDE DEF e
<1> QED
  BY <1>2, <1>3, EntryTouched

(* A popup is a Hover popup or is one no longer.                            *)
LEMMA WithHoverTouches ==
  ASSUME NEW p \in Popups, NEW id \in DOMAIN p, NEW hover \in BOOLEAN
  PROVE  /\ Touched(p, WithHover(p, id, hover), id)
         /\ WithHover(p, id, hover)[id].view = p[id].view
         /\ WithHover(p, id, hover)[id].pinned = p[id].pinned
         /\ WithHover(p, id, hover)[id].replay = p[id].replay
<1> DEFINE e == [p[id] EXCEPT !.hover = hover]
<1>1. p[id] \in PopupEntry
  BY PopupsArePlain
<1>2. /\ e \in PopupEntry /\ e.view = p[id].view /\ e.pinned = p[id].pinned
      /\ e.replay = p[id].replay
  BY <1>1 DEF PopupEntry
<1>3. WithHover(p, id, hover) = WithEntry(p, id, e)
  BY DEF WithHover, WithEntry
<1> HIDE DEF e
<1> QED
  BY <1>2, <1>3, EntryTouched

(* A popup is pinned or released.                                           *)
LEMMA WithPinTouches ==
  ASSUME NEW p \in Popups, NEW id \in DOMAIN p, NEW pinned \in BOOLEAN
  PROVE  /\ Touched(p, WithPin(p, id, pinned), id)
         /\ WithPin(p, id, pinned)[id].view = p[id].view
         /\ WithPin(p, id, pinned)[id].pinned = pinned
         /\ WithPin(p, id, pinned)[id].replay = p[id].replay
<1> DEFINE e == [p[id] EXCEPT !.pinned = pinned]
<1>1. p[id] \in PopupEntry
  BY PopupsArePlain
<1>2. /\ e \in PopupEntry /\ e.view = p[id].view /\ e.pinned = pinned
      /\ e.replay = p[id].replay
  BY <1>1 DEF PopupEntry
<1>3. WithPin(p, id, pinned) = WithEntry(p, id, e)
  BY DEF WithPin, WithEntry
<1> HIDE DEF e
<1> QED
  BY <1>2, <1>3, EntryTouched

(* A popup learns what it can replay.                                       *)
LEMMA WithReplayTouches ==
  ASSUME NEW p \in Popups, NEW id \in DOMAIN p, NEW replay \in [trigger : Triggers, text : GoodTexts]
  PROVE  /\ Touched(p, WithReplay(p, id, replay), id)
         /\ WithReplay(p, id, replay)[id].view = p[id].view
         /\ WithReplay(p, id, replay)[id].pinned = p[id].pinned
         /\ WithReplay(p, id, replay)[id].replay = replay
<1> DEFINE e == [p[id] EXCEPT !.replay = replay]
<1>1. p[id] \in PopupEntry
  BY PopupsArePlain
<1>2. /\ e \in PopupEntry /\ e.view = p[id].view /\ e.pinned = p[id].pinned
      /\ e.replay = replay
  BY <1>1 DEF PopupEntry
<1>3. WithReplay(p, id, replay) = WithEntry(p, id, e)
  BY DEF WithReplay, WithEntry
<1> HIDE DEF e
<1> QED
  BY <1>2, <1>3, EntryTouched

(* popup.show of a view, where the popup is still open.                      *)
LEMMA SetViewSound ==
  ASSUME NEW s, NEW o, NEW st, Sound(s, o, st), NEW id,
         NEW view \in {"Loading", "Result", "Error"}
  PROVE  LET t == SetView(s, id, view)
         IN  /\ Sound(t, o, st) /\ Spared(s, t, FALSE, 0)
             /\ DOMAIN t.popups = DOMAIN s.popups
             /\ SameWork(s, t)
             /\ t.popupJob = s.popupJob /\ t.activePopup = s.activePopup
             /\ t.choice = s.choice
<1> DEFINE p1 == WithView(s.popups, id, view)
           p2 == WithChoosing(p1, id, FALSE)
           t == SetView(s, id, view)
<1>1. CASE ~Alive(s, id)
  BY <1>1 DEF SetView, Spared, SameWork
<1>2. CASE Alive(s, id)
  <2>1. s \in Shell /\ s.popups \in Popups /\ id \in DOMAIN s.popups
    BY <1>2 DEF Sound, Typed, Shell, Alive
  <2>2. /\ Touched(s.popups, p1, id) /\ p1[id].view = view
        /\ p1[id].replay = s.popups[id].replay
    BY <2>1, WithViewTouches
  <2> HIDE DEF p1
  <2>3. /\ Touched(p1, p2, id) /\ p2[id].view = p1[id].view
        /\ p2[id].replay = p1[id].replay
    BY <2>1, <2>2, WithChoosingTouches DEF Touched
  <2> HIDE DEF p2
  <2>4. Edited(s.popups, p2, id)
    BY <2>2, <2>3 DEF Edited, Touched
  <2>5. t = [s EXCEPT !.popups = p2]
    BY <1>2, <2>1 DEF SetView, WithView, WithChoosing, p1, p2, Shell
  <2> HIDE DEF t
  <2>6. /\ t \in Shell /\ t.popups = p2 /\ SameWork(s, t)
        /\ t.popupJob = s.popupJob /\ t.activePopup = s.activePopup
        /\ t.choice = s.choice
    BY <2>1, <2>3, <2>5 DEF Shell, SameWork, Touched
  <2>7. t.choice # NoChoice => /\ t.choice.popup \in DOMAIN s.popups
                               /\ t.choice.generation = s.generation
                               /\ s.pending = NoPending
    BY <2>6 DEF Sound, Awaits
  <2> QED
    BY <2>1, <2>4, <2>6, <2>7, EditedSound DEF t
<1> QED
  BY <1>1, <1>2

(* show_local_error: the presentation moves to a popup with a message, and  *)
(* no job goes by the name it moves under.                                  *)
LEMMA ShowLocalErrorSound ==
  ASSUME NEW s, NEW o, NEW st, Sound(s, o, st), ~s.rest,
         NEW job \in (0..MaxId) \cup Attempts, job = 0 \/ s.coord.active = NoJob,
         NEW canShow \in BOOLEAN
  PROVE  LET t == ShowLocalError(s, job, canShow)
         IN  Sound(t, o, st) /\ Calmer(s, t) /\ Spared(s, t, FALSE, 0)
<1> DEFINE found == EnsurePopup(s, 0, 0, FALSE, canShow)
           f == found.shell
           id == found.popup
           p1 == WithView(f.popups, id, "Error")
           p2 == WithChoosing(p1, id, FALSE)
           p3 == WithHover(p2, id, FALSE)
           t == ShowLocalError(s, job, canShow)
<1>1. /\ Sound(f, o, st) /\ Calmer(s, f) /\ Spared(s, f, FALSE, 0)
      /\ id = 0 \/ Alive(f, id)
  BY EnsurePopupSound
<1> HIDE DEF found
<1>2. CASE id = 0
  BY <1>1, <1>2 DEF ShowLocalError, found
<1>3. CASE id # 0
  <2>1. f \in Shell /\ f.popups \in Popups /\ id \in DOMAIN f.popups
    BY <1>1, <1>3 DEF Sound, Typed, Shell, Alive
  <2>0. t = [f EXCEPT !.popupJob = job,
                      !.activePopup = id,
                      !.popups[id].view = "Error",
                      !.popups[id].choosing = FALSE,
                      !.popups[id].hover = FALSE]
    BY <1>3 DEF ShowLocalError, found
  <2> HIDE DEF f, id, t
  <2>2. t = [f EXCEPT !.popupJob = job, !.activePopup = id, !.popups = p3]
    BY <2>0, <2>1 DEF Shell, WithView, WithChoosing, WithHover
  <2>3. Touched(f.popups, p1, id) /\ p1[id].view = "Error" /\ p1[id].replay = f.popups[id].replay
    BY <2>1, WithViewTouches
  <2> HIDE DEF p1
  <2>4. Touched(p1, p2, id) /\ p2[id].view = p1[id].view /\ p2[id].replay = p1[id].replay
    BY <2>1, <2>3, WithChoosingTouches DEF Touched
  <2> HIDE DEF p2
  <2>5. Touched(p2, p3, id) /\ p3[id].view = p2[id].view /\ p3[id].replay = p2[id].replay
    <3>1. p2 \in Popups /\ id \in DOMAIN p2 /\ FALSE \in BOOLEAN
      BY <2>1, <2>3, <2>4 DEF Touched
    <3> QED
      BY <3>1, WithHoverTouches
  <2> HIDE DEF p3
  <2>6. Edited(f.popups, p3, id)
    BY <2>3, <2>4, <2>5 DEF Edited, Touched
  <2>7. id \in 0..MaxPopup
    BY <2>1, PopupsArePlain, ZeroIsThere DEF PopupIds
  <2>8. /\ t \in Shell /\ t.popups = p3 /\ SameWork(f, t)
        /\ t.popupJob = job /\ t.activePopup = id /\ t.choice = f.choice
    BY <2>1, <2>2, <2>5, <2>7 DEF Shell, SameWork, Touched
  <2>9. ~Presented(t)
    <3>1. f.coord.active = NoJob \/ f.coord.active \in Job
      BY <2>1 DEF Shell, CoordinatorValue
    <3>2. f.coord.active \in {s.coord.active, NoJob}
      BY <1>1 DEF Calmer, f
    <3> QED
      BY <2>8, <3>1, <3>2 DEF Presented, SameWork, Job, JobIds
  <2>10. t.choice # NoChoice => /\ t.choice.popup \in DOMAIN f.popups
                                /\ t.choice.generation = f.generation
                                /\ f.pending = NoPending
    BY <1>1, <2>8 DEF Sound, Awaits, f
  <2>11. Sound(f, o, st)
    BY <1>1 DEF f
  <2>12. Sound(t, o, st) /\ DOMAIN t.popups = DOMAIN f.popups
    BY <2>1, <2>6, <2>8, <2>9, <2>10, <2>11, EditedSound
  <2>13. Calmer(s, t)
    BY <1>1, <2>8 DEF Calmer, SameWork, f
  <2>14. Spared(s, t, FALSE, 0)
    BY <1>1, <2>12 DEF Spared, f
  <2> QED
    BY <2>12, <2>13, <2>14 DEF t
<1> QED
  BY <1>2, <1>3

(* A message for Manual, silence for the others.                            *)
LEMMA TellManualSound ==
  ASSUME NEW s, NEW o, NEW st, Sound(s, o, st), ~s.rest, NEW trigger,
         NEW attempt \in {0} \cup Attempts,
         trigger = "Manual" => attempt = 0 \/ s.coord.active = NoJob,
         NEW canShow \in BOOLEAN
  PROVE  LET t == TellManual(s, trigger, attempt, canShow)
         IN  Sound(t, o, st) /\ Calmer(s, t) /\ Spared(s, t, FALSE, 0)
<1>1. CASE trigger # "Manual"
  BY <1>1 DEF TellManual, Calmer, Spared
<1>2. CASE trigger = "Manual"
  <2>1. attempt \in (0..MaxId) \cup Attempts
    BY ZeroIsThere
  <2> QED
    BY <1>2, <2>1, ShowLocalErrorSound DEF TellManual
<1> QED
  BY <1>1, <1>2

(* The chooser opens in a popup, and the presentation ends; a popup that    *)
(* cannot show it goes again.                                               *)
LEMMA ShowChooserSound ==
  ASSUME NEW s, NEW o, NEW st, Sound(s, o, st), ~s.rest, s.pending = NoPending,
         NEW text, NEW canShow \in BOOLEAN
  PROVE  LET t == ShowChooser(s, text, canShow)
         IN  /\ Sound(t, o, st) /\ SparesPins(s, t)
             /\ t.coord.nextId = s.coord.nextId /\ t.generation = s.generation
             /\ t.pending = NoPending
<1> DEFINE found == EnsurePopup(s, 0, 0, FALSE, canShow)
           f == found.shell
           id == found.popup
           p1 == WithChoosing(f.popups, id, TRUE)
           choice == [popup |-> id, text |-> text, generation |-> s.generation]
           t == ShowChooser(s, text, canShow)
<1>1. CASE ~Prepared(s, text)
  BY <1>1 DEF ShowChooser, SparesPins
<1>2. CASE Prepared(s, text)
  <2>1. /\ Sound(f, o, st) /\ Calmer(s, f) /\ Kept(s, f) /\ Spared(s, f, FALSE, 0)
        /\ id = 0 \/ Alive(f, id)
        /\ id \in DOMAIN s.popups \ {0} => ~s.popups[id].pinned
    BY EnsurePopupSound
  <2>2. t = IF id = 0 \/ ~canShow THEN RemovePopup(f, id)
            ELSE [f EXCEPT !.popups[id].choosing = TRUE, !.popupJob = 0, !.choice = choice]
    BY <1>2 DEF ShowChooser
  <2> HIDE DEF found
  <2> HIDE DEF f, id, t
  <2>3. SparesPins(s, f) /\ f.pending = NoPending
    BY <2>1 DEF Spared, SparesPins, Sound, Numbered, Calmer
  <2>4. DOMAIN f.popups \subseteq PopupIds /\ DOMAIN s.popups \subseteq PopupIds
    BY <2>1, PopupsArePlain DEF Sound, Typed, Shell
  <2>5. CASE id = 0 \/ ~canShow
    <3>1. t = RemovePopup(f, id)
      BY <2>2, <2>5
    <3>2. /\ Sound(t, o, st) /\ Calmer(f, t)
          /\ DOMAIN t.popups = DOMAIN f.popups \ {id}
      BY <2>1, <3>1, RemovePopupSound
    <3>3. 0 \notin DOMAIN s.popups
      BY <2>4 DEF PopupIds
    <3>4. SparesPins(s, t)
      BY <2>1, <2>3, <3>2, <3>3 DEF SparesPins
    <3>5. t.coord.nextId = s.coord.nextId /\ t.generation = s.generation /\ t.pending = NoPending
      BY <2>1, <2>3, <3>2 DEF Calmer
    <3> QED
      BY <3>2, <3>4, <3>5 DEF t
  <2>6. CASE ~(id = 0 \/ ~canShow)
    <3>1. f \in Shell /\ f.popups \in Popups /\ id \in DOMAIN f.popups
      BY <2>1, <2>6 DEF Sound, Typed, Shell, Alive
    <3>2. t = [f EXCEPT !.popups = p1, !.popupJob = 0, !.choice = choice]
      BY <2>2, <2>6, <3>1 DEF Shell, WithChoosing
    <3>3. Touched(f.popups, p1, id) /\ p1[id].view = f.popups[id].view
          /\ p1[id].pinned = f.popups[id].pinned /\ p1[id].replay = f.popups[id].replay
      BY <3>1, WithChoosingTouches
    <3> HIDE DEF p1
    <3>4. choice \in Choice
      <4>1. id \in PopupIds /\ text \in GoodTexts /\ s.generation \in 1..MaxGeneration
        BY <1>2, <2>4, <3>1 DEF Prepared, Sound, Typed, Shell
      <4> QED
        BY <4>1 DEF Choice
    <3>5. choice.popup = id /\ choice.generation = f.generation
      BY <2>1 DEF Calmer
    <3> HIDE DEF choice
    <3>6. /\ t \in Shell /\ t.popups = p1 /\ SameWork(f, t) /\ t.popupJob = 0
          /\ t.choice = choice
      BY <3>1, <3>2, <3>3, <3>4, ZeroIsThere DEF Shell, SameWork, Touched
    <3>7. Edited(f.popups, p1, id)
      BY <2>1, <3>1, <3>3 DEF Edited, Touched, Sound, Numbered
    <3>8. ~Presented(t)
      <4>1. f.coord.active = NoJob \/ f.coord.active \in Job
        BY <3>1 DEF Shell, CoordinatorValue
      <4> QED
        BY <3>6, <4>1 DEF Presented, SameWork, Job, JobIds
    <3>9. Sound(t, o, st) /\ DOMAIN t.popups = DOMAIN f.popups
      BY <2>1, <2>3, <3>1, <3>5, <3>6, <3>7, <3>8, EditedSound
    <3>10. SparesPins(s, t)
      BY <2>3, <3>9 DEF SparesPins
    <3>11. t.coord.nextId = s.coord.nextId /\ t.generation = s.generation /\ t.pending = NoPending
      BY <2>1, <2>3, <3>6 DEF Calmer, SameWork
    <3> QED
      BY <3>9, <3>10, <3>11 DEF t
  <2> QED
    BY <2>5, <2>6
<1> QED
  BY <1>1, <1>2

-----------------------------------------------------------------------------
(* Admission *)

(* What Handle makes of the streams, from shell s to shell t.               *)
StreamsAfter(st, s, t) ==
    IF t.coord.nextId = s.coord.nextId THEN st
    ELSE Entered(st, s.coord.nextId,
                 [sent |-> 0, generation |-> s.generation,
                  end |-> IF t.token = s.coord.nextId THEN "Running" ELSE "Cached"])

(* A new stream, the others stay as they are.                               *)
LEMMA StreamAdded ==
  ASSUME NEW st \in Streams, NEW job \in JobIds, job \notin DOMAIN st, NEW stream \in Stream
  PROVE  /\ Entered(st, job, stream) \in Streams
         /\ DOMAIN Entered(st, job, stream) = DOMAIN st \cup {job}
         /\ Entered(st, job, stream)[job] = stream
         /\ \A other \in DOMAIN st : Entered(st, job, stream)[other] = st[other]
<1>1. DOMAIN st \in SUBSET JobIds /\ \A other \in DOMAIN st : st[other] \in Stream
  BY StreamsArePlain
<1>2. Entered(st, job, stream) \in [DOMAIN st \cup {job} -> Stream]
  BY <1>1 DEF Entered
<1>3. DOMAIN st \cup {job} \in SUBSET JobIds
  BY <1>1
<1> QED
  BY <1>2, <1>3 DEF Streams, Entered

(* A started job's id is used up, its flag is fresh, and the one it         *)
(* replaces is cancelled.                                                   *)
LEMMA StartedJob ==
  ASSUME NEW c \in CoordinatorValue, NEW trigger \in Triggers
  PROVE  LET d == StartJob(c, trigger)
         IN  /\ d \in CoordinatorValue /\ c.nextId \in JobIds
             /\ d.nextId # c.nextId
             /\ d.active = [id |-> c.nextId, trigger |-> trigger] /\ d.active # NoJob
             /\ c.nextId \notin d.cancelled
             /\ d.recent = c.recent
<1>1. c.nextId \in JobIds /\ c.nextId \in Int /\ MaxId \in Int /\ MaxId > 1
  BY ShellAssumption, CoordinatorAssumption DEF CoordinatorValue, JobIds
<1>2. SuccessorId(c.nextId) \in JobIds /\ SuccessorId(c.nextId) # c.nextId
  BY <1>1 DEF SuccessorId, JobIds
<1>3. [id |-> c.nextId, trigger |-> trigger] \in Job
  BY <1>1 DEF Job
<1>4. [id |-> c.nextId, trigger |-> trigger] # NoJob
  BY <1>1 DEF NoJob, JobIds
<1> QED
  BY <1>1, <1>2, <1>3, <1>4 DEF StartJob, CoordinatorValue

(* Completing the current job leaves none and cancels none.                 *)
LEMMA CompletedJob ==
  ASSUME NEW c \in CoordinatorValue, NEW id \in JobIds, IsCurrent(c, id), NEW text \in GoodTexts
  PROVE  LET d == CompleteJob(c, id, text, 0)
         IN  /\ d \in CoordinatorValue
             /\ d.nextId = c.nextId /\ d.active = NoJob /\ d.cancelled = c.cancelled
<1>1. text \in Fingerprints
  BY ShellAssumption DEF GoodTexts
<1>2. [fingerprint |-> text, completedAt |-> 0] \in RecentAutomatic
  BY <1>1 DEF RecentAutomatic
<1> QED
  BY <1>2 DEF CompleteJob, CoordinatorValue

(* The commit point: the old stream is told to stop, the new job is current *)
(* and wired to its popup, or answered from the cache and over.             *)
LEMMA CommitSound ==
  ASSUME NEW s, NEW o, NEW st, Sound(s, o, st), ~s.rest, s.pending = NoPending,
         s.coord.nextId \notin DOMAIN st,
         NEW c, c.trigger \in Triggers, c.text \in GoodTexts,
         NEW id, Alive(s, id)
  PROVE  LET t == Commit(s, id, c)
         IN  /\ Sound(t, o, StreamsAfter(st, s, t))
             /\ DOMAIN t.popups = DOMAIN s.popups
             /\ t.pending = NoPending
<1> DEFINE job == s.coord.nextId
           cached == s.cache[c.text]
           hit == cached # NoOutput
           started == StartJob(s.coord, c.trigger)
           coord == IF hit THEN CompleteJob(started, job, c.text, 0) ELSE started
           hover == (c.trigger = "Hover")
           replay == [trigger |-> c.trigger, text |-> c.text]
           p1 == WithHover(s.popups, id, hover)
           p2 == WithReplay(p1, id, replay)
           revoked == s.revoked \cup ({s.token} \ {0})
           u == [s EXCEPT !.coord = coord,
                          !.revoked = revoked,
                          !.token = IF hit THEN 0 ELSE job,
                          !.activeRequest = IF hit THEN "None" ELSE c.text,
                          !.activePopup = id,
                          !.popupJob = job,
                          !.output = IF hit THEN cached.chunks ELSE <<>>,
                          !.popups = p2]
           view == IF hit THEN "Result" ELSE "Loading"
           t == Commit(s, id, c)
           su == StreamsAfter(st, s, u)
<1>1. /\ s \in Shell /\ s.popups \in Popups /\ s.coord \in CoordinatorValue
      /\ st \in Streams /\ id \in DOMAIN s.popups
      /\ s.cache \in [GoodTexts -> Output \cup {NoOutput}]
      /\ s.generation \in 1..MaxGeneration /\ s.token \in 0..MaxId
  BY DEF Sound, Typed, Shell, Alive
<1>2. t = SetView(u, id, view)
  <2> DEFINE v == [s EXCEPT !.coord = coord,
                            !.revoked = revoked,
                            !.token = IF hit THEN 0 ELSE job,
                            !.activeRequest = IF hit THEN "None" ELSE c.text,
                            !.activePopup = id,
                            !.popupJob = job,
                            !.output = IF hit THEN cached.chunks ELSE <<>>,
                            !.popups[id].hover = hover,
                            !.popups[id].replay = replay]
  <2>1. t = SetView(v, id, view)
    BY DEF Commit
  <2> HIDE DEF coord, revoked, hit, job, cached, hover, replay
  <2>2. v = u
    BY <1>1 DEF Shell, WithHover, WithReplay
  <2> HIDE DEF u, v
  <2> QED
    BY <2>1, <2>2
<1>3. /\ started \in CoordinatorValue /\ job \in JobIds /\ started.nextId # job
      /\ started.active = [id |-> job, trigger |-> c.trigger] /\ started.active # NoJob
      /\ job \notin started.cancelled
  BY <1>1, StartedJob
<1> HIDE DEF t, started
<1>4. /\ coord \in CoordinatorValue /\ coord.nextId # job
      /\ job \notin coord.cancelled
      /\ coord.active = IF hit THEN NoJob ELSE [id |-> job, trigger |-> c.trigger]
  <2>1. IsCurrent(started, job)
    BY <1>3 DEF IsCurrent
  <2> QED
    BY <2>1, <1>3, CompletedJob
<1> HIDE DEF coord
<1>5. /\ Touched(s.popups, p1, id) /\ p1[id].view = s.popups[id].view
      /\ p1[id].pinned = s.popups[id].pinned
  <2>1. hover \in BOOLEAN
    OBVIOUS
  <2> HIDE DEF hover
  <2> QED
    BY <1>1, <2>1, WithHoverTouches
<1> HIDE DEF p1, hover
<1>6. /\ Touched(p1, p2, id) /\ p2[id].view = p1[id].view
      /\ p2[id].pinned = p1[id].pinned /\ p2[id].replay = replay
  <2>1. p1 \in Popups /\ id \in DOMAIN p1
    BY <1>1, <1>5 DEF Touched
  <2>2. replay \in [trigger : Triggers, text : GoodTexts]
    OBVIOUS
  <2> HIDE DEF replay
  <2> QED
    BY <2>1, <2>2, WithReplayTouches
<1> HIDE DEF p2
<1>7. /\ p2 \in Popups /\ DOMAIN p2 = DOMAIN s.popups
      /\ \A other \in DOMAIN p2 : /\ p2[other].view = s.popups[other].view
                                  /\ p2[other].pinned = s.popups[other].pinned
      /\ p2[id].replay = replay
  BY <1>5, <1>6 DEF Touched
<1>8. revoked \in SUBSET JobIds
  BY <1>1 DEF JobIds, Shell
<1> HIDE DEF revoked
<1>9. id \in 0..MaxPopup /\ job \in 0..MaxId
  BY <1>1, <1>3, PopupsArePlain, ZeroIsThere DEF PopupIds, JobIds
<1>10. (IF hit THEN cached.chunks ELSE <<>>) \in Seq(JobIds)
  BY <1>1, ZeroIsThere DEF Output
<1> DEFINE output == IF hit THEN cached.chunks ELSE <<>>
<1> HIDE DEF output, hit
<1>11. /\ u \in Shell
       /\ u.rest = s.rest /\ u.generation = s.generation /\ u.cache = s.cache
       /\ u.popups = p2 /\ u.nextPopup = s.nextPopup
       /\ u.pending = s.pending /\ u.choice = s.choice /\ u.coord = coord
       /\ u.token = (IF hit THEN 0 ELSE job) /\ u.revoked = revoked
       /\ u.activeRequest = (IF hit THEN "None" ELSE c.text) /\ u.activePopup = id
       /\ u.popupJob = job
       /\ ~hit => u.output = <<>>
  BY <1>1, <1>4, <1>7, <1>8, <1>9, <1>10, ZeroIsThere DEF Shell, output
<1> HIDE DEF u
<1>12. /\ su \in Streams /\ DOMAIN su = DOMAIN st \cup {job}
       /\ \A other \in DOMAIN st : su[other] = st[other]
       /\ su[job].sent = 0 /\ su[job].generation = s.generation
       /\ su[job].end = IF hit THEN "Cached" ELSE "Running"
  <2> DEFINE stream == [sent |-> 0, generation |-> s.generation,
                        end |-> IF u.token = job THEN "Running" ELSE "Cached"]
  <2>1. u.token = job <=> ~hit
    BY <1>3, <1>11 DEF JobIds
  <2>2. /\ stream \in Stream /\ stream.sent = 0 /\ stream.generation = s.generation
        /\ stream.end = IF hit THEN "Cached" ELSE "Running"
    BY <1>1, <2>1, ZeroIsThere DEF Stream
  <2>3. su = Entered(st, job, stream)
    BY <1>4, <1>11 DEF StreamsAfter
  <2>a. st \in Streams /\ job \in JobIds /\ job \notin DOMAIN st /\ stream \in Stream
    BY <1>1, <1>3, <2>2
  <2> HIDE DEF stream, su, job
  <2>4. /\ su \in Streams /\ DOMAIN su = DOMAIN st \cup {job}
        /\ su[job] = stream
        /\ \A other \in DOMAIN st : su[other] = st[other]
    BY <2>a, <2>3, StreamAdded
  <2> QED
    BY <2>2, <2>4
<1> HIDE DEF su
<1>13. Sound(u, o, su)
  <2>1. Numbered(u) /\ Roomy(u) /\ Quiet(u) /\ Awaits(u, o)
    <3>1. NoPending.trigger # "Manual"
      BY DEF NoPending
    <3> QED
      BY <3>1, <1>7, <1>11 DEF Sound, Numbered, Roomy, Quiet, Awaits
  <2>2. Held(u, su)
    <3>1. \A other \in DOMAIN st : other # 0 /\ other # job
      BY <1>1, StreamsArePlain DEF JobIds
    <3>2. u.coord.active # NoJob =>
             u.coord.active.id \in DOMAIN su /\ u.coord.active.id \notin u.coord.cancelled
      BY <1>4, <1>11, <1>12
    <3>3. u.token # 0 => u.coord.active # NoJob /\ u.coord.active.id = u.token
      BY <1>3, <1>4, <1>11
    <3>4. ASSUME NEW other \in DOMAIN su, su[other].end = "Running", other \notin u.revoked
          PROVE  u.token = other
      <4>1. CASE other = job
        BY <3>4, <4>1, <1>11, <1>12
      <4>2. CASE other # job
        BY <3>1, <3>4, <4>2, <1>11, <1>12 DEF Sound, Held, revoked
      <4> QED
        BY <4>1, <4>2
    <3> QED
      BY <3>2, <3>3, <3>4 DEF Held
  <2>3. Wired(u, su)
    <3> SUFFICES ASSUME Presented(u) PROVE Wired(u, su)
      BY DEF Wired
    <3>1. ~hit /\ u.coord.active = [id |-> job, trigger |-> c.trigger]
      BY <1>4, <1>11 DEF Presented
    <3>2. c.text # "None"
      BY ShellAssumption DEF GoodTexts
    <3>3. u.output = AllDeltas(u.popupJob, su[u.popupJob].sent)
      <4>1. AllDeltas(job, 0) = <<>>
        BY DEF AllDeltas
      <4> QED
        BY <4>1, <3>1, <1>11, <1>12
    <3> QED
      BY <3>1, <3>2, <3>3, <1>1, <1>7, <1>11, <1>12 DEF Wired
  <2>4. Whole(u, su)
    <3>1. Whole(s, st)
      BY DEF Sound
    <3> QED
      BY <3>1, <1>11, <1>12 DEF Whole, WholeOutput
  <2> QED
    BY <1>11, <1>12, <2>1, <2>2, <2>3, <2>4 DEF Sound, Typed
<1>14. view \in {"Loading", "Result", "Error"}
  OBVIOUS
<1> HIDE DEF view
<1>15. /\ Sound(t, o, su) /\ DOMAIN t.popups = DOMAIN u.popups /\ SameWork(u, t)
  BY <1>2, <1>13, <1>14, SetViewSound
<1>16. StreamsAfter(st, s, t) = su
  BY <1>15 DEF SameWork, StreamsAfter, su
<1> QED
  BY <1>7, <1>11, <1>15, <1>16 DEF SameWork, t

(* A popup that was spared a reason to go was not pinned.                   *)
LEMMA SparedPins ==
  ASSUME NEW s, NEW o, NEW st, Sound(s, o, st), NEW t, NEW evicting, NEW source,
         Spared(s, t, evicting, source)
  PROVE  SparesPins(s, t)
BY DEF Sound, Numbered, Spared, SparesPins

(* admit_extracted_request, whatever comes of the candidate.                *)
LEMMA AdmitSound ==
  ASSUME NEW s, NEW o, NEW st, Sound(s, o, st), ~s.rest, s.pending = NoPending,
         s.coord.nextId \notin DOMAIN st,
         NEW c, c.trigger \in Triggers, c.attempt \in {0} \cup Attempts,
         c.trigger = "Manual" => c.attempt = 0 \/ s.coord.active = NoJob,
         NEW inFront, NEW canShow \in BOOLEAN
  PROVE  LET t == Admit(s, c, inFront, canShow)
         IN  /\ Sound(t, o, StreamsAfter(st, s, t))
             /\ t.pending = NoPending
             /\ Spared(s, t, c.source # 0, c.source) \/ Spared(s, t, FALSE, 0)
<1> DEFINE forceNew == c.source # 0 /\ c.destination = 0
           found == EnsurePopup(s, c.destination, c.source, forceNew, canShow)
           t == Admit(s, c, inFront, canShow)
<1>1. CASE (c.trigger = "Hover" /\ ~inFront) \/ ~CascadeReady(s, c.source)
  <2>1. t = s
    BY <1>1 DEF Admit
  <2> HIDE DEF t
  <2> QED
    BY <2>1 DEF StreamsAfter, Spared, t
<1>2. CASE /\ ~((c.trigger = "Hover" /\ ~inFront) \/ ~CascadeReady(s, c.source))
           /\ \/ ~Prepared(s, c.text)
              \/ ~CanStart(s.coord, c.trigger, c.text, 0, c.destination = 0)
  <2>1. t = TellManual(s, c.trigger, c.attempt, canShow)
    BY <1>2 DEF Admit
  <2> HIDE DEF t
  <2>2. Sound(t, o, st) /\ Calmer(s, t) /\ Spared(s, t, FALSE, 0)
    BY <2>1, TellManualSound
  <2> QED
    BY <2>2 DEF StreamsAfter, Calmer, t
<1>3. CASE /\ ~((c.trigger = "Hover" /\ ~inFront) \/ ~CascadeReady(s, c.source))
           /\ ~ \/ ~Prepared(s, c.text)
                \/ ~CanStart(s.coord, c.trigger, c.text, 0, c.destination = 0)
  <2>1. t = IF found.popup = 0 THEN found.shell ELSE Commit(found.shell, found.popup, c)
    BY <1>3 DEF Admit
  <2>2. c.text \in GoodTexts
    BY <1>3 DEF Prepared
  <2>3. forceNew \in BOOLEAN /\ (forceNew => c.source # 0)
    OBVIOUS
  <2> HIDE DEF t, forceNew
  <2>4. /\ Sound(found.shell, o, st) /\ Calmer(s, found.shell)
        /\ found.popup = 0 \/ Alive(found.shell, found.popup)
        /\ Spared(s, found.shell, forceNew, c.source)
    BY <2>3, EnsurePopupSound
  <2> HIDE DEF found
  <2>5. /\ ~found.shell.rest /\ found.shell.pending = NoPending
        /\ found.shell.coord.nextId = s.coord.nextId
        /\ found.shell.generation = s.generation
    BY <2>4 DEF Calmer
  <2>6. Spared(s, found.shell, c.source # 0, c.source)
    BY <2>3, <2>4 DEF Spared
  <2>7. CASE found.popup = 0
    BY <2>1, <2>4, <2>5, <2>6, <2>7 DEF StreamsAfter, t
  <2>8. CASE found.popup # 0
    <3>1. t = Commit(found.shell, found.popup, c)
      BY <2>1, <2>8
    <3>2. Alive(found.shell, found.popup) /\ found.shell.coord.nextId \notin DOMAIN st
      BY <2>4, <2>5, <2>8
    <3>3. /\ Sound(t, o, StreamsAfter(st, found.shell, t))
          /\ DOMAIN t.popups = DOMAIN found.shell.popups
          /\ t.pending = NoPending
      BY <2>2, <2>4, <2>5, <3>1, <3>2, CommitSound
    <3>4. StreamsAfter(st, found.shell, t) = StreamsAfter(st, s, t)
      BY <2>5 DEF StreamsAfter
    <3>5. Spared(s, t, c.source # 0, c.source)
      BY <2>6, <3>3 DEF Spared
    <3> QED
      BY <3>3, <3>4, <3>5 DEF t
  <2> QED
    BY <2>7, <2>8
<1> QED
  BY <1>1, <1>2, <1>3

-----------------------------------------------------------------------------
(* Handlers *)

(* An answer nobody waits for is no loss.                                   *)
LEMMA AnswerTaken ==
  ASSUME NEW s, NEW o, NEW st, Sound(s, o, st), NEW attempt,
         s.pending = NoPending \/ s.pending.attempt # attempt
  PROVE  Sound(s, o \ {attempt}, st)
BY DEF Sound, Typed, Awaits

(* handle_extraction                                                        *)
LEMMA HandleExtractionSound ==
  ASSUME NEW s, NEW o, NEW st, Sound(s, o, st), s.coord.nextId \notin DOMAIN st,
         NEW attempt \in Attempts, NEW text, NEW inFront, NEW canShow \in BOOLEAN
  PROVE  LET t == HandleExtraction(s, attempt, text, inFront, canShow)
         IN  /\ Sound(t, o \ {attempt}, StreamsAfter(st, s, t))
             /\ SparesPins(s, t)
             /\ t.coord.nextId # s.coord.nextId =>
                   Spared(s, t, s.pending.source # 0, s.pending.source) \/ Spared(s, t, FALSE, 0)
             /\ s.pending.attempt # attempt => t = s
<1> DEFINE c == CancelPendingExtraction(s)
           p == s.pending
           d == Candidate(p.trigger, text, attempt, p.source, 0)
           t == HandleExtraction(s, attempt, text, inFront, canShow)
<1>1. CASE ~TakesPending(s, attempt)
  <2>1. t = s
    BY <1>1 DEF HandleExtraction
  <2>2. s.pending = NoPending \/ s.pending.attempt # attempt
    BY <1>1 DEF TakesPending, Sound, Awaits
  <2> HIDE DEF t
  <2>3. Sound(t, o \ {attempt}, st)
    BY <2>1, <2>2, AnswerTaken
  <2> QED
    BY <2>1, <2>3 DEF StreamsAfter, SparesPins, t
<1>2. CASE TakesPending(s, attempt)
  <2>1. p.attempt = attempt /\ p # NoPending
    BY <1>2 DEF TakesPending, NoPending, Attempts
  <2>2. /\ p.trigger \in Triggers
        /\ p.trigger = "Manual" => s.coord.active = NoJob
        /\ ~s.rest
    BY <2>1 DEF Sound, Typed, Shell, Pending, Awaits, Quiet
  <2>3. /\ Sound(c, o, st) /\ Calmer(s, c) /\ c.popups = s.popups
        /\ c.pending = NoPending /\ c.coord = s.coord
    BY CancelPendingSound
  <2>4. t = IF s.startupError \/ text = "None"
            THEN TellManual(c, p.trigger, attempt, canShow)
            ELSE IF p.trigger = "Selection" THEN ShowChooser(c, text, canShow)
            ELSE Admit(c, d, inFront, canShow)
    BY <1>2 DEF HandleExtraction, CancelPendingExtraction
  <2>5. /\ d.trigger = p.trigger /\ d.attempt = attempt /\ d.source = p.source
    BY DEF Candidate
  <2> HIDE DEF c, p, d, t
  <2>6. Sound(c, o \ {attempt}, st) /\ ~c.rest /\ c.generation = s.generation
    BY <2>2, <2>3, AnswerTaken DEF Calmer
  <2>7. attempt \in {0} \cup Attempts
    OBVIOUS
  <2>8. CASE s.startupError \/ text = "None"
    <3>1. t = TellManual(c, p.trigger, attempt, canShow)
      BY <2>4, <2>8
    <3>2. Sound(t, o \ {attempt}, st) /\ Calmer(c, t) /\ Spared(c, t, FALSE, 0)
      BY <2>2, <2>3, <2>6, <2>7, <3>1, TellManualSound
    <3>3. t.coord.nextId = s.coord.nextId
      BY <2>3, <3>2 DEF Calmer
    <3>4. Spared(s, t, FALSE, 0)
      BY <2>3, <3>2 DEF Spared
    <3> QED
      BY <2>1, <3>2, <3>3, <3>4, SparedPins DEF StreamsAfter, t, p
  <2>9. CASE ~(s.startupError \/ text = "None") /\ p.trigger = "Selection"
    <3>1. t = ShowChooser(c, text, canShow)
      BY <2>4, <2>9
    <3>2. /\ Sound(t, o \ {attempt}, st) /\ SparesPins(c, t)
          /\ t.coord.nextId = c.coord.nextId
      BY <2>3, <2>6, <3>1, ShowChooserSound
    <3>3. SparesPins(s, t) /\ t.coord.nextId = s.coord.nextId
      BY <2>3, <3>2 DEF SparesPins
    <3> QED
      BY <2>1, <3>2, <3>3 DEF StreamsAfter, t, p
  <2>10. CASE ~(s.startupError \/ text = "None") /\ p.trigger # "Selection"
    <3>1. t = Admit(c, d, inFront, canShow)
      BY <2>4, <2>10
    <3>2. c.coord.nextId \notin DOMAIN st
      BY <2>3
    <3>3. /\ Sound(t, o \ {attempt}, StreamsAfter(st, c, t))
          /\ Spared(c, t, p.source # 0, p.source) \/ Spared(c, t, FALSE, 0)
      BY <2>2, <2>3, <2>5, <2>6, <2>7, <3>1, <3>2, AdmitSound
    <3>4. Spared(s, t, p.source # 0, p.source) \/ Spared(s, t, FALSE, 0)
      BY <2>3, <3>3 DEF Spared
    <3>5. StreamsAfter(st, c, t) = StreamsAfter(st, s, t)
      BY <2>3, <2>6 DEF StreamsAfter
    <3> QED
      BY <2>1, <3>3, <3>4, <3>5, SparedPins DEF t, p
  <2> QED
    BY <2>8, <2>9, <2>10
<1> QED
  BY <1>1, <1>2

(* replay_popup                                                             *)
LEMMA ReplayPopupSound ==
  ASSUME NEW s, NEW o, NEW st, Sound(s, o, st), s.coord.nextId \notin DOMAIN st,
         NEW id \in DOMAIN s.popups, NEW inFront \in BOOLEAN, NEW canShow \in BOOLEAN
  PROVE  LET t == ReplayPopup(s, id, inFront, canShow)
         IN  Sound(t, o, StreamsAfter(st, s, t)) /\ Spared(s, t, FALSE, 0)
<1> DEFINE c == CancelInflightWork(s)
           r == s.popups[id].replay
           d == Candidate(r.trigger, r.text, 0, 0, id)
           t == ReplayPopup(s, id, inFront, canShow)
<1>1. CASE r = NoReplay
  <2>1. t = s
    BY <1>1 DEF ReplayPopup
  <2> HIDE DEF t
  <2> QED
    BY <2>1 DEF StreamsAfter, Spared, t
<1>2. CASE r # NoReplay
  <2>1. t = Admit(c, d, inFront, canShow)
    BY <1>2 DEF ReplayPopup
  <2>2. r.trigger \in Triggers
    <3>1. s.popups[id] \in PopupEntry
      BY PopupsArePlain DEF Sound, Typed, Shell
    <3> QED
      BY <1>2, <3>1 DEF PopupEntry
  <2>3. ~s.rest
    BY DEF Sound, Quiet
  <2>4. /\ Sound(c, o, st) /\ Calmer(s, c) /\ c.popups = s.popups
        /\ c.pending = NoPending /\ c.coord.active = NoJob
    BY CancelInflightSound
  <2>5. d.trigger = r.trigger /\ d.attempt = 0 /\ d.source = 0
    BY DEF Candidate
  <2> HIDE DEF c, d, r, t
  <2>6. /\ ~c.rest /\ c.coord.nextId = s.coord.nextId /\ c.generation = s.generation
        /\ c.coord.nextId \notin DOMAIN st
    BY <2>3, <2>4 DEF Calmer
  <2>7. /\ Sound(t, o, StreamsAfter(st, c, t))
        /\ Spared(c, t, d.source # 0, d.source) \/ Spared(c, t, FALSE, 0)
    BY <2>1, <2>2, <2>4, <2>5, <2>6, AdmitSound
  <2>8. Spared(s, t, FALSE, 0)
    BY <2>4, <2>5, <2>7 DEF Spared
  <2>9. StreamsAfter(st, c, t) = StreamsAfter(st, s, t)
    BY <2>6 DEF StreamsAfter
  <2> QED
    BY <2>7, <2>8, <2>9 DEF t
<1> QED
  BY <1>1, <1>2

(* begin_selected_profile                                                   *)
LEMMA BeginSelectedProfileSound ==
  ASSUME NEW s, NEW o, NEW st, Sound(s, o, st), s.coord.nextId \notin DOMAIN st,
         NEW id \in PopupIds, NEW canShow \in BOOLEAN
  PROVE  LET t == BeginSelectedProfile(s, id, canShow)
         IN  Sound(t, o, StreamsAfter(st, s, t)) /\ Spared(s, t, FALSE, 0)
<1> DEFINE c == [s EXCEPT !.choice = NoChoice]
           d == Candidate("Selection", s.choice.text, 0, 0, id)
           t == BeginSelectedProfile(s, id, canShow)
<1>1. CASE s.choice.popup # id \/ s.choice.generation # s.generation
  <2>1. t = s
    BY <1>1 DEF BeginSelectedProfile
  <2> HIDE DEF t
  <2> QED
    BY <2>1 DEF StreamsAfter, Spared, t
<1>2. CASE ~(s.choice.popup # id \/ s.choice.generation # s.generation)
  <2>1. t = Admit(c, d, TRUE, canShow)
    BY <1>2 DEF BeginSelectedProfile
  <2>2. s.choice # NoChoice
    BY <1>2 DEF NoChoice, PopupIds
  <2>3. ~s.rest /\ s.pending = NoPending
    BY <2>2 DEF Sound, Quiet, Awaits
  <2>4. /\ Sound(c, o, st) /\ Calmer(s, c) /\ c.popups = s.popups
        /\ c.pending = s.pending /\ c.coord = s.coord
    BY DropChoiceSound
  <2>5. d.trigger = "Selection" /\ d.attempt = 0 /\ d.source = 0
    BY DEF Candidate
  <2> HIDE DEF c, d, t
  <2>6. /\ ~c.rest /\ c.pending = NoPending /\ c.generation = s.generation
        /\ c.coord.nextId \notin DOMAIN st
    BY <2>3, <2>4 DEF Calmer
  <2>7. d.trigger \in Triggers
    BY <2>5 DEF Triggers
  <2>8. /\ Sound(t, o, StreamsAfter(st, c, t))
        /\ Spared(c, t, d.source # 0, d.source) \/ Spared(c, t, FALSE, 0)
    BY <2>1, <2>4, <2>5, <2>6, <2>7, AdmitSound
  <2>9. Spared(s, t, FALSE, 0)
    BY <2>4, <2>5, <2>8 DEF Spared
  <2>10. StreamsAfter(st, c, t) = StreamsAfter(st, s, t)
    BY <2>4, <2>6 DEF StreamsAfter
  <2> QED
    BY <2>8, <2>9, <2>10 DEF t
<1> QED
  BY <1>1, <1>2

(* remove_chooser: no choice is left, and only its popup goes.              *)
LEMMA RemoveChooserSound ==
  ASSUME NEW s, NEW o, NEW st, Sound(s, o, st)
  PROVE  LET t == RemoveChooser(s)
         IN  /\ Sound(t, o, st) /\ Calmer(s, t)
             /\ t.choice = NoChoice
             /\ \A id \in DOMAIN s.popups \ DOMAIN t.popups : id = s.choice.popup
<1>1. CASE s.choice = NoChoice
  BY <1>1 DEF RemoveChooser, Calmer
<1>2. CASE s.choice # NoChoice
  <2>1. s.choice.popup # 0
    BY <1>2 DEF Sound, Typed, Shell, Choice, PopupIds
  <2> QED
    BY <1>2, <2>1, RemovePopupSound DEF RemoveChooser
<1> QED
  BY <1>1, <1>2

(* A new extraction is asked for, which takes the pending one's place.      *)
LEMMA ExtractSound ==
  ASSUME NEW s, NEW o, NEW st, Sound(s, o, st), ~s.rest, s.choice = NoChoice,
         s.nextAttempt <= MaxAttempt, NEW trigger \in Triggers, NEW source \in 0..MaxPopup
  PROVE  LET t == Extract(s, trigger, source)
         IN  /\ Sound(t, o \cup {s.nextAttempt}, st)
             /\ t.nextAttempt # s.nextAttempt /\ t.coord.nextId = s.coord.nextId
             /\ t.popups = s.popups
<1> DEFINE c == IF trigger = "Manual" THEN CancelInflightWork(s) ELSE CancelPendingExtraction(s)
           pending == [attempt |-> s.nextAttempt, trigger |-> trigger,
                       source |-> source, generation |-> s.generation]
           new == o \cup {s.nextAttempt}
           t == Extract(s, trigger, source)
<1>1. /\ Sound(c, o, st) /\ Calmer(s, c) /\ c.popups = s.popups
      /\ c.choice = NoChoice
      /\ trigger = "Manual" => c.coord.active = NoJob
  <2>1. CASE trigger = "Manual"
    BY <2>1, CancelInflightSound
  <2>2. CASE trigger # "Manual"
    BY <2>2, CancelPendingSound
  <2> QED
    BY <2>1, <2>2
<1>2. t = [c EXCEPT !.nextAttempt = @ + 1, !.pending = pending]
  BY DEF Extract
<1> HIDE DEF c, t
<1>3. c \in Shell /\ ~c.rest /\ c.nextAttempt = s.nextAttempt /\ c.generation = s.generation
  BY <1>1 DEF Sound, Typed, Calmer
<1>4. /\ s.nextAttempt \in Attempts /\ s.nextAttempt + 1 \in 1..(MaxAttempt + 1)
      /\ s.nextAttempt + 1 # s.nextAttempt
  <2>1. s.nextAttempt \in 1..(MaxAttempt + 1) /\ MaxAttempt \in Nat
    BY ZeroIsThere DEF Sound, Typed, Shell
  <2> QED
    BY <2>1 DEF Attempts
<1>5. /\ pending \in Pending /\ pending.attempt = s.nextAttempt
      /\ pending.generation = c.generation /\ pending.trigger = trigger
  <2>1. s.generation \in 1..MaxGeneration
    BY DEF Sound, Typed, Shell
  <2> QED
    BY <1>3, <1>4, <2>1 DEF Pending
<1> HIDE DEF pending
<1>6. /\ t \in Shell
      /\ t.rest = c.rest /\ t.generation = c.generation /\ t.cache = c.cache
      /\ t.nextAttempt = s.nextAttempt + 1
      /\ t.popups = c.popups /\ t.nextPopup = c.nextPopup
      /\ t.pending = pending /\ t.choice = NoChoice /\ t.coord = c.coord
      /\ t.token = c.token /\ t.revoked = c.revoked /\ t.output = c.output
      /\ t.activeRequest = c.activeRequest /\ t.activePopup = c.activePopup
      /\ t.popupJob = c.popupJob
  BY <1>1, <1>2, <1>3, <1>4, <1>5 DEF Shell
<1>7. Numbered(t) /\ Roomy(t) /\ Held(t, st) /\ Whole(t, st) /\ Quiet(t)
  BY <1>1, <1>3, <1>6 DEF Sound, Numbered, Roomy, Held, Whole, Quiet
<1>8. Wired(t, st)
  BY <1>1, <1>6 DEF Sound, Wired, Presented
<1>9. Awaits(t, new)
  BY <1>1, <1>5, <1>6 DEF Awaits
<1>10. new \subseteq Attempts
  BY <1>4 DEF Sound, Typed
<1> QED
  BY <1>1, <1>4, <1>6, <1>7, <1>8, <1>9, <1>10 DEF Sound, Typed, Calmer, t

(* begin_request                                                            *)
LEMMA BeginRequestSound ==
  ASSUME NEW s, NEW o, NEW st, Sound(s, o, st), s.nextAttempt <= MaxAttempt,
         NEW trigger \in Triggers, NEW source \in {0} \cup DOMAIN s.popups,
         NEW canShow \in BOOLEAN
  PROVE  LET t == BeginRequest(s, trigger, source, canShow)
         IN  /\ Sound(t, IF t.nextAttempt # s.nextAttempt THEN o \cup {s.nextAttempt} ELSE o, st)
             /\ t.coord.nextId = s.coord.nextId
             /\ \A id \in DOMAIN s.popups \ DOMAIN t.popups :
                   s.popups[id].pinned => s.choice.popup = id
<1> DEFINE c == RemoveChooser(s)
           t == BeginRequest(s, trigger, source, canShow)
<1>1. CASE s.rest \/ (~s.startupError /\ s.choice # NoChoice /\ trigger = "Hover")
  <2>1. t = s
    BY <1>1 DEF BeginRequest
  <2> HIDE DEF t
  <2> QED
    BY <2>1 DEF t
<1>2. CASE ~s.rest /\ s.startupError
  <2>1. t = TellManual(s, trigger, 0, canShow)
    BY <1>2 DEF BeginRequest
  <2> HIDE DEF t
  <2>2. Sound(t, o, st) /\ Calmer(s, t) /\ Spared(s, t, FALSE, 0)
    BY <1>2, <2>1, TellManualSound
  <2>3. SparesPins(s, t)
    BY <2>2, SparedPins
  <2> QED
    BY <2>2, <2>3 DEF Calmer, SparesPins, t
<1>3. CASE ~s.rest /\ ~s.startupError /\ ~(s.choice # NoChoice /\ trigger = "Hover")
  <2>1. t = IF OutrankedBy(c, trigger) THEN c ELSE Extract(c, trigger, source)
    BY <1>3 DEF BeginRequest
  <2> HIDE DEF t
  <2>2. /\ Sound(c, o, st) /\ Calmer(s, c)
        /\ c.choice = NoChoice
        /\ \A id \in DOMAIN s.popups \ DOMAIN c.popups : id = s.choice.popup
    BY RemoveChooserSound
  <2> HIDE DEF c
  <2>3. CASE OutrankedBy(c, trigger)
    BY <2>1, <2>2, <2>3 DEF Calmer, t
  <2>4. CASE ~OutrankedBy(c, trigger)
    <3>1. t = Extract(c, trigger, source)
      BY <2>1, <2>4
    <3>2. source \in 0..MaxPopup
      <4>1. DOMAIN s.popups \subseteq PopupIds
        BY PopupsArePlain DEF Sound, Typed, Shell
      <4> QED
        BY <4>1, ZeroIsThere DEF PopupIds
    <3>3. ~c.rest /\ c.nextAttempt = s.nextAttempt /\ c.coord.nextId = s.coord.nextId
      BY <1>3, <2>2 DEF Calmer
    <3>4. /\ Sound(t, o \cup {c.nextAttempt}, st)
          /\ t.nextAttempt # c.nextAttempt /\ t.coord.nextId = c.coord.nextId
          /\ t.popups = c.popups
      BY <2>2, <3>1, <3>2, <3>3, ExtractSound
    <3> QED
      BY <2>2, <3>3, <3>4 DEF t
  <2> QED
    BY <2>3, <2>4
<1> QED
  BY <1>1, <1>2, <1>3

-----------------------------------------------------------------------------
(* Streams report *)

(* is_current_presentation is what Presented says of the active job.        *)
LEMMA CurrentIsPresented ==
  ASSUME NEW s, NEW o, NEW st, Sound(s, o, st), NEW job
  PROVE  IsCurrentPresentation(s, job) <=> Presented(s) /\ s.popupJob = job
BY DEF Sound, Held, Presented, IsCurrentPresentation, IsCurrent

(* One more delta of a job is one more in what it has left.                 *)
LEMMA DeltaAppended ==
  ASSUME NEW job \in JobIds, NEW sent \in Nat
  PROVE  /\ AllDeltas(job, sent) \in Seq(JobIds)
         /\ Append(AllDeltas(job, sent), job) = AllDeltas(job, sent + 1)
<1>1. AllDeltas(job, sent) \in Seq(JobIds) /\ Len(AllDeltas(job, sent)) = sent
  BY DEF AllDeltas
<1>2. /\ AllDeltas(job, sent + 1) \in Seq(JobIds)
      /\ Len(AllDeltas(job, sent + 1)) = sent + 1
  BY DEF AllDeltas
<1>3. \A n \in Nat : \A i \in 1..n : AllDeltas(job, n)[i] = job
  BY DEF AllDeltas
<1> DEFINE more == Append(AllDeltas(job, sent), job)
<1>4. /\ more \in Seq(JobIds) /\ Len(more) = sent + 1
      /\ \A i \in 1..sent : more[i] = AllDeltas(job, sent)[i]
      /\ more[sent + 1] = job
  BY <1>1
<1> HIDE DEF more
<1>5. \A i \in 1..Len(more) : more[i] = AllDeltas(job, sent + 1)[i]
  <2> SUFFICES ASSUME NEW i \in 1..Len(more) PROVE more[i] = AllDeltas(job, sent + 1)[i]
    OBVIOUS
  <2>1. CASE i = sent + 1
    BY <2>1, <1>3, <1>4
  <2>2. CASE i # sent + 1
    <3>1. i \in 1..sent /\ i \in 1..(sent + 1) /\ sent + 1 \in Nat
      BY <2>2, <1>4
    <3> QED
      BY <3>1, <1>3, <1>4
  <2> QED
    BY <2>1, <2>2
<1>6. more = AllDeltas(job, sent + 1)
  BY <1>2, <1>4, <1>5, SeqEqual
<1> QED
  BY <1>1, <1>6 DEF more

WithStream(st, job, stream) == [st EXCEPT ![job] = stream]
WithDelta(st, job) == [st EXCEPT ![job].sent = @ + 1]
WithEnd(st, job, end) == [st EXCEPT ![job].end = IF end = "Ok" THEN "Ok" ELSE "Failed"]

(* One stream goes on or ends, the others stay as they are.                 *)
LEMMA StreamEdited ==
  ASSUME NEW st \in Streams, NEW job \in DOMAIN st, NEW stream \in Stream
  PROVE  /\ WithStream(st, job, stream) \in Streams
         /\ DOMAIN WithStream(st, job, stream) = DOMAIN st
         /\ WithStream(st, job, stream)[job] = stream
         /\ \A other \in DOMAIN st \ {job} : WithStream(st, job, stream)[other] = st[other]
<1>1. DOMAIN st \in SUBSET JobIds /\ st \in [DOMAIN st -> Stream]
  BY StreamsArePlain
<1>2. [st EXCEPT ![job] = stream] \in [DOMAIN st -> Stream]
  BY <1>1
<1> QED
  BY <1>1, <1>2 DEF Streams, WithStream

(* A delta is appended exactly when its job is the one presented.           *)
LEMMA DeltaSound ==
  ASSUME NEW s, NEW o, NEW st, Sound(s, o, st), NEW job \in DOMAIN st,
         st[job].end = "Running", st[job].sent < MaxChunks
  PROVE  LET t == HandleDelta(s, job)
         IN  /\ Sound(t, o, WithDelta(st, job))
             /\ t.popups = s.popups /\ t.coord = s.coord
<1> DEFINE stream == [st[job] EXCEPT !.sent = @ + 1]
           su == WithStream(st, job, stream)
           t == HandleDelta(s, job)
<1>1. s \in Shell /\ st \in Streams /\ st[job] \in Stream /\ job \in JobIds
  BY StreamsArePlain DEF Sound, Typed
<1>2. /\ stream \in Stream /\ stream.end = "Running" /\ stream.sent = st[job].sent + 1
      /\ stream.generation = st[job].generation /\ st[job].sent \in Nat
  BY <1>1, ZeroIsThere DEF Stream
<1>3. WithDelta(st, job) = su
  BY DEF WithStream, WithDelta
<1> HIDE DEF stream
<1>4. /\ su \in Streams /\ DOMAIN su = DOMAIN st /\ su[job] = stream
      /\ \A other \in DOMAIN st \ {job} : su[other] = st[other]
  BY <1>1, <1>2, StreamEdited
<1> HIDE DEF su
<1>5. \A other \in DOMAIN st : /\ su[other].end = st[other].end
                               /\ su[other].generation = st[other].generation
  BY <1>2, <1>4
<1>6. Whole(s, su)
  <2>1. \A text \in GoodTexts : s.cache[text] # NoOutput => WholeOutput(s.cache[text], s.generation, st)
    BY DEF Sound, Whole
  <2> QED
    BY <2>1, <1>4 DEF Whole, WholeOutput
<1>7. CASE ~IsCurrentPresentation(s, job)
  <2>1. t = s
    BY <1>7 DEF HandleDelta
  <2> HIDE DEF t
  <2>2. Presented(s) => s.popupJob # job
    BY <1>7, CurrentIsPresented
  <2>3. Held(s, su)
    BY <1>4, <1>5 DEF Sound, Held
  <2>4. Wired(s, su)
    <3>1. Presented(s) => s.popupJob \in DOMAIN st
      BY DEF Sound, Held, Presented
    <3> QED
      BY <2>2, <3>1, <1>4 DEF Sound, Wired
  <2> QED
    BY <2>1, <2>3, <2>4, <1>3, <1>4, <1>6 DEF Sound, Typed, t
<1>8. CASE IsCurrentPresentation(s, job)
  <2>1. t = [s EXCEPT !.output = Append(@, job)]
    BY <1>8 DEF HandleDelta
  <2> HIDE DEF t
  <2>2. Presented(s) /\ s.popupJob = job
    BY <1>8, CurrentIsPresented
  <2>3. s.output = AllDeltas(job, st[job].sent)
    BY <2>2 DEF Sound, Wired
  <2>4. Append(s.output, job) = AllDeltas(job, stream.sent) /\ Append(s.output, job) \in Seq(JobIds)
    <3>1. st[job].sent + 1 \in Nat
      BY <1>2
    <3> QED
      BY <2>3, <3>1, <1>1, <1>2, DeltaAppended
  <2>5. /\ t \in Shell
        /\ t.rest = s.rest /\ t.generation = s.generation /\ t.cache = s.cache
        /\ t.popups = s.popups /\ t.nextPopup = s.nextPopup
        /\ t.pending = s.pending /\ t.choice = s.choice /\ t.coord = s.coord
        /\ t.token = s.token /\ t.revoked = s.revoked /\ t.output = Append(s.output, job)
        /\ t.activeRequest = s.activeRequest /\ t.activePopup = s.activePopup
        /\ t.popupJob = s.popupJob
    BY <1>1, <2>1, <2>4 DEF Shell
  <2>6. Numbered(t) /\ Roomy(t) /\ Quiet(t) /\ Awaits(t, o)
    BY <2>5 DEF Sound, Numbered, Roomy, Quiet, Awaits
  <2>7. Held(t, su)
    BY <1>4, <1>5, <2>5 DEF Sound, Held
  <2>8. Wired(t, su)
    BY <1>4, <1>5, <2>2, <2>4, <2>5 DEF Sound, Wired, Presented
  <2>9. Whole(t, su)
    BY <1>6, <2>5 DEF Whole
  <2> QED
    BY <2>5, <2>6, <2>7, <2>8, <2>9, <1>3, <1>4 DEF Sound, Typed, t
<1> QED
  BY <1>7, <1>8

Ended(s, coord, cache) ==
    [s EXCEPT !.token = 0, !.coord = coord, !.cache = cache, !.activeRequest = "None"]

(* New in the cache is at most the output at hand, of a job that ended well. *)
OutputKept(s, cache, job, end) ==
    \A text \in GoodTexts :
        \/ cache[text] = s.cache[text]
        \/ /\ cache[text] = [job |-> job, chunks |-> s.output]
           /\ s.output # <<>> /\ end = "Ok"

(* The presented job is over: its token is given up, and a whole output is  *)
(* kept under the request's text.                                           *)
LEMMA EndedSound ==
  ASSUME NEW s, NEW o, NEW st, Sound(s, o, st), NEW job \in DOMAIN st,
         Presented(s), s.popupJob = job,
         NEW su \in Streams, DOMAIN su = DOMAIN st,
         su[job].end # "Running", su[job].sent = st[job].sent,
         su[job].generation = st[job].generation,
         \A other \in DOMAIN st \ {job} : su[other] = st[other],
         NEW coord \in CoordinatorValue, coord.active = NoJob,
         NEW cache \in [GoodTexts -> Output \cup {NoOutput}],
         OutputKept(s, cache, job, su[job].end)
  PROVE  Sound(Ended(s, coord, cache), o, su)
<1> DEFINE u == Ended(s, coord, cache)
<1>1. s \in Shell
  BY DEF Sound, Typed
<1>2. /\ u \in Shell
      /\ u.rest = s.rest /\ u.generation = s.generation /\ u.cache = cache
      /\ u.popups = s.popups /\ u.nextPopup = s.nextPopup
      /\ u.pending = s.pending /\ u.choice = s.choice /\ u.coord = coord
      /\ u.token = 0 /\ u.revoked = s.revoked
  BY <1>1, ZeroIsThere DEF Shell, Ended
<1> HIDE DEF u
<1>3. Numbered(u) /\ Roomy(u) /\ Quiet(u) /\ Awaits(u, o)
  BY <1>2 DEF Sound, Numbered, Roomy, Quiet, Awaits
<1>4. s.token = job
  BY DEF Sound, Wired
<1>5. Held(u, su) /\ Wired(u, su)
  BY <1>2, <1>4 DEF Sound, Held, Wired, Presented
<1>6. Whole(u, su)
  <2> SUFFICES ASSUME NEW text \in GoodTexts, cache[text] # NoOutput
               PROVE  WholeOutput(cache[text], s.generation, su)
    BY <1>2 DEF Whole
  <2>1. CASE cache[text] = s.cache[text]
    <3>1. WholeOutput(s.cache[text], s.generation, st)
      BY <2>1 DEF Sound, Whole
    <3>2. st[job].end = "Running"
      BY DEF Sound, Wired
    <3> QED
      BY <2>1, <3>1, <3>2 DEF WholeOutput
  <2>2. CASE /\ cache[text] = [job |-> job, chunks |-> s.output]
             /\ s.output # <<>> /\ su[job].end = "Ok"
    <3>1. s.output = AllDeltas(job, st[job].sent) /\ st[job].generation = s.generation
      BY DEF Sound, Wired
    <3> QED
      BY <2>2, <3>1 DEF WholeOutput
  <2> QED
    BY <2>1, <2>2 DEF OutputKept
<1> QED
  BY <1>2, <1>3, <1>5, <1>6 DEF Sound, Typed, u

(* handle_finished                                                          *)
LEMMA FinishedSound ==
  ASSUME NEW s, NEW o, NEW st, Sound(s, o, st), NEW job \in DOMAIN st,
         st[job].end = "Running", NEW end \in {"Ok", "Failed", "Cancelled"}
  PROVE  LET t == HandleFinished(s, job, end)
         IN  /\ Sound(t, o, WithEnd(st, job, end))
             /\ DOMAIN t.popups = DOMAIN s.popups /\ t.coord.nextId = s.coord.nextId
<1> DEFINE after == IF end = "Ok" THEN "Ok" ELSE "Failed"
           stream == [st[job] EXCEPT !.end = after]
           su == WithStream(st, job, stream)
           t == HandleFinished(s, job, end)
           v == [s EXCEPT !.token = 0]
           text == s.activeRequest
           ended == FinishJob(s.coord, job)
           failed == Ended(s, ended, s.cache)
<1>1. /\ s \in Shell /\ st \in Streams /\ st[job] \in Stream /\ job \in JobIds
      /\ s.coord \in CoordinatorValue
  BY StreamsArePlain DEF Sound, Typed, Shell
<1>2. after \in {"Ok", "Failed"} /\ (after = "Ok" <=> end = "Ok")
  OBVIOUS
<1>3. WithEnd(st, job, end) = su
  BY DEF WithStream, WithEnd
<1> HIDE DEF after
<1>4. /\ stream \in Stream /\ stream.end = after /\ stream.sent = st[job].sent
      /\ stream.generation = st[job].generation
  BY <1>1, <1>2 DEF Stream
<1> HIDE DEF stream
<1>5. /\ su \in Streams /\ DOMAIN su = DOMAIN st /\ su[job] = stream
      /\ \A other \in DOMAIN st \ {job} : su[other] = st[other]
  BY <1>1, <1>4, StreamEdited
<1> HIDE DEF su
<1>6. CASE ~IsCurrentPresentation(s, job)
  <2>1. t = s
    BY <1>6 DEF HandleFinished
  <2> HIDE DEF t
  <2>2. Presented(s) => s.popupJob # job
    BY <1>6, CurrentIsPresented
  <2>3. Held(s, su)
    BY <1>2, <1>4, <1>5 DEF Sound, Held
  <2>4. Wired(s, su)
    <3>1. Presented(s) => s.popupJob \in DOMAIN st
      BY DEF Sound, Held, Presented
    <3> QED
      BY <2>2, <3>1, <1>5 DEF Sound, Wired
  <2>5. Whole(s, su)
    <3>1. \A some \in GoodTexts : s.cache[some] # NoOutput => WholeOutput(s.cache[some], s.generation, st)
      BY DEF Sound, Whole
    <3> QED
      BY <3>1, <1>5 DEF Whole, WholeOutput
  <2> QED
    BY <2>1, <2>3, <2>4, <2>5, <1>3, <1>5 DEF Sound, Typed, t
<1>7. CASE IsCurrentPresentation(s, job)
  <2>1. Presented(s) /\ s.popupJob = job /\ s.coord.active.id = job
    BY <1>7, CurrentIsPresented DEF Presented
  <2>2. /\ v \in Shell /\ v.coord = s.coord /\ v.activeRequest = s.activeRequest
        /\ v.activePopup = s.activePopup /\ v.output = s.output /\ v.cache = s.cache
    BY <1>1, ZeroIsThere DEF Shell
  <2>3. text \in GoodTexts /\ text # "None"
    BY <1>1, <2>1 DEF Sound, Wired, Shell
  <2>4. CASE end = "Ok" /\ s.output # <<>>
    <3> DEFINE kept == [job |-> job, chunks |-> s.output]
               coord == CompleteJob(s.coord, job, text, 0)
               cache == [s.cache EXCEPT ![text] = kept]
               u == Ended(s, coord, cache)
    <3>1. t = Succeed(v, job)
      BY <1>7, <2>4 DEF HandleFinished
    <3>2. /\ coord \in CoordinatorValue /\ coord.active = NoJob
          /\ coord.nextId = s.coord.nextId
      BY <1>1, <1>7, <2>3, CompletedJob DEF IsCurrentPresentation
    <3>3. Succeed(v, job) = SetView(u, s.activePopup, "Result")
      <4>1. kept \in Output
        BY <1>1 DEF Output, Shell
      <4>2. [[v EXCEPT !.cache[text] = [job |-> job, chunks |-> v.output],
                       !.coord = CompleteJob(@, job, text, 0)]
               EXCEPT !.activeRequest = "None"] = u
        <5> HIDE DEF coord
        <5>1. [v EXCEPT !.cache[text] = [job |-> job, chunks |-> v.output],
                        !.coord = CompleteJob(@, job, text, 0)]
                = [s EXCEPT !.token = 0, !.coord = coord, !.cache = cache]
          BY <1>1, <2>2 DEF Shell, coord
        <5> HIDE DEF v
        <5> QED
          BY <5>1, <1>1 DEF Shell, Ended
      <4> HIDE DEF u
      <4> QED
        BY <2>2, <2>3, <4>2 DEF Succeed
    <3>4. cache \in [GoodTexts -> Output \cup {NoOutput}]
      <4>1. kept \in Output
        BY <1>1 DEF Output, Shell
      <4> HIDE DEF kept
      <4> QED
        BY <4>1, <1>1, <2>3 DEF Shell
    <3>5. OutputKept(s, cache, job, su[job].end)
      <4>1. \A other \in GoodTexts : cache[other] = s.cache[other] \/ cache[other] = kept
        BY <1>1, <2>3 DEF Shell
      <4>2. su[job].end = "Ok"
        BY <1>2, <1>4, <1>5, <2>4
      <4> HIDE DEF cache
      <4> QED
        BY <2>4, <4>1, <4>2 DEF OutputKept
    <3> HIDE DEF cache, coord
    <3>6. Sound(u, o, su)
      <4>1. /\ su[job].end # "Running" /\ su[job].sent = st[job].sent
            /\ su[job].generation = st[job].generation
        BY <1>2, <1>4, <1>5
      <4> HIDE DEF text
      <4> QED
        BY <1>5, <2>1, <3>2, <3>4, <3>5, <4>1, EndedSound
    <3>7. u.coord.nextId = s.coord.nextId /\ u.popups = s.popups
      BY <1>1, <3>2 DEF Shell, Ended
    <3> HIDE DEF u, t, v
    <3>8. Sound(t, o, su) /\ DOMAIN t.popups = DOMAIN u.popups /\ SameWork(u, t)
      <4>1. t = SetView(u, s.activePopup, "Result")
        BY <3>1, <3>3
      <4> QED
        BY <3>6, <4>1, SetViewSound
    <3> QED
      BY <1>3, <3>7, <3>8 DEF SameWork, t
  <2>5. CASE ~(end = "Ok" /\ s.output # <<>>)
    <3>1. /\ ended \in CoordinatorValue /\ ended.active = NoJob
          /\ ended.nextId = s.coord.nextId
      BY <1>1, <2>1 DEF FinishJob, CoordinatorValue
    <3>2. Fail(v, job) = failed
      <4> HIDE DEF ended
      <4> QED
        BY <1>1, <2>2 DEF Fail, Shell, Ended, ended
    <3>3. \/ t = SetView(failed, s.activePopup, "Error")
          \/ t = failed
      <4>1. \/ end = "Ok" /\ s.output = <<>>
            \/ end = "Failed"
            \/ end = "Cancelled"
        BY <2>5
      <4> HIDE DEF failed
      <4> QED
        BY <1>7, <2>5, <3>2, <4>1 DEF HandleFinished
    <3> HIDE DEF ended
    <3>4. s.cache \in [GoodTexts -> Output \cup {NoOutput}]
      BY <1>1 DEF Shell
    <3>5. Sound(failed, o, su)
      <4>1. /\ su[job].end # "Running" /\ su[job].sent = st[job].sent
            /\ su[job].generation = st[job].generation
        BY <1>2, <1>4, <1>5
      <4>2. OutputKept(s, s.cache, job, su[job].end)
        BY DEF OutputKept
      <4> QED
        BY <1>5, <2>1, <3>1, <3>4, <4>1, <4>2, EndedSound
    <3>6. failed.coord.nextId = s.coord.nextId /\ failed.popups = s.popups
      BY <1>1, <3>1 DEF Shell, Ended
    <3> HIDE DEF failed, t
    <3>7. CASE t = SetView(failed, s.activePopup, "Error")
      <4>1. Sound(t, o, su) /\ DOMAIN t.popups = DOMAIN failed.popups /\ SameWork(failed, t)
        BY <3>5, <3>7, SetViewSound
      <4> QED
        BY <1>3, <3>6, <4>1 DEF SameWork, t
    <3>8. CASE t = failed
      BY <1>3, <3>5, <3>6, <3>8 DEF t
    <3> QED
      BY <3>3, <3>7, <3>8
  <2> QED
    BY <2>4, <2>5
<1> QED
  BY <1>6, <1>7

-----------------------------------------------------------------------------
(* Rest mode and reloads *)

(* Where no popup of ids is referred to, removing them only forgets them.   *)
LEMMA NothingToRemove ==
  ASSUME NEW s, NEW ids, s.pending.source \notin ids,
         s.choice.popup \notin ids, s.activePopup \notin ids
  PROVE  RemovePopups(s, ids) = Forgetting(s, ids)
BY DEF RemovePopups, Forgetting

(* set_rest_mode                                                            *)
LEMMA SetRestModeSound ==
  ASSUME NEW s, NEW o, NEW st, Sound(s, o, st), NEW enabled \in BOOLEAN
  PROVE  LET t == SetRestMode(s, enabled)
         IN  /\ Sound(t, o, st) /\ t.rest = enabled
             /\ t.coord.nextId = s.coord.nextId
<1> DEFINE c == CancelInflightWork(s)
           v == [c EXCEPT !.choice = NoChoice]
           ids == DOMAIN s.popups
           w == Forgetting(v, ids)
           x == [c EXCEPT !.rest = enabled, !.choice = NoChoice]
           t == SetRestMode(s, enabled)
<1>1. /\ Sound(c, o, st) /\ Calmer(s, c) /\ c.popups = s.popups
      /\ c.pending = NoPending /\ c.coord.active = NoJob /\ c.activePopup = 0
  BY CancelInflightSound
<1>2. t = RemovePopups(x, ids)
  BY DEF SetRestMode
<1> HIDE DEF c, t
<1>3. /\ Sound(v, o, st) /\ Calmer(c, v) /\ v.popups = s.popups
      /\ v.pending = NoPending /\ v.coord = c.coord /\ v.choice = NoChoice
  BY <1>1, DropChoiceSound
<1>4. /\ Sound(w, o, st) /\ Calmer(v, w) /\ DOMAIN w.popups = {}
      /\ w.pending = NoPending /\ w.coord = c.coord /\ w.choice = NoChoice
  <2>1. Presented(v) => v.activePopup \notin ids
    BY <1>1, <1>3 DEF Presented
  <2> HIDE DEF v
  <2> QED
    BY <2>1, <1>3, ForgetPopupsSound
<1>5. ids \subseteq PopupIds
  BY PopupsArePlain DEF Sound, Typed, Shell
<1>6. c \in Shell /\ c.coord.nextId = s.coord.nextId
  BY <1>1 DEF Sound, Typed, Calmer
<1>7. t = [w EXCEPT !.rest = enabled]
  <2>1. x.pending = NoPending /\ x.choice = NoChoice /\ x.activePopup = 0
    BY <1>1, <1>6 DEF Shell
  <2>2. NoPending.source = 0 /\ NoChoice.popup = 0 /\ 0 \notin ids
    BY <1>5 DEF NoPending, NoChoice, PopupIds
  <2>3. Forgetting(x, ids) = [w EXCEPT !.rest = enabled]
    BY <1>6 DEF Shell, Forgetting
  <2> HIDE DEF x, w
  <2>4. RemovePopups(x, ids) = Forgetting(x, ids)
    BY <2>1, <2>2, NothingToRemove
  <2> QED
    BY <1>2, <2>3, <2>4
<1> HIDE DEF v, w
<1>8. w.token = 0
  BY <1>1, <1>4 DEF Sound, Held
<1>9. w \in Shell
  BY <1>4 DEF Sound, Typed
<1>10. /\ t \in Shell /\ t.rest = enabled
       /\ t.generation = w.generation /\ t.cache = w.cache
       /\ t.popups = w.popups /\ t.nextPopup = w.nextPopup
       /\ t.pending = w.pending /\ t.choice = w.choice /\ t.coord = w.coord
       /\ t.token = w.token /\ t.revoked = w.revoked /\ t.output = w.output
       /\ t.activeRequest = w.activeRequest /\ t.activePopup = w.activePopup
       /\ t.popupJob = w.popupJob
  BY <1>7, <1>9 DEF Shell
<1>11. Numbered(t) /\ Roomy(t) /\ Held(t, st) /\ Whole(t, st) /\ Awaits(t, o) /\ Quiet(t)
  BY <1>1, <1>4, <1>8, <1>10 DEF Sound, Numbered, Roomy, Held, Whole, Awaits, Quiet
<1>12. Wired(t, st)
  BY <1>1, <1>4, <1>10 DEF Wired, Presented
<1> QED
  BY <1>4, <1>6, <1>10, <1>11, <1>12 DEF Sound, Typed, t

(* The switch alone concerns nothing else.                                  *)
LEMMA SwitchSound ==
  ASSUME NEW s, NEW o, NEW st, Sound(s, o, st), NEW on \in BOOLEAN
  PROVE  LET t == [s EXCEPT !.hoverOn = on]
         IN  /\ Sound(t, o, st) /\ t.hoverOn = on
             /\ t.popups = s.popups /\ t.coord = s.coord
<1> DEFINE t == [s EXCEPT !.hoverOn = on]
<1>1. s \in Shell
  BY DEF Sound, Typed
<1>2. /\ t \in Shell /\ t.hoverOn = on
      /\ t.rest = s.rest /\ t.generation = s.generation /\ t.cache = s.cache
      /\ t.popups = s.popups /\ t.nextPopup = s.nextPopup
      /\ t.pending = s.pending /\ t.choice = s.choice /\ t.coord = s.coord
      /\ t.token = s.token /\ t.revoked = s.revoked /\ t.output = s.output
      /\ t.activeRequest = s.activeRequest /\ t.activePopup = s.activePopup
      /\ t.popupJob = s.popupJob
  BY <1>1 DEF Shell
<1> HIDE DEF t
<1> QED
  BY <1>2 DEF Sound, Typed, Numbered, Roomy, Quiet, Whole, Awaits, Held, Wired, Presented, t

(* Hover switched off takes Hover popups away, switched on it takes none.   *)
LEMMA ToggleHoverSound ==
  ASSUME NEW s, NEW o, NEW st, Sound(s, o, st)
  PROVE  LET t == ToggleHover(s)
         IN  /\ Sound(t, o, st) /\ t.hoverOn = ~s.hoverOn
             /\ t.coord.nextId = s.coord.nextId
             /\ \A id \in DOMAIN s.popups \ DOMAIN t.popups :
                   s.hoverOn /\ s.popups[id].hover
<1> DEFINE c == CancelHoverExtraction(s)
           d == IF s.hoverOn THEN CancelHoverWork(s) ELSE s
           t == ToggleHover(s)
<1>1. /\ Sound(c, o, st) /\ c.popups = s.popups /\ c.coord.nextId = s.coord.nextId
  BY CancelPendingSound DEF CancelHoverExtraction, Calmer
<1>2. CancelHoverWork(s) = RemovePopups(c, HoverPopups(s))
  BY DEF CancelHoverWork
<1> HIDE DEF c
<1>3. /\ Sound(d, o, st) /\ d.coord.nextId = s.coord.nextId
      /\ DOMAIN d.popups = IF s.hoverOn THEN DOMAIN s.popups \ HoverPopups(s)
                           ELSE DOMAIN s.popups
  <2>1. CASE s.hoverOn
    <3>1. d = RemovePopups(c, HoverPopups(s))
      BY <1>2, <2>1
    <3> HIDE DEF d
    <3> QED
      BY <1>1, <2>1, <3>1, RemovePopupsSound DEF Calmer
  <2>2. CASE ~s.hoverOn
    BY <2>2
  <2> QED
    BY <2>1, <2>2
<1>4. t = [d EXCEPT !.hoverOn = ~s.hoverOn]
  BY DEF ToggleHover
<1>5. (~s.hoverOn) \in BOOLEAN
  OBVIOUS
<1> HIDE DEF d, t
<1>6. /\ Sound(t, o, st) /\ t.hoverOn = ~s.hoverOn
      /\ t.popups = d.popups /\ t.coord = d.coord
  BY <1>3, <1>4, <1>5, SwitchSound
<1> QED
  BY <1>3, <1>6 DEF HoverPopups, t

(* What a reload makes of a shell whose work has been cancelled.            *)
Reloaded(s, config, works, broken) ==
    [s EXCEPT !.generation = @ + 1, !.cache = EmptyCache, !.startupError = broken,
              !.provider = works, !.config = config]

(* A new generation of a shell in which nothing is under way.               *)
LEMMA ReloadedSound ==
  ASSUME NEW s, NEW o, NEW st, Sound(s, o, st), s.generation < MaxGeneration,
         s.pending = NoPending, s.choice = NoChoice, s.coord.active = NoJob,
         NEW config \in Configs, NEW works \in BOOLEAN, NEW broken \in BOOLEAN
  PROVE  LET t == Reloaded(s, config, works, broken)
         IN  /\ Sound(t, o, st)
             /\ t.popups = s.popups /\ t.generation = s.generation + 1
             /\ t.pending = NoPending /\ t.choice = NoChoice
             /\ t.coord = s.coord /\ t.activePopup = s.activePopup /\ t.rest = s.rest
<1> DEFINE t == Reloaded(s, config, works, broken)
<1>1. s \in Shell /\ s.generation + 1 \in 1..MaxGeneration
  BY ZeroIsThere DEF Sound, Typed, Shell
<1>2. /\ EmptyCache \in [GoodTexts -> Output \cup {NoOutput}]
      /\ \A text \in GoodTexts : EmptyCache[text] = NoOutput
  BY DEF EmptyCache
<1>3. /\ t \in Shell
      /\ t.rest = s.rest /\ t.generation = s.generation + 1 /\ t.cache = EmptyCache
      /\ t.popups = s.popups /\ t.nextPopup = s.nextPopup
      /\ t.pending = s.pending /\ t.choice = s.choice /\ t.coord = s.coord
      /\ t.token = s.token /\ t.revoked = s.revoked /\ t.output = s.output
      /\ t.activeRequest = s.activeRequest /\ t.activePopup = s.activePopup
      /\ t.popupJob = s.popupJob
  BY <1>1, <1>2 DEF Shell, Reloaded
<1> HIDE DEF t
<1>4. Numbered(t) /\ Roomy(t) /\ Held(t, st) /\ Awaits(t, o) /\ Quiet(t)
  BY <1>3 DEF Sound, Numbered, Roomy, Held, Awaits, Quiet
<1>5. Wired(t, st) /\ Whole(t, st)
  BY <1>2, <1>3 DEF Wired, Presented, Whole
<1> QED
  BY <1>3, <1>4, <1>5 DEF Sound, Typed, t

(* The chooser that was open survives under the new generation, or goes.    *)
Choosing(s, choice) == [s EXCEPT !.choice = choice]

(* An invalid configuration or new credentials take the chooser away.       *)
LEMMA ChooserReloaded ==
  ASSUME NEW s, NEW o, NEW st, Sound(s, o, st), s.pending = NoPending,
         s.choice = NoChoice, s.coord.active = NoJob, s.activePopup = 0,
         NEW choice \in Choice \cup {NoChoice},
         choice # NoChoice => choice.popup \in DOMAIN s.popups
  PROVE  LET x == Choosing(s, choice)
         IN  /\ Sound(RemoveChooser(x), o, st)
             /\ RemoveChooser(x).coord = s.coord /\ RemoveChooser(x).rest = s.rest
             /\ \A id \in DOMAIN s.popups \ DOMAIN RemoveChooser(x).popups : id = choice.popup
<1> DEFINE x == Choosing(s, choice)
           ids == {choice.popup} \ {0}
           t == RemoveChooser(x)
<1>1. s \in Shell
  BY DEF Sound, Typed
<1>2. /\ x.choice = choice /\ x.pending = NoPending /\ x.activePopup = 0
  BY <1>1 DEF Shell, Choosing
<1>3. CASE choice = NoChoice
  <2>1. x = s
    BY <1>1, <1>3 DEF Shell, Choosing
  <2>2. t = s
    BY <2>1, <1>2, <1>3 DEF RemoveChooser
  <2> HIDE DEF t, x
  <2> QED
    BY <2>2 DEF t, x
<1>4. CASE choice # NoChoice
  <2> DEFINE w == Forgetting(s, ids)
             y == [x EXCEPT !.choice = NoChoice]
  <2>1. t = RemovePopups(x, ids)
    BY <1>2, <1>4 DEF RemoveChooser, RemovePopup
  <2>2. choice.popup \in ids
    BY <1>4 DEF Choice, PopupIds
  <2>3. NoPending.source = 0 /\ 0 \notin ids
    BY DEF NoPending
  <2>4. y = s
    BY <1>1 DEF Shell, Choosing
  <2> HIDE DEF x, t, y
  <2>5. t = w
    BY <1>2, <2>1, <2>2, <2>3, <2>4 DEF RemovePopups, Forgetting, y
  <2>6. Presented(s) => s.activePopup \notin ids
    BY DEF Presented
  <2>7. /\ Sound(w, o, st) /\ Calmer(s, w) /\ w.coord = s.coord
        /\ DOMAIN w.popups = DOMAIN s.popups \ ids
    BY <2>6, ForgetPopupsSound
  <2> HIDE DEF w
  <2> QED
    BY <2>5, <2>7 DEF Calmer, t, x
<1> QED
  BY <1>3, <1>4

(* A new configuration refreshes the chooser or takes it away.              *)
LEMMA ChooserRefreshed ==
  ASSUME NEW s, NEW o, NEW st, Sound(s, o, st), s.pending = NoPending,
         s.choice = NoChoice, s.coord.active = NoJob, s.activePopup = 0,
         NEW choice \in Choice \cup {NoChoice},
         choice # NoChoice => choice.popup \in DOMAIN s.popups,
         NEW canShow \in BOOLEAN
  PROVE  LET t == RefreshChooser(Choosing(s, choice), canShow)
         IN  /\ Sound(t, o, st)
             /\ t.coord = s.coord /\ t.rest = s.rest
             /\ \A id \in DOMAIN s.popups \ DOMAIN t.popups : id = choice.popup
<1> DEFINE x == Choosing(s, choice)
           id == choice.popup
           p1 == WithChoosing(s.popups, id, TRUE)
           new == [choice EXCEPT !.generation = s.generation]
           u == [s EXCEPT !.popups = p1, !.choice = new]
           t == RefreshChooser(x, canShow)
<1>1. s \in Shell /\ s.popups \in Popups /\ s.generation \in 1..MaxGeneration
  BY DEF Sound, Typed, Shell
<1>2. /\ x.choice = choice /\ x.popups = s.popups /\ x.generation = s.generation
  BY <1>1 DEF Shell, Choosing
<1>3. CASE choice # NoChoice /\ Alive(x, id) /\ canShow
  <2>1. id \in DOMAIN s.popups /\ choice \in Choice
    BY <1>3
  <2>2. t = u
    <3>1. t = [x EXCEPT !.popups[id].choosing = TRUE, !.choice.generation = s.generation]
      BY <1>2, <1>3 DEF RefreshChooser
    <3> HIDE DEF t, id
    <3> QED
      BY <3>1, <1>1 DEF Shell, Choosing, WithChoosing
  <2>3. /\ new \in Choice /\ new.popup = id /\ new.generation = s.generation
    BY <1>1, <2>1 DEF Choice
  <2> HIDE DEF t, id, new
  <2>4. Touched(s.popups, p1, id) /\ p1[id].view = s.popups[id].view
        /\ p1[id].pinned = s.popups[id].pinned /\ p1[id].replay = s.popups[id].replay
    BY <1>1, <2>1, WithChoosingTouches
  <2> HIDE DEF p1
  <2>5. /\ u \in Shell /\ u.popups = p1 /\ SameWork(s, u) /\ u.choice = new
        /\ u.popupJob = s.popupJob /\ u.activePopup = s.activePopup
    BY <1>1, <2>3, <2>4 DEF Shell, SameWork, Touched
  <2> HIDE DEF u
  <2>6. Edited(s.popups, p1, id)
    BY <2>1, <2>4 DEF Edited, Touched, Sound, Numbered
  <2>7. Sound(u, o, st) /\ DOMAIN u.popups = DOMAIN s.popups
    BY <2>1, <2>3, <2>5, <2>6, EditedSound
  <2> QED
    BY <2>2, <2>5, <2>7 DEF SameWork, t
<1>4. CASE ~(choice # NoChoice /\ Alive(x, id) /\ canShow)
  <2>1. t = RemoveChooser(x)
    BY <1>2, <1>4 DEF RefreshChooser, RemoveChooser
  <2> HIDE DEF t
  <2> QED
    BY <2>1, ChooserReloaded DEF t
<1> QED
  BY <1>3, <1>4

Renewed(s, config, works, broken) ==
    [s EXCEPT !.startupError = broken, !.provider = works, !.config = config]

(* Every reload is Reloaded once the work is cancelled, with the old choice *)
(* still in place.                                                          *)
LEMMA NewGenerationSound ==
  ASSUME NEW s, NEW o, NEW st, Sound(s, o, st), s.generation < MaxGeneration,
         NEW config \in Configs, NEW works \in BOOLEAN, NEW broken \in BOOLEAN
  PROVE  \E z : /\ Sound(z, o, st)
                /\ z.pending = NoPending /\ z.choice = NoChoice
                /\ z.coord.active = NoJob /\ z.activePopup = 0
                /\ z.popups = s.popups /\ z.rest = s.rest
                /\ z.coord.nextId = s.coord.nextId
                /\ Renewed(NewGeneration(s), config, works, broken) = Choosing(z, s.choice)
<1> DEFINE c == CancelInflightWork(s)
           y == [c EXCEPT !.choice = NoChoice]
           z == Reloaded(y, config, works, broken)
<1>1. /\ Sound(c, o, st) /\ Calmer(s, c) /\ c.popups = s.popups
      /\ c.pending = NoPending /\ c.choice = s.choice /\ c.coord.active = NoJob
      /\ c.activePopup = 0
  BY CancelInflightSound
<1>2. NewGeneration(s) = [c EXCEPT !.generation = @ + 1, !.cache = EmptyCache]
  BY DEF NewGeneration
<1> HIDE DEF c
<1>3. /\ Sound(y, o, st) /\ Calmer(c, y) /\ y.popups = c.popups /\ y.coord = c.coord
      /\ y.pending = c.pending /\ y.choice = NoChoice /\ y.activePopup = c.activePopup
  BY <1>1, DropChoiceSound
<1>4. y.generation = s.generation /\ y.rest = s.rest /\ y.coord.nextId = s.coord.nextId
  BY <1>1, <1>3 DEF Calmer
<1>5. c \in Shell
  BY <1>1 DEF Sound, Typed
<1>6. Renewed(NewGeneration(s), config, works, broken) = Choosing(z, s.choice)
  <2>1. Renewed([c EXCEPT !.generation = @ + 1, !.cache = EmptyCache], config, works, broken)
          = Choosing(z, c.choice)
    BY <1>5 DEF Shell, Choosing, Reloaded, Renewed
  <2> HIDE DEF z
  <2> QED
    BY <2>1, <1>1, <1>2
<1> HIDE DEF y
<1>7. /\ Sound(z, o, st)
      /\ z.popups = y.popups /\ z.pending = NoPending /\ z.choice = NoChoice
      /\ z.coord = y.coord /\ z.activePopup = y.activePopup /\ z.rest = y.rest
  BY <1>1, <1>3, <1>4, ReloadedSound
<1> HIDE DEF z
<1> QED
  BY <1>1, <1>3, <1>4, <1>6, <1>7

(* The reloads: ConfigChange::Invalid, apply_config and refresh_provider.   *)
LEMMA ReloadSound ==
  ASSUME NEW s, NEW o, NEW st, Sound(s, o, st), s.generation < MaxGeneration, NEW t,
         \/ t = ConfigInvalid(s)
         \/ \E works \in BOOLEAN : t = RefreshProvider(s, works)
         \/ \E config \in Configs, works \in BOOLEAN, canShow \in BOOLEAN :
               t = ApplyConfig(s, config, works, canShow)
  PROVE  /\ Sound(t, o, st) /\ t.coord.nextId = s.coord.nextId
         /\ \A id \in DOMAIN s.popups \ DOMAIN t.popups : id = s.choice.popup
<1> DEFINE g == NewGeneration(s)
           x(broken, works, config) == Renewed(g, config, works, broken)
<1>1. /\ s \in Shell /\ s.choice \in Choice \cup {NoChoice}
      /\ s.config \in Configs /\ s.provider \in BOOLEAN
      /\ s.choice # NoChoice => s.choice.popup \in DOMAIN s.popups
  BY DEF Sound, Typed, Shell, Awaits
<1>2. CASE t = s
  BY <1>2
<1>3. ASSUME NEW config \in Configs, NEW works \in BOOLEAN, NEW broken \in BOOLEAN,
             NEW canShow \in BOOLEAN,
             \/ t = RemoveChooser(x(broken, works, config))
             \/ t = RefreshChooser(x(broken, works, config), canShow)
      PROVE  /\ Sound(t, o, st) /\ t.coord.nextId = s.coord.nextId
             /\ \A id \in DOMAIN s.popups \ DOMAIN t.popups : id = s.choice.popup
  <2>1. PICK z : /\ Sound(z, o, st)
                 /\ z.pending = NoPending /\ z.choice = NoChoice
                 /\ z.coord.active = NoJob /\ z.activePopup = 0
                 /\ z.popups = s.popups /\ z.rest = s.rest
                 /\ z.coord.nextId = s.coord.nextId
                 /\ x(broken, works, config) = Choosing(z, s.choice)
    BY NewGenerationSound
  <2>2. CASE t = RemoveChooser(x(broken, works, config))
    <3>1. t = RemoveChooser(Choosing(z, s.choice))
      BY <2>1, <2>2
    <3> QED
      BY <1>1, <2>1, <3>1, ChooserReloaded
  <2>3. CASE t = RefreshChooser(x(broken, works, config), canShow)
    <3>1. t = RefreshChooser(Choosing(z, s.choice), canShow)
      BY <2>1, <2>3
    <3> QED
      BY <1>1, <2>1, <3>1, ChooserRefreshed
  <2> QED
    BY <1>3, <2>2, <2>3
<1>4. g.config = s.config /\ g.provider = s.provider /\ g = [g EXCEPT !.config = @]
  <2>1. Calmer(s, CancelInflightWork(s)) /\ CancelInflightWork(s) \in Shell
    BY CancelInflightSound DEF Sound, Typed
  <2> QED
    BY <2>1 DEF NewGeneration, Calmer, Shell
<1>5. CASE t = ConfigInvalid(s)
  <2>1. [g EXCEPT !.startupError = TRUE] = x(TRUE, s.provider, s.config)
    <3>1. CancelInflightWork(s) \in Shell
      BY CancelInflightSound DEF Sound, Typed
    <3> QED
      BY <3>1, <1>4 DEF NewGeneration, Shell, Renewed
  <2>2. t = RemoveChooser(x(TRUE, s.provider, s.config))
    BY <1>5, <2>1 DEF ConfigInvalid
  <2> HIDE DEF x
  <2> QED
    BY <1>1, <1>3, <2>2
<1>6. ASSUME NEW works \in BOOLEAN, t = RefreshProvider(s, works)
      PROVE  /\ Sound(t, o, st) /\ t.coord.nextId = s.coord.nextId
             /\ \A id \in DOMAIN s.popups \ DOMAIN t.popups : id = s.choice.popup
  <2>1. ApplyProviderRuntime(g, works) = x(~works, works, s.config)
    <3>1. CancelInflightWork(s) \in Shell
      BY CancelInflightSound DEF Sound, Typed
    <3> QED
      BY <3>1, <1>4 DEF NewGeneration, Shell, ApplyProviderRuntime, Renewed
  <2>2. t = RemoveChooser(x(~works, works, s.config))
    BY <1>6, <2>1 DEF RefreshProvider
  <2>3. (~works) \in BOOLEAN
    OBVIOUS
  <2> HIDE DEF x
  <2> QED
    BY <1>1, <1>3, <2>2, <2>3
<1>7. ASSUME NEW config \in Configs, NEW works \in BOOLEAN, NEW canShow \in BOOLEAN,
             t = ApplyConfig(s, config, works, canShow), t # s
      PROVE  /\ Sound(t, o, st) /\ t.coord.nextId = s.coord.nextId
             /\ \A id \in DOMAIN s.popups \ DOMAIN t.popups : id = s.choice.popup
  <2>1. [ApplyProviderRuntime(g, works) EXCEPT !.config = config] = x(~works, works, config)
    <3>1. CancelInflightWork(s) \in Shell
      BY CancelInflightSound DEF Sound, Typed
    <3> QED
      BY <3>1 DEF NewGeneration, Shell, ApplyProviderRuntime, Renewed
  <2>2. t = RefreshChooser(x(~works, works, config), canShow)
    BY <1>7, <2>1 DEF ApplyConfig
  <2>3. (~works) \in BOOLEAN
    OBVIOUS
  <2> HIDE DEF x
  <2> QED
    BY <1>3, <2>2, <2>3
<1> QED
  BY <1>2, <1>5, <1>6, <1>7

(* The pin of an open popup changes, or its user closes it.                 *)
LEMMA PinToggledSound ==
  ASSUME NEW s, NEW o, NEW st, Sound(s, o, st), NEW id, Alive(s, id)
  PROVE  LET t == [s EXCEPT !.popups[id].pinned = ~@]
         IN  /\ Sound(t, o, st) /\ DOMAIN t.popups = DOMAIN s.popups
             /\ t.coord = s.coord
<1> DEFINE pinned == ~s.popups[id].pinned
           p1 == WithPin(s.popups, id, pinned)
           t == [s EXCEPT !.popups[id].pinned = ~@]
<1>1. s \in Shell /\ s.popups \in Popups /\ id \in DOMAIN s.popups
  BY DEF Sound, Typed, Shell, Alive
<1>2. t = [s EXCEPT !.popups = p1]
  BY <1>1 DEF Shell, WithPin
<1>3. pinned \in BOOLEAN
  OBVIOUS
<1> HIDE DEF pinned, t
<1>4. Touched(s.popups, p1, id) /\ p1[id].view = s.popups[id].view
      /\ p1[id].pinned = pinned /\ p1[id].replay = s.popups[id].replay
  BY <1>1, <1>3, WithPinTouches
<1> HIDE DEF p1
<1>5. Edited(s.popups, p1, id)
  BY <1>4 DEF Edited, Touched, Alive
<1>6. /\ t \in Shell /\ t.popups = p1 /\ SameWork(s, t) /\ t.choice = s.choice
      /\ t.popupJob = s.popupJob /\ t.activePopup = s.activePopup
  BY <1>1, <1>2, <1>4 DEF Shell, SameWork, Touched
<1>7. t.choice # NoChoice => /\ t.choice.popup \in DOMAIN s.popups
                             /\ t.choice.generation = s.generation
                             /\ s.pending = NoPending
  BY <1>6 DEF Sound, Awaits
<1>8. Sound(t, o, st) /\ DOMAIN t.popups = DOMAIN s.popups
  BY <1>1, <1>5, <1>6, <1>7, EditedSound
<1> QED
  BY <1>6, <1>8 DEF SameWork, t

(* The user closes a window; the registry hears of it later.                *)
LEMMA UserClosesSound ==
  ASSUME NEW s, NEW o, NEW st, Sound(s, o, st), NEW id, Alive(s, id)
  PROVE  LET t == [s EXCEPT !.popups[id].view = "Closed",
                            !.popups[id].choosing = FALSE, !.popups[id].pinned = FALSE]
         IN  /\ Sound(t, o, st) /\ DOMAIN t.popups = DOMAIN s.popups
             /\ t.coord = s.coord
<1> DEFINE p1 == WithView(s.popups, id, "Closed")
           p2 == WithChoosing(p1, id, FALSE)
           p3 == WithPin(p2, id, FALSE)
           t == [s EXCEPT !.popups[id].view = "Closed",
                          !.popups[id].choosing = FALSE, !.popups[id].pinned = FALSE]
<1>1. s \in Shell /\ s.popups \in Popups /\ id \in DOMAIN s.popups
  BY DEF Sound, Typed, Shell, Alive
<1>2. t = [s EXCEPT !.popups = p3]
  BY <1>1 DEF Shell, WithView, WithChoosing, WithPin
<1> HIDE DEF t
<1>3. Touched(s.popups, p1, id) /\ p1[id].replay = s.popups[id].replay
  BY <1>1, WithViewTouches
<1> HIDE DEF p1
<1>4. Touched(p1, p2, id) /\ p2[id].replay = p1[id].replay
  <2>1. p1 \in Popups /\ id \in DOMAIN p1
    BY <1>1, <1>3 DEF Touched
  <2> QED
    BY <2>1, WithChoosingTouches
<1> HIDE DEF p2
<1>5. Touched(p2, p3, id) /\ p3[id].pinned = FALSE /\ p3[id].replay = p2[id].replay
  <2>1. p2 \in Popups /\ id \in DOMAIN p2
    BY <1>1, <1>3, <1>4 DEF Touched
  <2> QED
    BY <2>1, WithPinTouches
<1> HIDE DEF p3
<1>6. Edited(s.popups, p3, id)
  BY <1>3, <1>4, <1>5 DEF Edited, Touched
<1>7. /\ t \in Shell /\ t.popups = p3 /\ SameWork(s, t) /\ t.choice = s.choice
      /\ t.popupJob = s.popupJob /\ t.activePopup = s.activePopup
  BY <1>1, <1>2, <1>5 DEF Shell, SameWork, Touched
<1>8. t.choice # NoChoice => /\ t.choice.popup \in DOMAIN s.popups
                             /\ t.choice.generation = s.generation
                             /\ s.pending = NoPending
  BY <1>7 DEF Sound, Awaits
<1>9. Sound(t, o, st) /\ DOMAIN t.popups = DOMAIN s.popups
  BY <1>1, <1>6, <1>7, <1>8, EditedSound
<1> QED
  BY <1>7, <1>9 DEF SameWork, t

(* The last automatic success is forgotten.                                 *)
LEMMA RecentForgottenSound ==
  ASSUME NEW s, NEW o, NEW st, Sound(s, o, st)
  PROVE  LET t == [s EXCEPT !.coord.recent = NoRecent]
         IN  /\ Sound(t, o, st) /\ t.popups = s.popups
             /\ t.coord.nextId = s.coord.nextId
<1> DEFINE coord == [s.coord EXCEPT !.recent = NoRecent]
           t == [s EXCEPT !.coord.recent = NoRecent]
<1>1. s \in Shell /\ s.coord \in CoordinatorValue
  BY DEF Sound, Typed, Shell
<1>2. /\ coord \in CoordinatorValue /\ coord.nextId = s.coord.nextId
      /\ coord.active = s.coord.active /\ coord.cancelled = s.coord.cancelled
  BY <1>1 DEF CoordinatorValue
<1>3. t = [s EXCEPT !.coord = coord]
  OBVIOUS
<1> HIDE DEF coord, t
<1>4. /\ t \in Shell
      /\ t.rest = s.rest /\ t.generation = s.generation /\ t.cache = s.cache
      /\ t.popups = s.popups /\ t.nextPopup = s.nextPopup
      /\ t.pending = s.pending /\ t.choice = s.choice /\ t.coord = coord
      /\ t.token = s.token /\ t.revoked = s.revoked /\ t.output = s.output
      /\ t.activeRequest = s.activeRequest /\ t.activePopup = s.activePopup
      /\ t.popupJob = s.popupJob
  BY <1>1, <1>2, <1>3 DEF Shell
<1>5. Numbered(t) /\ Roomy(t) /\ Held(t, st) /\ Whole(t, st) /\ Awaits(t, o) /\ Quiet(t)
  BY <1>2, <1>4 DEF Sound, Numbered, Roomy, Held, Whole, Awaits, Quiet
<1>6. Wired(t, st)
  BY <1>2, <1>4 DEF Sound, Wired, Presented
<1> QED
  BY <1>2, <1>4, <1>5, <1>6 DEF Sound, Typed, t

-----------------------------------------------------------------------------
(* The invariant *)

(* Every start-up is sound.                                                 *)
LEMMA InitHasInv == Init => ShellInv
<1> SUFFICES ASSUME Init PROVE Sound(shell, open, streams)
  BY DEF ShellInv
<1>1. PICK broken \in BOOLEAN, ready \in BOOLEAN, config \in Configs :
         shell = [rest |-> FALSE, hoverOn |-> FALSE, startupError |-> broken, provider |-> ready,
                  config |-> config, generation |-> 1, coord |-> NewCoordinator,
                  popups |-> <<>>, nextPopup |-> 1, nextAttempt |-> 1,
                  pending |-> NoPending, choice |-> NoChoice,
                  activeRequest |-> "None", activePopup |-> 0, popupJob |-> 0,
                  token |-> 0, revoked |-> {}, output |-> <<>>,
                  cache |-> EmptyCache]
  BY DEF Init
<1>2. <<>> \in Popups /\ <<>> \in Streams /\ DOMAIN <<>> = {}
  <2>1. \A S : <<>> \in [{} -> S]
    OBVIOUS
  <2>2. {} \in SUBSET PopupIds /\ {} \in SUBSET JobIds
    OBVIOUS
  <2> QED
    BY <2>1, <2>2 DEF Popups, Streams
<1>3. /\ EmptyCache \in [GoodTexts -> Output \cup {NoOutput}]
      /\ \A text \in GoodTexts : EmptyCache[text] = NoOutput
  BY DEF EmptyCache
<1>4. NewCoordinator \in CoordinatorValue
  BY CoordinatorAssumption DEF NewCoordinator, CoordinatorValue, JobIds
<1>5. /\ 1 \in 1..MaxGeneration /\ 1 \in 1..(MaxPopup + 1) /\ 1 \in 1..(MaxAttempt + 1)
  BY ZeroIsThere
<1>6. shell \in Shell
  BY <1>1, <1>2, <1>3, <1>4, <1>5, ZeroIsThere DEF Shell
<1>7. open \subseteq Attempts /\ streams \in Streams /\ DOMAIN streams = {}
  BY <1>2 DEF Init
<1>8. /\ DOMAIN shell.popups = {} /\ shell.token = 0 /\ shell.rest = FALSE
      /\ shell.coord.active = NoJob /\ shell.pending = NoPending /\ shell.choice = NoChoice
      /\ shell.cache = EmptyCache
  BY <1>1, <1>2 DEF NewCoordinator
<1>9. Roomy(shell)
  BY <1>8, FS_EmptySet, ZeroIsThere DEF Roomy
<1>10. NoPending.trigger # "Manual"
  BY DEF NoPending
<1> QED
  BY <1>3, <1>6, <1>7, <1>8, <1>9, <1>10
     DEF Sound, Typed, Numbered, Held, Wired, Presented, Awaits, Quiet, Whole

(* What a step may take: a pinned popup goes only with the mode, with the   *)
(* switch of Hover or as the chooser, and an admission evicts no unfinished    *)
(* work.                                                                    *)
PinStep ==
    \A id \in DOMAIN shell.popups :
        shell.popups[id].pinned /\ id \notin DOMAIN shell'.popups
            => \/ shell'.rest # shell.rest
               \/ shell.popups[id].hover /\ shell.hoverOn /\ ~shell'.hoverOn
               \/ shell.choice.popup = id

EvictionStep ==
    shell'.coord.nextId # shell.coord.nextId =>
        \A id \in DOMAIN shell.popups \ DOMAIN shell'.popups :
            \/ shell.popups[id].view = "Closed"
            \/ /\ shell.popups[id].view = "Result"
               /\ ~shell.popups[id].pinned
               /\ id # shell.pending.source

(* Handlers that admit nothing and take no pinned popup.                    *)
LEMMA CalmStep ==
  ASSUME ShellInv, shell'.coord.nextId = shell.coord.nextId,
         \A id \in DOMAIN shell.popups \ DOMAIN shell'.popups :
            shell.popups[id].pinned
               => shell'.rest # shell.rest \/ shell.choice.popup = id
  PROVE  PinStep /\ EvictionStep
BY DEF PinStep, EvictionStep

(* Handlers that may admit a job.                                           *)
LEMMA AdmittingStep ==
  ASSUME ShellInv, SparesPins(shell, shell'),
         shell'.coord.nextId # shell.coord.nextId =>
            \/ Spared(shell, shell', shell.pending.source # 0, shell.pending.source)
            \/ Spared(shell, shell', FALSE, 0)
  PROVE  PinStep /\ EvictionStep
BY DEF PinStep, EvictionStep, SparesPins, Spared

(* The invariant is inductive, and a popup goes from the registry only for  *)
(* a reason.                                                                *)
LEMMA StepKeepsInv ==
  ASSUME ShellInv, Next
  PROVE  ShellInv' /\ PinStep /\ EvictionStep
<1>1. Sound(shell, open, streams)
  BY DEF ShellInv
<1> USE DEF ShellInv
<1>2. ASSUME NEW trigger \in Triggers, Trigger(trigger)
      PROVE  ShellInv' /\ PinStep /\ EvictionStep
  <2>1. PICK source \in {0} \cup DOMAIN shell.popups, canShow \in BOOLEAN :
           Handle(BeginRequest(shell, trigger, source, canShow))
    BY <1>2 DEF Trigger
  <2> DEFINE t == BeginRequest(shell, trigger, source, canShow)
             new == IF t.nextAttempt # shell.nextAttempt
                    THEN open \cup {shell.nextAttempt} ELSE open
  <2>2. shell.nextAttempt <= MaxAttempt
    BY <1>2 DEF Trigger
  <2>3. /\ Sound(t, new, streams) /\ t.coord.nextId = shell.coord.nextId
        /\ \A id \in DOMAIN shell.popups \ DOMAIN t.popups :
              shell.popups[id].pinned => shell.choice.popup = id
    <3> HIDE DEF ShellInv
    <3> QED
      BY <1>1, <2>2, BeginRequestSound, SMTT(60)
  <2>4. shell' = t
    BY <2>1 DEF Handle
  <2>5. open' = new
    BY <1>2, <2>4 DEF Trigger
  <2> HIDE DEF t, new
  <2>6. streams' = streams
    <3>1. Handle(t)
      BY <2>1 DEF t
    <3> QED
      BY <2>3, <3>1 DEF Handle
  <2>7. PinStep /\ EvictionStep
    BY <2>3, <2>4, CalmStep
  <2> QED
    BY <2>3, <2>4, <2>5, <2>6, <2>7
<1>3. ASSUME NEW attempt \in Attempts, ExtractionAnswered(attempt)
      PROVE  ShellInv' /\ PinStep /\ EvictionStep
  <2>1. PICK text \in Texts \cup {"None"}, canShow \in BOOLEAN, inFront \in BOOLEAN :
           Handle(HandleExtraction(shell, attempt, text, inFront, canShow))
    BY <1>3 DEF ExtractionAnswered
  <2> DEFINE t == HandleExtraction(shell, attempt, text, inFront, canShow)
  <2>2. shell.coord.nextId \notin DOMAIN streams /\ open' = open \ {attempt}
    BY <1>3 DEF ExtractionAnswered, JobIdIsFree
  <2>3. /\ Sound(t, open \ {attempt}, StreamsAfter(streams, shell, t))
        /\ SparesPins(shell, t)
        /\ t.coord.nextId # shell.coord.nextId =>
              \/ Spared(shell, t, shell.pending.source # 0, shell.pending.source)
              \/ Spared(shell, t, FALSE, 0)
    BY <1>1, <2>2, HandleExtractionSound
  <2>4. shell' = t /\ streams' = StreamsAfter(streams, shell, t)
    BY <2>1 DEF Handle, StreamsAfter
  <2> HIDE DEF t
  <2>5. PinStep /\ EvictionStep
    BY <2>3, <2>4, AdmittingStep
  <2> QED
    BY <2>2, <2>3, <2>4, <2>5
<1>4. ASSUME NEW id \in PopupIds, Replay(id)
      PROVE  ShellInv' /\ PinStep /\ EvictionStep
  <2>1. PICK canShow \in BOOLEAN, inFront \in BOOLEAN :
           Handle(ReplayPopup(shell, id, inFront, canShow))
    BY <1>4 DEF Replay
  <2> DEFINE t == ReplayPopup(shell, id, inFront, canShow)
  <2>2. /\ id \in DOMAIN shell.popups /\ shell.coord.nextId \notin DOMAIN streams
        /\ open' = open
    BY <1>4 DEF Replay, JobIdIsFree
  <2>3. Sound(t, open, StreamsAfter(streams, shell, t)) /\ Spared(shell, t, FALSE, 0)
    BY <1>1, <2>2, ReplayPopupSound
  <2>4. shell' = t /\ streams' = StreamsAfter(streams, shell, t)
    BY <2>1 DEF Handle, StreamsAfter
  <2> HIDE DEF t
  <2>5. SparesPins(shell, t)
    BY <1>1, <2>3, SparedPins
  <2>6. PinStep /\ EvictionStep
    BY <2>3, <2>4, <2>5, AdmittingStep
  <2> QED
    BY <2>2, <2>3, <2>4, <2>6
<1>5. ASSUME NEW id \in PopupIds, ProfileSelected(id)
      PROVE  ShellInv' /\ PinStep /\ EvictionStep
  <2>1. PICK canShow \in BOOLEAN : Handle(BeginSelectedProfile(shell, id, canShow))
    BY <1>5 DEF ProfileSelected
  <2> DEFINE t == BeginSelectedProfile(shell, id, canShow)
  <2>2. shell.coord.nextId \notin DOMAIN streams /\ open' = open
    BY <1>5 DEF ProfileSelected, JobIdIsFree
  <2>3. Sound(t, open, StreamsAfter(streams, shell, t)) /\ Spared(shell, t, FALSE, 0)
    BY <1>1, <2>2, BeginSelectedProfileSound
  <2>4. shell' = t /\ streams' = StreamsAfter(streams, shell, t)
    BY <2>1 DEF Handle, StreamsAfter
  <2> HIDE DEF t
  <2>5. SparesPins(shell, t)
    BY <1>1, <2>3, SparedPins
  <2>6. PinStep /\ EvictionStep
    BY <2>3, <2>4, <2>5, AdmittingStep
  <2> QED
    BY <2>2, <2>3, <2>4, <2>6
<1>6. ASSUME NEW job \in JobIds, Delta(job)
      PROVE  ShellInv' /\ PinStep /\ EvictionStep
  <2>1. /\ job \in DOMAIN streams /\ streams[job].end = "Running"
        /\ streams[job].sent < MaxChunks
        /\ shell' = HandleDelta(shell, job) /\ streams' = WithDelta(streams, job)
        /\ open' = open
    BY <1>6 DEF Delta, WithDelta
  <2>2. /\ Sound(shell', open, WithDelta(streams, job))
        /\ shell'.popups = shell.popups /\ shell'.coord = shell.coord
    BY <1>1, <2>1, DeltaSound
  <2>3. PinStep /\ EvictionStep
    BY <2>2, CalmStep
  <2> QED
    BY <2>1, <2>2, <2>3
<1>7. ASSUME NEW job \in JobIds, Finished(job)
      PROVE  ShellInv' /\ PinStep /\ EvictionStep
  <2>1. PICK end \in {"Ok", "Failed", "Cancelled"} :
           streams' = WithEnd(streams, job, end) /\ shell' = HandleFinished(shell, job, end)
    BY <1>7 DEF Finished, WithEnd
  <2>2. job \in DOMAIN streams /\ streams[job].end = "Running" /\ open' = open
    BY <1>7 DEF Finished
  <2>3. /\ Sound(shell', open, WithEnd(streams, job, end))
        /\ DOMAIN shell'.popups = DOMAIN shell.popups
        /\ shell'.coord.nextId = shell.coord.nextId
    BY <1>1, <2>1, <2>2, FinishedSound
  <2>4. PinStep /\ EvictionStep
    BY <2>3, CalmStep
  <2> QED
    BY <2>1, <2>2, <2>3, <2>4
<1>8. ASSUME NEW id \in PopupIds, PinToggled(id)
      PROVE  ShellInv' /\ PinStep /\ EvictionStep
  <2>1. /\ Alive(shell, id) /\ shell' = [shell EXCEPT !.popups[id].pinned = ~@]
        /\ open' = open /\ streams' = streams
    BY <1>8 DEF PinToggled
  <2>2. /\ Sound(shell', open, streams) /\ DOMAIN shell'.popups = DOMAIN shell.popups
        /\ shell'.coord = shell.coord
    BY <1>1, <2>1, PinToggledSound
  <2>3. PinStep /\ EvictionStep
    BY <2>2, CalmStep
  <2> QED
    BY <2>1, <2>2, <2>3
<1>9. ASSUME NEW id \in PopupIds, UserCloses(id)
      PROVE  ShellInv' /\ PinStep /\ EvictionStep
  <2>1. /\ Alive(shell, id)
        /\ shell' = [shell EXCEPT !.popups[id].view = "Closed",
                                  !.popups[id].choosing = FALSE, !.popups[id].pinned = FALSE]
        /\ open' = open /\ streams' = streams
    BY <1>9 DEF UserCloses
  <2>2. /\ Sound(shell', open, streams) /\ DOMAIN shell'.popups = DOMAIN shell.popups
        /\ shell'.coord = shell.coord
    BY <1>1, <2>1, UserClosesSound
  <2>3. PinStep /\ EvictionStep
    BY <2>2, CalmStep
  <2> QED
    BY <2>1, <2>2, <2>3
<1>10. ASSUME NEW id \in PopupIds, PopupDismissed(id)
       PROVE  ShellInv' /\ PinStep /\ EvictionStep
  <2>1. /\ id \in DOMAIN shell.popups /\ shell.popups[id].view = "Closed"
        /\ shell' = RemovePopup(shell, id) /\ open' = open /\ streams' = streams
    BY <1>10 DEF PopupDismissed
  <2>2. /\ Sound(shell', open, streams) /\ Calmer(shell, shell')
        /\ DOMAIN shell'.popups = DOMAIN shell.popups \ {id}
    BY <1>1, <2>1, RemovePopupSound
  <2>3. ~shell.popups[id].pinned
    BY <1>1, <2>1 DEF Sound, Numbered
  <2>4. PinStep /\ EvictionStep
    BY <2>2, <2>3, CalmStep DEF Calmer
  <2> QED
    BY <2>1, <2>2, <2>4
<1>11. ASSUME ClickOutside
       PROVE  ShellInv' /\ PinStep /\ EvictionStep
  <2>1. PICK clicked \in {0} \cup DOMAIN shell.popups :
           shell' = RemovePopups(shell, Reusable(shell) \ {clicked})
    BY <1>11 DEF ClickOutside
  <2>2. open' = open /\ streams' = streams
    BY <1>11 DEF ClickOutside
  <2>3. /\ Sound(shell', open, streams) /\ Calmer(shell, shell')
        /\ DOMAIN shell'.popups = DOMAIN shell.popups \ (Reusable(shell) \ {clicked})
    BY <1>1, <2>1, RemovePopupsSound
  <2>4. PinStep /\ EvictionStep
    BY <2>3, CalmStep DEF Calmer, Reusable
  <2> QED
    BY <2>2, <2>3, <2>4
<1>12. LET t == CancelHoverExtraction(shell)
       IN  /\ Sound(t, open, streams) /\ Calmer(shell, t) /\ t.popups = shell.popups
           /\ t.choice = shell.choice
  <2>1. Calmer(shell, shell)
    BY DEF Calmer
  <2> QED
    BY <1>1, <2>1, CancelPendingSound DEF CancelHoverExtraction
<1>13. ASSUME PointerMoves
       PROVE  ShellInv' /\ PinStep /\ EvictionStep
  <2>1. shell' = CancelHoverExtraction(shell) /\ open' = open /\ streams' = streams
    BY <1>13 DEF PointerMoves
  <2>2. PinStep /\ EvictionStep
    BY <1>12, <2>1, CalmStep DEF Calmer
  <2> QED
    BY <1>12, <2>1, <2>2
<1>14. ASSUME NEW ids, shell' = RemovePopups(CancelHoverExtraction(shell), ids),
              \A id \in ids \cap DOMAIN shell.popups : ~shell.popups[id].pinned,
              UNCHANGED <<open, streams>>
       PROVE  ShellInv' /\ PinStep /\ EvictionStep
  <2> DEFINE t == CancelHoverExtraction(shell)
  <2>1. Sound(t, open, streams) /\ Calmer(shell, t) /\ t.popups = shell.popups
    BY <1>12
  <2> HIDE DEF t
  <2>2. /\ Sound(RemovePopups(t, ids), open, streams) /\ Calmer(t, RemovePopups(t, ids))
        /\ DOMAIN RemovePopups(t, ids).popups = DOMAIN t.popups \ ids
    BY <2>1, RemovePopupsSound
  <2>3. shell' = RemovePopups(t, ids) /\ open' = open /\ streams' = streams
    BY <1>14 DEF t
  <2>4. /\ shell'.coord.nextId = shell.coord.nextId
        /\ DOMAIN shell'.popups = DOMAIN shell.popups \ ids
    BY <2>1, <2>2, <2>3 DEF Calmer
  <2>5. PinStep /\ EvictionStep
    BY <1>14, <2>4, CalmStep
  <2> QED
    BY <2>2, <2>3, <2>5
<1>15. ASSUME ForegroundChanged
       PROVE  ShellInv' /\ PinStep /\ EvictionStep
  <2>1. PICK ids \in SUBSET (HoverPopups(shell) \cap Reusable(shell)) :
           shell' = RemovePopups(CancelHoverExtraction(shell), ids)
    BY <1>15 DEF ForegroundChanged
  <2>2. UNCHANGED <<open, streams>>
    BY <1>15 DEF ForegroundChanged
  <2>3. \A id \in ids : ~shell.popups[id].pinned
    BY DEF Reusable
  <2> QED
    BY <1>14, <2>1, <2>2, <2>3
<1>16. ASSUME HoverToggled
       PROVE  ShellInv' /\ PinStep /\ EvictionStep
  <2>1. shell' = ToggleHover(shell) /\ open' = open /\ streams' = streams
    BY <1>16 DEF HoverToggled
  <2>2. /\ Sound(shell', open, streams) /\ shell'.hoverOn = ~shell.hoverOn
        /\ shell'.coord.nextId = shell.coord.nextId
        /\ \A id \in DOMAIN shell.popups \ DOMAIN shell'.popups :
              shell.hoverOn /\ shell.popups[id].hover
    BY <1>1, <2>1, ToggleHoverSound
  <2>3. PinStep /\ EvictionStep
    BY <2>2 DEF PinStep, EvictionStep
  <2> QED
    BY <2>1, <2>2, <2>3
<1>17. ASSUME RestToggled
       PROVE  ShellInv' /\ PinStep /\ EvictionStep
  <2>1. shell' = SetRestMode(shell, ~shell.rest) /\ open' = open /\ streams' = streams
    BY <1>17 DEF RestToggled
  <2>2. shell.rest \in BOOLEAN
    BY <1>1 DEF Sound, Typed, Shell
  <2>3. (~shell.rest) \in BOOLEAN /\ (~shell.rest) # shell.rest
    BY <2>2
  <2>4. /\ Sound(shell', open, streams) /\ shell'.rest = ~shell.rest
        /\ shell'.coord.nextId = shell.coord.nextId
    BY <1>1, <2>1, <2>3, SetRestModeSound
  <2>5. PinStep /\ EvictionStep
    BY <2>3, <2>4, CalmStep
  <2> QED
    BY <2>1, <2>4, <2>5
<1>18. ASSUME shell.generation < MaxGeneration, UNCHANGED <<open, streams>>,
              \/ shell' = ConfigInvalid(shell)
              \/ \E works \in BOOLEAN : shell' = RefreshProvider(shell, works)
              \/ \E config \in Configs, works \in BOOLEAN, canShow \in BOOLEAN :
                    shell' = ApplyConfig(shell, config, works, canShow)
       PROVE  ShellInv' /\ PinStep /\ EvictionStep
  <2>1. /\ Sound(shell', open, streams) /\ shell'.coord.nextId = shell.coord.nextId
        /\ \A id \in DOMAIN shell.popups \ DOMAIN shell'.popups : id = shell.choice.popup
    BY <1>1, <1>18, ReloadSound
  <2>2. PinStep /\ EvictionStep
    BY <2>1, CalmStep
  <2> QED
    BY <1>18, <2>1, <2>2
<1>19. ASSUME ConfigRejected
       PROVE  ShellInv' /\ PinStep /\ EvictionStep
  BY <1>18, <1>19 DEF ConfigRejected
<1>20. ASSUME NEW works \in BOOLEAN, CredentialsChanged(works)
       PROVE  ShellInv' /\ PinStep /\ EvictionStep
  BY <1>18, <1>20 DEF CredentialsChanged
<1>21. ASSUME NEW config \in Configs, NEW works \in BOOLEAN, ConfigLoaded(config, works)
       PROVE  ShellInv' /\ PinStep /\ EvictionStep
  BY <1>18, <1>21 DEF ConfigLoaded
<1>22. ASSUME DuplicateWindowPasses
       PROVE  ShellInv' /\ PinStep /\ EvictionStep
  <2>1. /\ shell' = [shell EXCEPT !.coord.recent = NoRecent]
        /\ open' = open /\ streams' = streams
    BY <1>22 DEF DuplicateWindowPasses
  <2>2. /\ Sound(shell', open, streams) /\ shell'.popups = shell.popups
        /\ shell'.coord.nextId = shell.coord.nextId
    BY <1>1, <2>1, RecentForgottenSound
  <2>3. PinStep /\ EvictionStep
    BY <2>2, CalmStep
  <2> QED
    BY <2>1, <2>2, <2>3
<1> QED
  BY <1>2, <1>3, <1>4, <1>5, <1>6, <1>7, <1>8, <1>9, <1>10, <1>11, <1>13, <1>15, <1>16,
     <1>17, <1>19, <1>20, <1>21, <1>22 DEF Next

-----------------------------------------------------------------------------
(* Theorems *)

(* The invariant says what the runs check. *)
LEMMA InvariantIsEnough ==
  ASSUME ShellInv
  PROVE  /\ TypeOK /\ OneLiveStream /\ PresentationIsWired /\ AwaitedCanCome
         /\ CachedOutputIsWhole /\ RestIsQuiet
<1>1. Sound(shell, open, streams)
  BY DEF ShellInv
<1>2. shell \in Shell /\ open \subseteq Attempts /\ streams \in Streams
  BY <1>1 DEF Sound, Typed
<1>3. TypeOK
  <2>1. PartialFunction(shell.popups, PopupIds, PopupEntry)
    BY <1>2, PopupsArePlain DEF Shell, PartialFunction
  <2>2. PartialFunction(streams, JobIds, Stream)
    BY <1>2, StreamsArePlain DEF PartialFunction
  <2> QED
    BY <1>2, <2>1, <2>2 DEF Shell, TypeOK
<1>4. OneLiveStream
  <2> SUFFICES ASSUME NEW job \in DOMAIN streams,
                      streams[job].end = "Running", job \notin shell.revoked
               PROVE  shell.token = job /\ IsCurrent(shell.coord, job)
    BY DEF OneLiveStream
  <2>1. shell.token = job
    BY <1>1 DEF Sound, Held
  <2>2. job # 0
    BY <1>2, StreamsArePlain DEF JobIds
  <2>3. /\ shell.coord.active # NoJob /\ shell.coord.active.id = job
        /\ shell.coord.active.id \notin shell.coord.cancelled
    BY <1>1, <2>1, <2>2 DEF Sound, Held
  <2> QED
    BY <2>1, <2>3 DEF IsCurrent
<1>5. PresentationIsWired
  <2> SUFFICES ASSUME shell.coord.active # NoJob,
                      IsCurrentPresentation(shell, shell.coord.active.id)
               PROVE  /\ shell.activePopup \in DOMAIN shell.popups
                      /\ shell.activeRequest # "None"
                      /\ shell.token = shell.popupJob
                      /\ streams[shell.popupJob].end = "Running"
                      /\ shell.popups[shell.activePopup].replay =
                            [trigger |-> shell.coord.active.trigger,
                             text |-> shell.activeRequest]
    BY DEF PresentationIsWired
  <2>1. Presented(shell)
    BY <1>1, CurrentIsPresented
  <2> QED
    BY <1>1, <2>1 DEF Sound, Wired
<1>6. AwaitedCanCome
  BY <1>1 DEF Sound, Awaits, AwaitedCanCome
<1>7. CachedOutputIsWhole
  <2> SUFFICES ASSUME NEW text \in GoodTexts, shell.cache[text] # NoOutput
               PROVE  /\ shell.cache[text].chunks # <<>>
                      /\ shell.cache[text].chunks =
                            [i \in 1..streams[shell.cache[text].job].sent
                                |-> shell.cache[text].job]
                      /\ streams[shell.cache[text].job].end = "Ok"
                      /\ streams[shell.cache[text].job].generation = shell.generation
    BY DEF CachedOutputIsWhole
  <2>1. WholeOutput(shell.cache[text], shell.generation, streams)
    BY <1>1 DEF Sound, Whole
  <2> QED
    BY <2>1 DEF WholeOutput, AllDeltas
<1>8. RestIsQuiet
  BY <1>1 DEF Sound, Quiet, RestIsQuiet
<1> QED
  BY <1>3, <1>4, <1>5, <1>6, <1>7, <1>8

(* The message loop keeps its invariant, however the handlers follow one    *)
(* another (app.rs, ShellState).                                            *)
THEOREM InvariantCorrect == Spec => []ShellInv
<1>1. ShellInv /\ [Next]_vars => ShellInv'
  <2> SUFFICES ASSUME ShellInv, [Next]_vars PROVE ShellInv'
    OBVIOUS
  <2>1. CASE Next
    BY <2>1, StepKeepsInv
  <2>2. CASE UNCHANGED vars
    BY <2>2 DEF vars, ShellInv
  <2> QED
    BY <2>1, <2>2
<1> QED
  BY InitHasInv, <1>1, PTL DEF Spec

(* Every value of the shell has its type: no counter leaves its range, and  *)
(* no handler leaves half a record behind.                                  *)
THEOREM TypeCorrect == Spec => []TypeOK
<1>1. ShellInv => TypeOK
  BY InvariantIsEnough
<1> QED
  BY InvariantCorrect, <1>1, PTL

(* A provider stream nobody told to stop is the active job's, and the       *)
(* shell can still stop it (app.rs, admit_extracted_request, remove_popup,  *)
(* cancel_inflight_work).                                                   *)
THEOREM OneLiveStreamCorrect == Spec => []OneLiveStream
<1>1. ShellInv => OneLiveStream
  BY InvariantIsEnough
<1> QED
  BY InvariantCorrect, <1>1, PTL

(* A job presented has its popup, its request and its token (app.rs,        *)
(* is_current_presentation).                                                *)
THEOREM PresentationIsWiredCorrect == Spec => []PresentationIsWired
<1>1. ShellInv => PresentationIsWired
  BY InvariantIsEnough
<1> QED
  BY InvariantCorrect, <1>1, PTL

(* The answer the shell waits for can come and will be taken (app.rs,       *)
(* take_matching_pending, profile_for_generation).                          *)
THEOREM AwaitedCanComeCorrect == Spec => []AwaitedCanCome
<1>1. ShellInv => AwaitedCanCome
  BY InvariantIsEnough
<1> QED
  BY InvariantCorrect, <1>1, PTL

(* Only whole outputs of the current configuration are cached (app.rs,      *)
(* handle_finished).                                                        *)
THEOREM CachedOutputIsWholeCorrect == Spec => []CachedOutputIsWhole
<1>1. ShellInv => CachedOutputIsWhole
  BY InvariantIsEnough
<1> QED
  BY InvariantCorrect, <1>1, PTL

(* Rest mode is quiet, whatever message arrives in it (app.rs,              *)
(* set_rest_mode).                                                          *)
THEOREM RestIsQuietCorrect == Spec => []RestIsQuiet
<1>1. ShellInv => RestIsQuiet
  BY InvariantIsEnough
<1> QED
  BY InvariantCorrect, <1>1, PTL

(* The three action properties from one step of the invariant. *)
LEMMA StepKeepsPromises ==
  ASSUME ShellInv, ShellInv', [Next]_vars
  PROVE  /\ \A id \in DOMAIN shell.popups :
               shell.popups[id].pinned /\ id \notin DOMAIN shell'.popups
                  => \/ shell'.rest # shell.rest
                     \/ shell.popups[id].hover /\ shell.hoverOn /\ ~shell'.hoverOn
                     \/ shell.choice.popup = id
         /\ Cardinality(DOMAIN shell'.popups) <= MaxVisible
         /\ shell'.coord.nextId # shell.coord.nextId =>
               \A id \in DOMAIN shell.popups \ DOMAIN shell'.popups :
                  \/ shell.popups[id].view = "Closed"
                  \/ /\ shell.popups[id].view = "Result"
                     /\ ~shell.popups[id].pinned
                     /\ id # shell.pending.source
<1>1. Roomy(shell')
  BY DEF ShellInv, Sound
<1>2. PinStep /\ EvictionStep
  <2>1. CASE Next
    BY <2>1, StepKeepsInv
  <2>2. CASE UNCHANGED vars
    BY <2>2 DEF vars, PinStep, EvictionStep
  <2> QED
    BY <2>1, <2>2
<1> QED
  BY <1>1, <1>2 DEF Roomy, PinStep, EvictionStep

(* Only an answer closes an attempt, and an answer of another attempt       *)
(* leaves the shell as it is.                                               *)
LEMMA AnswerStep ==
  ASSUME ShellInv, [Next]_vars, NEW attempt \in open \ open',
         shell.pending # NoPending, shell'.pending = NoPending
  PROVE  attempt = shell.pending.attempt
<1>1. ~UNCHANGED open /\ Next
  BY DEF vars
<1>2. ASSUME NEW trigger \in Triggers, Trigger(trigger) PROVE FALSE
  BY <1>2 DEF Trigger
<1>3. PICK answered \in Attempts : ExtractionAnswered(answered)
  BY <1>1, <1>2
     DEF Next, Replay, ProfileSelected, PinToggled, UserCloses, PopupDismissed, Delta,
         Finished, ClickOutside, PointerMoves, ForegroundChanged, HoverToggled,
         RestToggled, ConfigRejected, CredentialsChanged, ConfigLoaded, DuplicateWindowPasses
<1>4. answered = attempt
  BY <1>3 DEF ExtractionAnswered
<1>5. PICK text \in Texts \cup {"None"}, canShow \in BOOLEAN, inFront \in BOOLEAN :
         shell' = HandleExtraction(shell, attempt, text, inFront, canShow)
  BY <1>3, <1>4 DEF ExtractionAnswered, Handle
<1>6. shell.pending.attempt # attempt
         => HandleExtraction(shell, attempt, text, inFront, canShow) = shell
  BY DEF HandleExtraction, TakesPending
<1> QED
  BY <1>5, <1>6

(* A late answer of a cancelled attempt never consumes its replacement      *)
(* (app.rs, take_matching_pending).                                         *)
THEOREM AnswerServesItsRequestCorrect == Spec => AnswerServesItsRequest
<1>1. ShellInv /\ [Next]_vars
         => [\A attempt \in open \ open' :
               shell.pending # NoPending /\ shell'.pending = NoPending
                  => attempt = shell.pending.attempt]_vars
  BY AnswerStep
<1> QED
  BY InvariantCorrect, <1>1, PTL DEF Spec, AnswerServesItsRequest

(* A pinned popup goes only with the mode, as a Hover popup when Hover is   *)
(* switched off, or as the chooser (app.rs, ensure_popup,                   *)
(* dismiss_unpinned_outside, should_dismiss_hover_for_foreground).          *)
THEOREM PinnedPopupsStayCorrect == Spec => PinnedPopupsStay
<1>1. ShellInv /\ ShellInv' /\ [Next]_vars
         => [\A id \in DOMAIN shell.popups :
               shell.popups[id].pinned /\ id \notin DOMAIN shell'.popups
                  => \/ shell'.rest # shell.rest
                     \/ shell.popups[id].hover /\ shell.hoverOn /\ ~shell'.hoverOn
                     \/ shell.choice.popup = id]_vars
  BY StepKeepsPromises
<1> QED
  BY InvariantCorrect, <1>1, PTL DEF Spec, PinnedPopupsStay

(* An admission evicts only finished, unpinned popups other than the one    *)
(* it springs from, and the registry stays within its capacity (app.rs,     *)
(* oldest_evictable_popup, ensure_result_surface).                          *)
THEOREM EvictionSparesWorkCorrect == Spec => EvictionSparesWork
<1>1. ShellInv /\ ShellInv' /\ [Next]_vars
         => [/\ Cardinality(DOMAIN shell'.popups) <= MaxVisible
             /\ shell'.coord.nextId # shell.coord.nextId =>
                   \A id \in DOMAIN shell.popups \ DOMAIN shell'.popups :
                      \/ shell.popups[id].view = "Closed"
                      \/ /\ shell.popups[id].view = "Result"
                         /\ ~shell.popups[id].pinned
                         /\ id # shell.pending.source]_vars
  BY StepKeepsPromises
<1> QED
  BY InvariantCorrect, <1>1, PTL DEF Spec, EvictionSparesWork

=============================================================================
