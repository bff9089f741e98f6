# Selection Translate: specifications, model checks and proofs

Selection Translate is a resident Windows program. The user selects or hovers text, a hidden window
gets the event, a worker extracts the text, a provider thread streams an answer, and a popup shows it.
This directory models the parts of it in which threads, late messages and long sequences of ordinary
commands meet: it says what those parts promise, lets TLC look for behaviours that break the promises on
small instances, and proves the core promises with TLAPS for every value of the constants.

## The system

| Component | State it keeps | Operations | Interacts by | Hard behaviour |
| --- | --- | --- | --- | --- |
| Job coordinator `core/coordinator.rs` | next job id, active job, last automatic success, one shared cancellation flag per job | start (with and without duplicate suppression), complete, finish, cancel_active | called by the message loop; flags shared with every clone of a handle | late and repeated reports, id wrap, priorities, the duplicate window |
| Extraction mailbox and worker `platform-windows/composition.rs` | one-slot mailbox under a mutex, active cancellation token, shutdown flag; the worker's request and its result | extract, cancel_extraction, next, complete, shutdown, run_extraction | mutex and condition variable, atomics, an event channel plus `PostMessageW` | lost wake-ups, cancellation between a check and a post, fallback order, shutdown |
| Message loop `platform-windows/app.rs` | `ShellState`: popup registry, pending extraction, pending profile choice, active request and popup, provider token, stream output, cache, generation, rest mode, startup error | window messages: triggers, extraction answers, deltas, stream ends, popup commands, outside clicks, foreground changes, rest mode, configuration and credential reloads | drains the channel, posts and receives window messages, calls every other component | every message can arrive after what it belongs to is gone; many fields must agree |
| Popup window `platform-windows/popup.rs` | loading, streaming, result, error, chooser; pin; output buffer; render timer; move loop | show, stage, present, reanchor, update, set_text, close | messages to the message loop | windows destroyed by the user before the loop hears of it, text that is never drawn |
| Result cache `core/cache.rs` | bounded map with expiry | insert, get | called by the message loop | capacity, expiry, replacement |
| Provider client and adapter `provider-openai`, `apps/resident/main.rs` | WinHTTP handle in a cancellation token, timeout guard, SSE decoder; a delta channel polled every 20 ms | stream, cancel, time out | three threads over one handle, two channels | a handle closed twice, a timeout after success, deltas lost at the end |
| Clipboard extractor `platform-windows/clipboard.rs` | one-slot request channel, snapshot, sequence numbers, restore guard | extract, snapshot, send Copy, wait, read, restore | the clipboard is shared with every other program | another program writes between any two steps |
| Mouse gestures `platform-windows/mouse.rs`, `app.rs` | button, anchor, queued releases, two deadlines; two window timers | press, move, release, take_due, toggles | hook messages posted by a hook thread | deadlines and timers drift apart, lost button-up, work for a place the pointer left |
| History writer and store `apps/resident/history_writer.rs`, `crates/storage` | queue, batch, SQLite table and its id sequence | enqueue, flush, prune, delete, create the schema | channel to a writer thread, a database shared with the managers | a batch that fails, shutdown, pruning under an open box |
| Configuration watcher and manager `config_reload.rs`, `apps/manager` | directory notification, channel of loaded files; pages, drafts, form fields | read, publish, apply; type, switch, save | file system, window messages | merged or lost notifications, an old read that overtakes a new one, forms that disagree |
| Instance and launch protocol `app.rs` | resident mutex, launch mutex, hidden window | acquire, ping, start | named kernel objects | two launches at once |
| Hotkeys `hotkey.rs` | registered combination, conflicts | register, reregister, roll back | Windows | the old combination is gone when the new one is refused |
| Text rules, request gate, prompts, response format `crates/core` | none | normalize, sentence, prepare, render, format | called by the other parts | order of checks, applied twice, boundaries |
| UI Automation, native control, OCR, tray, credentials | Windows handles | read | Windows | outcomes only |

What makes each correct, in one line: the coordinator keeps one live job and no dead one in the way; the
mailbox answers the latest request and only that once; the message loop never shows, caches, records or
waits for something that belongs to another request; the client closes its handle once and delivers a
complete answer or an error; the clipboard extractor leaves the user's clipboard as it found it; the
writer stores entries in order and pruning keeps the newest; one resident runs, and it runs with what the
file says; a gesture's timers and its work belong to where the pointer is; a popup shows what it has, and
the message loop knows of every window the user closed.

## Modules

    CoordinatorOps ---- Coordinator ---- MCCoordinator
          |                  `---------- CoreProofs (TLAPS)
          `------------ ResidentShell -- MCResidentShell
                             `---------- ResidentShellProofs (TLAPS)
    LatestWins <-- refines -- ExtractionMailbox -- MCExtractionMailbox
                                    `------------- ExtractionMailboxProofs (TLAPS)
    ClipboardCopy ----- MCClipboardCopy
          `------------ ClipboardCopyProofs (TLAPS)
    ProviderStream ---- MCProviderStream
          `------------ ProviderStreamProofs (TLAPS)
    HistoryStore <-- refines -- HistoryWriter -- MCHistoryWriter
                                      `--------- HistoryWriterProofs (TLAPS)
    Launch -------- ConfigSync -- MCConfigSync
    ManagerForms ---'    `------- ConfigSyncProofs (TLAPS)
    MouseGestures --.
                  Desktop ------- MCDesktop
    PopupWindow ----'   `-------- DesktopProofs (TLAPS)
    TextRules -- RequestGate ---- CoreProofs (TLAPS)
            |         `---------.
            `-- ResponseFormat -- CoreChecks -- MCCoordinator
                ResultCache ----'

### CoordinatorOps, Coordinator

`CoordinatorOps` has the operations of `Coordinator` as functions from one coordinator record to the
next, so that a handler of the shell can compose several. `cancelled` is the set of ids whose shared flag
is set; it outlives the job. Texts are reduced to their `TextFingerprint`, time to ticks, and the id
counter to `1..MaxId`, with the wrap of the code. `Coordinator` lets any holder of a handle report or
cancel at any time, late or twice. `IdIsFree` is the one assumption: nobody holds a handle while 2^64 - 1
further jobs are started.

### LatestWins, ExtractionMailbox

`LatestWins` is what the message loop relies on: of all attempts only the wanted one must be answered,
none twice, others late or never. `ExtractionMailbox` is the code: each critical section of the mailbox,
each call of a source, each separate look at the flag and the post are steps of their own, and the
condition variable loses a notification nobody waits for and may wake up spuriously. A source answers
`Ok` (text with a sentence), `Bare` (without), `Denied` (`PermissionDenied`) or `Failed` (all other
failures); what was asked for the current request is kept in `trail`. The worker may be missing from the
start (thread creation failed), in which case `Extract` fails the attempt at once. `OpenAttempts` is the
refinement mapping. The run's `ImplementsLatestWins` checks `LatestWins!Spec`.

### ResidentShell

One record `shell` is `ShellState`. All handlers run to completion on the window's thread, so each is one
step, written as an operator from shell to shell with the name of its function and composed as the code
composes them. `open` are extraction attempts that may still be answered (what `LatestWins` promises about
them), `streams` what became of each started job's provider stream. There is no queue: the model lets
a message be sent at any moment before it is handled and keeps only the order of one stream's own messages,
so every delay of the channel is covered. Abstracted: anchors, windows, labels, prompt ids and
`last_request`; whether the foreground guard of a Hover, new or replayed, holds (`inFront`) and whether a window
can be created or shown (`canShow`) are choices; `hoverOn` is the toggle, which the hot key and the tray menu
switch and without which no Hover begins; `reanchor` fails for a popup the user closed and for no other; the cache has
no capacity; the duplicate window ends at any moment (`DuplicateWindowPasses`). History is enqueued exactly
where the cache is filled from the same output, and on a cache hit, so it has no variable of its own. Modal message
boxes (`show_diagnostic`) are the last act of the handlers that open them, so what runs inside them is the
same as what runs after.

### ClipboardCopy

The worker thread of `clipboard.rs` with its callers and the other programs of the desktop. `clip` is the
clipboard: the sequence number (`GetClipboardSequenceNumber`, which wraps at `SeqMod`), its owner and its
content, which is who put it there and by which write. A write by another program is two steps, because
opening the clipboard keeps others out but not from reading the number and the owner. An injected Copy is
only `asked` for: its application answers at once, late or never. The worker's deadlines are choices: a
wait may end as soon as the code's condition for giving up holds. Which formats are cloned, modifier keys and
the identity of the window in front are outcomes of `TakeSnapshot`, `ApproveCopy` and `Retry`. `calm` says
that nothing outside the protocol touched the current extraction: no write by the user, no answer the worker
no longer waits for, no refusal by Windows, no end of the process. `ClipboardComesBack` speaks about calm
extractions only, since nothing can undo a write it does not know of; `RestoreReplacesWhatSettled` speaks
about all.

### ProviderStream

One stream through `OpenAiAdapter::stream`, `stream_worker` and `TimeoutGuard`: three threads, a channel and
one WinHTTP handle. Deltas are counted: `emitted` by the client, `delivered` to the sink, their difference
waits in the channel. Every read of a shared flag, every swap and every close is a step. Two things are
nondeterministic because the build allows both outcomes: `wait_timeout` may wake up early (`GuardWakesUp`),
and the release store of `set_active` may become visible after the acquire load of the flag that follows it
(`CheckTokenEarly`, `SetActiveLate`). The server may answer, send, stop or stay silent for ever. `Returned`
lets the finished stream stutter.

### HistoryStore, HistoryWriter

`HistoryStore` is the promise: accepted entries wait in order; any number of them from the front is stored
together or lost; after each store the table is its `MaxHistory` newest rows; a deletion takes one row.
`HistoryWriter` is the code: the resident opens the database (`open`, `ensure_schema`) in steps that race
with the managers', completed answers and cache hits are enqueued, the thread collects a batch and writes it
in one transaction, `Drop` sends a flush and waits for it and for the thread with deadlines, and the process
may crash or end first. The refinement maps the queue and the batch to `waiting`. A SQLite transaction is one
step; a busy file and an I/O failure are the same choice. Each manager's page lists, asks before a deletion
and deletes by id. Not modelled: search, the order of a list, what an entry says besides time and kind.

### Launch, ManagerForms, ConfigSync

`Launch` is the start of processes: resident mutex, launch lock, ping, the mutex question (which opens a
handle, and so can turn a starting resident away), the spawned child and every timeout. Any process may end at
any step. `ManagerForms` has a manager window's pages as functions from window to window: typing, switching,
drafts, renames and what a save makes of them, with the rules of `AppConfig::validate`. `ConfigSync`
composes both with the file, the watcher thread, the channel of read configurations, the notice a manager
sends after a save, the stored keys, and the resident's `apply_config` with its provider and hot key. A failed
save has no step, because the file is replaced in one operation. `unseen` marks a resident whom no
notification will tell of the file as it is: the file changed between `load_config` and the first read of the
directory, the notification was lost, or the file could not be read 30 ms after the last one, which
`watch_directory` reports as invalid and does not try again. A window remembers in `edited` on which pages the
user changed a field since it was filled, so that a property can speak of the others. Profiles are numbers, a provider section is its target.

### MouseGestures, PopupWindow, Desktop

`MouseGestures` is `MouseState` with what `app.rs` does around it: hook events in any order (a hook thread
may lose some), two deadlines, the window timers that stand for them, Hover and rest mode, and the pending
Hover extraction. A spot is a point with its window; `Near` says which are within the jitter threshold. A
deadline is running or due. `PopupWindow` is one result window: what it is to show and what it shows, the
render timer, Windows' move loop, chooser, pin, replay, and the messages it posts. `Desktop` joins the two as
the message loop does: a press outside dismisses, the pointer over a finished popup's text is read, and the
popup a Hover reads from can go away. What the popup is asked to show is a choice within the guards of the
code; the agreement between requests, jobs and popups is `ResidentShell`'s matter, which has many popups and
no windows. Posting a message is assumed to succeed.

### TextRules, RequestGate, ResultCache, ResponseFormat, CoreChecks

Pure functions as operators. A text is a sequence of character classes (`TextRules`: normalization, Hover
cleaning, sentence bounds), a template a sequence of braces and words, an address a sequence of tokens
(`RequestGate`: `prepare` check by check, template rules, endpoint rules), a response a sequence of lines
(`ResponseFormat`). Unicode classification, CRLF and the wording of prompts are left out; inference
settings are temperature and token limit. `CoreChecks` states as assumptions, which TLC evaluates before the
`coordinator` run, what they compute, against definitions by sets and quantifiers, for all inputs up to a
length: `HoverTargetIsAWord`, `SentencesPartition`, `SentenceKeepsItsWord`, `TemplatesRender`,
`AdmittedIsAskedFor`, `PlainHttpStaysLocal`, `CacheKeepsTheLatest` and `ResponsesAreFormatted` (a field
whose value is itself a heading line is outside its inputs: it yields a second heading).

## Runs

| Run | Instance | What it shows |
| --- | --- | --- |
| `coordinator` | 3 ids (wrap with handles held), a blank and a non-blank fingerprint, clock 0..3 with a window of 1 | one live job, ended jobs block nothing, only the current success suppresses, no downgrade; and `CoreChecks` |
| `extraction` | 3 attempts: one running, one waiting, one replacing it | all interleavings of loop and worker: stale work sees its flag, sources in the documented order, every awaited attempt is resolved, shutdown ends the worker, `LatestWins` is implemented |
| `shell` | 2 popups, attempts, generations, jobs; streams of up to 2 deltas; one good and one refused text; 2 configurations | streams nobody wants were told to stop, cached output is one whole stream of this configuration, rest mode is quiet, an answer serves its own request |
| `shell_popups` | 3 popups with a capacity of 2, 3 attempts and jobs, 1 delta | presentation fields agree, what is awaited can come, evictions spare unfinished, pinned and parent popups, a pinned popup survives all but rest mode, the chooser and, if it is a Hover's, the Hover toggle |
| `shell_orphaned_job` | as `shell` | violation: a chooser shown over a running Selection job unlinks it; its end is ignored and, with nothing running, it keeps a Hover out |
| `clipboard` | 2 extractions, 2 writes by other programs, one owner window, sequence numbers that start at the wrap | a calm extraction gives the clipboard back, restoring replaces only what settled, old clipboard text is never the answer, the thread ends |
| `clipboard_foreign_write` | 1 extraction, 1 write | violation: the user's write is taken for the answer to Copy, and the older clipboard is restored over it |
| `provider` | 3 deltas | the handle is closed exactly once, Ok is final, a cancelled stream returns |
| `provider_lost_deltas` | 3 deltas | violation: deltas are left in the channel and the cut-off answer is Ok |
| `history` | 2 starts, 3 entries, batches of 2, a table of 2, 2 managers, 2 clock values (the clock may step back) | `HistoryStore` is implemented, the flush speaks for all entries, a deletion removes what was shown, every entry is tried or its process ends |
| `config` | 2 residents, 2 managers, 2 targets, 2 hot keys, up to 2 profiles; budgets of 3 starts, or 2 starts and a write, or 1 start with 2 writes or with a write and 2 typed fields | one resident, no question turns a child away, a page shows what its save would write over, key and hot key belong to the running configuration, the resident follows the file |
| `desktop` | 3 spots (two of one word, one on the popup's text), 2 queued releases, output of 3 with a marker of 1, 2 profiles in a chooser with 1 button, 1 message in flight | timers match deadlines, Hover work is current, nothing stays undrawn, one surface, closes are reported, every release is observed |

Bounds: a second id, attempt or generation is what makes the first one stale, and a third is needed where
something is replaced while another waits; two deltas separate a whole output from a prefix; a second extraction meets what the first left (a late
answer, a request nobody waits for), and two writes are two answers or an answer and a write of the user; capacity two
of three popups makes both eviction and protected capacity happen. The configurations are interchangeable,
hence the symmetry; the shell runs have no liveness. `MCShellView` merges states of `shell_popups` that
differ only in flags and streams of stopped work, which none of its properties reads and no handler looks
at (`handle_finished` and the delta handler return first). In `history` the third entry overflows both the
batch and the table, and the second start meets rows, ids and a schema of the first. In `config` the four
budgets split one space: what several processes do to each other needs starts, what saves do to each other
needs writes, and a form needs two fields before its save; `ConfigSyncProofs` covers all numbers of
processes, and all budgets, for the safety properties.
In `desktop` two releases put one behind the other, a piece of two fills the output up to the marker at
once, and a second message in flight would belong to the same popup slot; `DesktopProofs` covers all bounds
for the safety properties.

Deadlock is checked except in `extraction`, the clipboard runs, `history`, `config` and `desktop`, where all
attempts, entries or starts may be spent and the program waits for the user.

Type invariants: `TypeOK` of every module a run checks is a theorem (`TypeCorrect` of its proofs); of the
runs only `desktop` checks one.

Fairness (`ExtractionMailbox`): weak on the worker, because its thread is scheduled and the platform calls
it makes are bounded; weak on the second half of `begin_request`, because a handler that began goes on; weak
on draining the channel. None on the user, on spurious wake-ups or on the shutdown.
`ClipboardCopy`: weak on the worker, whose waits all have deadlines. `ProviderStream`: weak on the adapter, on
what the client does by itself and on the guard (the deadline passes); none on the server, so that
`CancelEnds` shows what cancellation achieves alone, and none on spurious wake-ups. `HistoryWriter`: weak on
the writer thread, whose every statement has a busy timeout. `ConfigSync`: weak on the watcher thread and on
the message loop's draining of its channel; none on managers or on the arrival of a notification that was
lost. `Desktop`: weak on the passing of the selection deadline, on Windows delivering a timer that is set, and
on the loop handling a timer message; none on hook events, the user or the streams.

## Proofs

Every safety property the runs check, every action property and both refinements are theorems, for every value
of the constants within the named assumptions. Most of them are not inductive as a run states them; each
paragraph says what had to be added.

`CoreProofs` proves for every `MaxId`, `TTL`, clock bound and set of fingerprints: `TypeCorrect`,
`OnlyActiveIsLiveCorrect`, `TerminalJobsNeverBlockCorrect`,
`RecentOnlyFromCurrentSuccessCorrect` and `NoPriorityDowngradeCorrect`. Assumptions: `CoordinatorAssumption`
(at least one id, a natural window) and `ClockAssumption`. `OnlyActiveIsLive` is not inductive: `finish`
empties `active` without setting the flag. With the history variable `settled` in the invariant it is, and
`ActiveNotSettled` is what the priority theorem needs on top. For all inputs, configurations and providers
it proves `PreflightIsTheRequest` (the message loop prepares with job id 0 before it starts the job, and `bind_job_id`
then gives what preparing for the job would have given).

`ExtractionMailboxProofs` proves for every number of attempts `StaleWorkIsCancelledCorrect`,
`FallbackOrderCorrect`, `LatestWinsImplemented` (every step of the mailbox, the worker and the loop is a step
of `LatestWins` or none) and, from it, `PromiseKept` (the invariants of `LatestWins` under the mapping).
`MailboxInv` says where an attempt can be: the slot holds the wanted one (`SlotIsWanted`), the token the
mailbox has is that of the request, or the request is already cancelled (`ActiveIsRequest`), the wanted one is
never cancelled (`WantedIsNotCancelled`), no attempt is in two places (`AttemptsAreApart`) and the wanted one is
in one (`WantedIsSomewhere`). `FallbackOrder` needs `StageFollowsTrail`: what each stage knows was asked before.

`ResidentShellProofs` proves for every number of popups, attempts, configurations, texts and jobs the
properties of both shell runs: `OneLiveStreamCorrect`, `CachedOutputIsWholeCorrect`, `RestIsQuietCorrect`,
`PresentationIsWiredCorrect`, `AwaitedCanComeCorrect`, `AnswerServesItsRequestCorrect`,
`EvictionSparesWorkCorrect` and `PinnedPopupsStayCorrect`. As a handler is a composition of operators
on shells, the invariant is an operator too, `Sound(s, o, st)` of a shell, the open attempts and the streams;
each operator of the model has a lemma about any sound shell, and a handler's lemma puts them together. The
parts: `Held` (the token is the active job's, every other running stream was told to stop), `Wired` (the job
shown, its popup, its replay and the output at hand are one job's), `Awaits`, `Quiet`, `Whole` (of the cache),
`Numbered` and `Roomy` (of the registry). What closing, cancelling and evicting have in common is `Calmer`
(nothing is started, asked for or chosen) with `Spared` and `SparesPins`. The proof found two assumptions that
`ShellAssumption` now states: a started job changes the next id (`MaxId > 1`), and "None" is no text.

`ClipboardCopyProofs` proves for any number of extractions, writes and owner windows, and any modulus
that the number does not run through within them (`ClipboardAssumption`): `ClipboardComesBackCorrect`,
`OldClipboardIsNotTheAnswerCorrect` and `RestoreReplacesWhatSettledCorrect`. The worker compares numbers and
promises something about contents. `NumberCountsWrites` ties the two: the number has moved as far from the
snapshot's as others took steps of a write (`WriteMovesOn`), so a distance of zero is an untouched clipboard and
a greater one a content written later; `SeenIsKnown` says the same of the number seen last, `CalmIsUntouched`
what a calm extraction knows at each place. `AskedIsBounded` and `CallsInOrder` bound the injected copies by
the calls, which the type needs.

`ProviderStreamProofs` proves for every `MaxDeltas` (a natural number, `DeltaAssumption`): `TypeCorrect`,
`HandleClosedOnceCorrect` and `OkIsFinalCorrect`. `HandleClosedOnce` is not inductive: it does not say who may
still close. `HandleOwned` says it by the client's place and by `active`: before publication and after
`clear_active` succeeded the client alone, otherwise whoever swaps the handle out of `active`; and
`CloseActiveKeepsOwner` shows that one `cancel` keeps it, whoever calls it. `OkIsFinal` needs
`DeadlineSettled`: once the client joined the guard nobody sets `timedOut`, so its last look is the final one.
The memory-order and spurious wake-up steps are among the cases.

`HistoryWriterProofs` proves for every number of entries, starts and managers and every size of batch and
table: `FlushAnswersForAllCorrect`, `DeletesWhatWasShownCorrect` and `HistoryStoreImplemented`. The flush needs
that nothing is accepted after it (`FlushIsLast`), a deletion that ids are not given again and lists shown
earlier still name their rows (`RowsAreApart`, `ShownIsKnown`), the refinement that a worker between batches
holds nothing (`WorkerIsTidy`). That what the pruning statement keeps is what `HistoryStore` asks for is
`PrunedIsNewest`, about any finite table whose ids differ: its rows are totally ordered, so each keeps or loses
its place alone. `WriterAssumption` now says that there is at least one start, without which the refinement
does not hold initially.

`ConfigSyncProofs` proves for every set of residents, managers, targets, hot keys and edits and every number of
profiles (`ConfigAssumption`): that the composed system implements `LaunchSpec` (`LaunchImplemented`),
`OneResidentCorrect`, `ChildSurvivesQuestionsCorrect`, `PagesAreCurrentCorrect` and `RuntimeIsOfOnePieceCorrect`.
The launch half adds `LockIsExclusive` (one manager at most is between taking the launch lock and releasing it)
and `ParentsWait` (a manager with a child is waiting for it). `PagesAreCurrent` needs that
each manager's window holds a configuration and a selected profile it has (`Fits`); then each operation of
`ManagerForms` keeps `PromptCurrent` and `SettingsCurrent`, whichever page is open. `RuntimeIsOfOnePiece` needs that Windows never has an unparsable
combination (`OwnHotkey`) and that a drained queue, applied change by change with a fold, keeps what one change
keeps (`QueueIsWhole`).

`DesktopProofs` proves for every set of spots, every neighbourhood and all limits (`MouseAssumption`,
`PopupAssumption`, `DesktopAssumption`): `TypeCorrect`, `TimersCorrect`, `HoverCorrect`, `SourceCorrect`,
`DisplayCorrect`, `SurfaceCorrect` and `ReportCorrect`, all from `Invariance`. None of the properties is
inductive. The mouse's half (`MouseInv`) adds `MouseShape` (an anchor needs Hover on and no button down, a dwell
is at the anchor, rest mode has a fresh state); the popup's half (`PopupInv`) adds `Good`, what a window's fields say about each other
while a chooser covers a result, and `Reported`, which ties the posted messages to the life of the window.
The halves are proved apart, each for its own operations, and joined with `SourceIsThere`, the one part that
speaks of both, action by action of `Desktop`.

Where an argument runs over a set or a queue, the proofs take the least counterexample: `LeastNumber` of a set of
numbers and the minima of finite sets follow from well-founded orders (`WFMin`), without the library's
induction rules, which take an operator as a parameter.

Left to TLC: liveness under fairness (`CancelEnds`, `WorkerEnds`, `NobodyWaitsForever`, `EveryEntryIsAttempted`,
`ResidentFollowsFile`, `EveryReleaseIsObserved`), and what `TextRules`, `ResultCache` and `ResponseFormat`
compute for all sequences up to a length.

## Findings

* `shell_orphaned_job`: `handle_extraction` clears `popup_job_id` when it shows a chooser; a Selection job still
  running at that moment (its popup is pinned) can no longer end: `handle_finished` returns early. When the
  user clicks the chooser away, nothing runs, but Hover stays out until the next Selection or Manual request.
  `coordinator.rs:269-270` says an ended job "must not block later jobs".
* `clipboard_foreign_write`: any change of the sequence number before the end of the settling counts as the
  answer to Copy, so a write by the user in that time is replaced by the older clipboard.
  `clipboard.rs:212-213` and `:333-334` promise that only the copy is replaced.
* `provider_lost_deltas`: the adapter asks `is_finished` after its poll timed out; what was sent in between
  stays in the channel and the stream returns Ok. `docs/PRIVACY.md:6` says partial answers are not stored.

### Seen while modelling

What follows is the code's behaviour, in the models where a module has the state for it; no run states a
property about it, because no line of the repository promises otherwise or because the state it needs is
outside the module.

* A Hover word with a dot before a capital or a digit (System.Console, 3.14): `is_boundary`
  (`sentence.rs:98`) ends the sentence at that dot, so the sentence lost the word it was cut for
  (`sentence.rs:13` says it contains the target), and the gate, which cuts again, refuses the request with
  `MissingTarget`. `SentenceKeepsItsWord` states exactly when. The abbreviation test for capitals with
  dots (`sentence.rs:115-117`) never holds, because its word was lower-cased before.
* A reload refreshes an open chooser together with its generation (`app.rs:1669`), so an index posted just
  before, or taken from a "More" menu that was open, selects by the new order.
* `begin_selected_profile` takes the choice before the admission; a refused one leaves a chooser that answers
  to no click.
* `apply_config` returns early for an equal configuration and so never clears the `startup_error` that an
  unreadable moment of the same file set; another edit, a credential refresh or a restart does.
  The read 30 ms after a notification may be such a moment (`config_reload.rs:170-177`): it is not tried again,
  and the resident stays behind until the next change or a manager's notice.
* A change between `load_config` and the watcher's first read of the directory is not seen until the next one
  (`unseen`); the same holds after an overflow, a read that failed or the end of the watcher's thread. A read that waits in the
  channel may put an older file back for the time until its successor is drained.
* `save_settings` does not refresh the default the prompts page holds, so a later `save_prompt` writes the old
  one back; two managers overwrite each other's saves; a manager that met an unreadable file shows defaults,
  and its next save writes them.
* A resident that a user starts while a manager's child starts makes the child exit, and the manager reports
  Unavailable although a resident runs; so does a resident that is on its way out and still has the mutex.
* A failed batch is dropped as a whole; a resident that loses the race for the schema has no history until
  it is started again.
* A left button that is pressed elsewhere and released over a pinned popup is never released for
  `MouseState`: the selection is missed and Hover stays silent until the next click.
* An `http` endpoint needs `localhost` alone or with a port; `http://localhost/v1` and `[::1]` are refused.
* PostMessageW may fail when the window's queue is full, and an event then waits in its channel for the next;
  a program may answer a synthesized Copy after both waits ended; the process may end during an extraction.
  The models contain the last two.

## Not modelled

UI Automation, native control and OCR readers (`uia/`, `native_selection.rs`, `ocr.rs`, `capture.rs`): calls to
other programs, present as outcomes in `ExtractionMailbox`. The manager's controls, layout, fonts and
texts, the popup's geometry and markdown, tray icons and menus, credential encoding, tracing: window code and
formatting whose state nothing else reads. The bytes of the SSE decoder, URL parsing beyond an
endpoint's address, request bodies: conversions with tests of their own. The hook thread's start and end, and
the rectangle of a selection. A failing `SetTimer` of the mouse timers. That a replayed Manual request shows the
reason of its refusal in the same handler: `Desktop` has it as two steps.

## What is left

In this order:

1. `Desktop` under `ResidentShell`'s handlers in place of its choices, for one popup; the profile order behind
   a chooser's index with it.
2. An abstract provider stream (all deltas and Ok, or an error) that `ProviderStream` would implement once
   the adapter drains its channel, and that `ResidentShell` takes for granted today.
3. Proofs about what `ResultCache` and `TextRules` compute for sequences of any length, by least counterexample.
