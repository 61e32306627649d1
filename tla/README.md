# Practice Takes: a verification project

TLA+ models, TLC configurations and TLAPS proofs for Practice Takes: a JUCE/C++
desktop application for musicians (tuner, spectrogram, harmonics, score, MIDI
note practice), the Cloudflare Worker that takes feedback from it, and the
Python tooling around both. Paths below are relative to the repository; `FI/`
stands for `src/services/feedback-intake/`.

Run anything with `tlc -config X.cfg M` in this directory, and `tlapm M.tla` for the
proofs, which are the eight modules named `...Proofs`. `PROJECT.json` lists the
runs, the mutants that show each property can fail, the source lines of every
definition, the hazards, the findings and the theorems.

## 1. Inventory

Threads of the desktop application: the message thread (all components and
timers), the audio device's callback thread, a high-resolution timer thread (the
tone generator), detached threads for device work, the MIDI driver thread, one
thread for a feedback request and one for a score import. The Worker has no
threads, but any number of invocations whose database statements interleave.

| Component | State | Operations | Interacts with | Hard behaviour |
|---|---|---|---|---|
| **Feedback email dispatch** `FI/src/notifications.ts` | tables `feedback_email_queue` (with `claim_id`, `claimed_at`), `feedback_notification_days`, `maintenance_runs` | begin (free stale claims), count, reserve slot, claim, send, delete or release, record | intake fills the queue; retention and administration empty it; three schedules and a manual trigger start it; email provider | overlap of schedule and manual dispatch, eviction between two statements, a send that throws after delivery, statements that fail inside the error handler, claims that outlive a slow dispatch |
| **Submission intake** `FI/src/index.ts`, `src/features/feedback/FeedbackComponent.cpp` | tables `feedback_submissions`, `consumed_authorizations`, `authorization_requests`; in the client the draft and `submissionState` | authorize, create submission, duplicate look-up; submit, answer, restore draft | client thread and HTTP; dispatch queue; retention | check-then-insert limits, duplicated requests, lost answers, retry by the user, late answers |
| **Administration and retention** `FI/src/admin.ts`, `operations.ts` | submissions, history, `duplicate_of`, receipts | update, delete, batch delete, mark duplicate, retention run | intake, dispatch | several statements without a batch, self-referencing foreign key, eviction between them |
| **Dashboard and container server** `FI/src/dashboard.js`, `docker-server.ts` | view state of a page; timers | list, filter, edit; serve | administration API | little: presentation and adaptation |
| **Audio sample FIFO** `src/platform/audio/AudioSampleFifo.h` | ring, two atomic positions, drop counter | push, pop, discardPending, available, reset | one producer thread, one consumer thread | lock-free access with loads that may be stale |
| **Audio input service** `src/platform/audio/AudioInputService.cpp` | consumer slots, the producer token, tone and device flags, format versions, recovery flight | add/remove listener, tone on/off, tick, scan, device about to start/stopped, two producers | four threads; FIFOs; JUCE device manager | overlap of device and generator, slot reuse, flags set from several threads |
| **MIDI event FIFO** `src/platform/midi/MidiEventFifo.h` | ring, two positions, loss counter | push (drops the oldest), pop, discardPending, reset | driver thread, message thread | both threads store `readPosition` |
| **MIDI input service, note tracking** `src/platform/midi/`, the MIDI page of `SettingsWindow.h` | consumers, selected device, list of devices, scans; the page's stream, held and sustained notes | select, scan, reconcile, list changed; event, drain, refresh; note on/off, pedal | driver thread, message thread, the system's list of devices | a list that changes again during a reconcile, ports that return under an old identifier, lost events against held notes |
| **Pitch analysis, synthetic tone** `src/platform/audio/SharedPitchAnalysis.cpp`, `PitchDetector.cpp`, `src/features/analysis/` | analysis window, latest result; the tuner's averages, suspected jump, locked note, graph | analyse, read, track, mute | audio input; two timers | one result read twice or late, jumps confirmed by frames, a block that passes while muting |
| **Score model and MusicXML import** `src/platform/score/` | measure reader (position, attributes, ties), `Score`, diagnostics, tempo map | read a child of a measure, end a measure, resolve ties, freeze (the repair passes) | import job, score view, target note | rounded ticks against exact time, repairs that move what ties point at |
| **Score view and engraving** `src/features/score/` | layout of systems; view, size, parts, page, scroll position | lay out, resize, zoom, hide parts, turn pages, save and restore | current score, workspace settings | geometry that adds up over a bar and a system, the place kept over every change |
| **Settings persistence and transfer** `src/application/configuration/`, `MainComponentSettings.cpp` | settings file, PropertiesFile, live settings, automatic saving | load, migrate, recover, save, import, export, quit | shell, audio, workspace, feedback | files of other versions, writes that fail, crashes, an import half done |
| **Workspace layout, named workspaces** `src/application/shell/ui/workspace/` | split tree, tab strips, presentations; catalogue, active and source marks, dialog | open, close, dock, float, drop, tab, split, arrange, capture, restore; save, rename, overwrite, delete, switch, reset | settings, shell | long sequences of operations on one tree, JUCE callbacks during a rebuild, questions answered late |
| **Score import job** `src/application/shell/ui/score/` | import thread, posted results, current score, import window | start, refuse, deliver, show | shell, score model | a result that arrives after the next start |
| **Application shell** `src/application/shell/`, `src/bootstrap/` | windows, menus | startup, shutdown, menus, fullscreen | all | order of startup and shutdown |
| **Test control channel** `src/application/testcontrol/`, `MainComponentTestControl.cpp`, `tools/scripts/testing_suite/driver.py` | session, posted commands, state reported, what is on the screen | line commands, establish a state, click | shell, import, harness | two threads and a process that share one command at a time, deadlines, closing |
| **Verification tooling** `tools/scripts/testing_suite/` | run records | capture, store, review | the built program | not part of the program |

What makes each correct:

- *dispatch*: no report is lost, none is mailed again once settled, the daily
  limit holds for every overlap, the queue drains, the last slot of a day leaves
  nothing of a backlog;
- *intake*: a success shown to the user means a stored report; one request is
  stored once and answered with its own receipt; clients overshoot the limits by a known
  amount at most; a deleted report does not return;
- *administration*: a deletion leaves no orphan and exactly one receipt; retention ends whatever rows it meets;
- *sample FIFO*: no sample is torn, order is kept, every sample is accounted for;
- *audio input*: one producer at a time, no FIFO reset under its producer, tools
  are told the truth about the input, the generator stands down for a device;
- *MIDI FIFO*: no event twice, none torn, no loss uncounted;
- *MIDI input*: the chosen keyboard is open whenever it is present, and no other; a
  length is shown only of a note that was followed from its beginning to its end;
- *tuner*: a note held long enough is the note shown;
- *score import*: an import without diagnostics is exactly what the file says, whatever
  order its elements have, and a frozen score is well formed; the score shown is the
  one of the last import that succeeded;
- *engraving*: bar, system and page read back as what was written and nothing that has to
  be told apart touches; *score view*: the bar in view stays in view;
- *settings*: what an orderly quit wrote is in force at the next start, an import is applied
  whole or not at all, a file of a newer version survives;
- *workspace*: every open tool is docked exactly once, moving one leaves the others alone,
  and a restore gives back what was saved; *named workspaces*: only the confirmed entry is touched;
- *test control*: a reply means that its command has been done.

## 2. Plan

Done, in this order: `NotificationDispatch` with `ReportMailbox` and its proofs; the
input path (`AudioSampleFifo` over `SampleStream`, `MidiEventFifo`, `AudioInputService`,
then `MidiInputService`, `NoteSounding`, `TunerReading`); the feedback service
(`FeedbackIntake`, `FeedbackAdministration`); the desktop program (`WorkspaceShell`,
`NamedWorkspaces`, `SettingsSession`, `ScoreImport`, `ScoreReading` with
`ScoreInvariants` and `TargetNote`, the engraving modules, `ScoreView`); `TestControl`.

Independent components share a run: one variable says which of them a behaviour
exercises, and the state space is the union of theirs. Components that do interact are
in one module (the dispatch with intake and retention, the audio service with its
device and generator, the page with its FIFO and tracker, the reader with the repair
passes, the channel with its harness).

Then the theorems of section 5: of the dispatch, the two FIFOs, the audio and MIDI input, the
page's notes, the tuner, the feedback service, the parts of the desktop program that
`MCApplication` brings together, the reading of a score and the workspace.

Next, in this order:

1. Theorems about the rest of what `desktop` checks: the engraving (`BarReadsBack`,
   `NothingInTheBarTouches`, `PageReadsBack`) and the view (`KeptBarStaysInView`).
2. `BacklogSharedOut`, for any backlog and number of dispatches.
3. Ties, jumps and lyrics as engraved; export of settings; the published state of the audio
   input; `createAuthorization` as a step of its own.

## 3. The modules

### NotificationDispatch

One dispatcher is one call of `sendPendingFeedbackBatch`; `pc[d]` names the
statement it executes next, and each action is one statement of the function
`dispatch` with the assignments around it. Between two statements any other
dispatcher, the intake (`Accept`), retention or an administrator (`Withdraw`) may run.

| Variable | Code |
|---|---|
| `queue`, `claim`, `stale` | rows of `feedback_email_queue`, their `claim_id`, and whether `claimed_at` is older than `staleClaimSeconds` |
| `sentCount` | `feedback_notification_days.sent_count` |
| `lastAttempt` | the newest `notification` row of `maintenance_runs` |
| `day`, `pending`, `number`, `token`, `batch`, `outcome` | the locals of the function |
| `accepted`, `withdrawn`, `outlived`, `emails` | history: no action of the code reads them |

Failures are the code's own paths plus the ways an invocation ends: `SendFails`
(the provider throws, with or without having delivered), failed `releaseClaim` and
`releaseReservation` (both swallow their error), a failed `recordDispatchAttempt`,
and `Kill` (eviction, or a rejected statement that leaves the function). `Age`
makes a claim stale; while its dispatcher still runs that is counted as a fault.
All of them draw on `MaxFaults`.

`ReportMailbox` is what the dispatch promises: a report waits until it has been
mailed or withdrawn, may be mailed more than once, and does not wait for ever.
The refinement maps `waiting` to `queue` and `mailed` to the reports of all
delivered emails.

### AudioSampleFifo, SampleStream

A step is one atomic access or one copied sample. An acquire load returns any
value between the one the thread last saw and the newest, so the model does not
assume sequential consistency. `SampleStream` has no ring and no positions:
blocks taken or dropped whole, samples delivered in order and at most once, a
bounded backlog. `Reset` starts a new listener's stream.

### MidiEventFifo

The same grain. `push` drops the oldest event by storing `readPosition`, which
`pop` and `discardPending` also store. The assignment of a `MidiEvent` takes two
steps, so that a copy in between is visible as `Torn`.

### AudioInputService

The message thread is sequential: `task` is the next step of the operation it is
in (`addListener`, `removeListener`, `setSyntheticTone`, `timerCallback`), and
`work` the next step of the detached thread that closes and reopens the device.
`at[p]` is the place of each producer's callback, for the device's
`audioDeviceIOCallbackWithContext` and the generator's `renderToneBlock`; both end in
`deliverSamples`. `formatPending` stands for `formatVersion #
deliveredFormatVersion`, and `told[l]` for the last of `audioInputFormatChanged` and
`audioInputStopped` the listener heard. JUCE is modelled by what the code relies
on: stopping a timer or closing a device waits for its callback, and a callback
is registered after `audioDeviceAboutToStart`.

### FeedbackIntake

The form and its submission thread are separate, as in the code. `enabled` is Submit
(`submissionState` is not `submitting`), `draft` what is saved in the settings, `attempt` the
`pendingDraft`, `thread` the request, and `posted` the outcomes given to `callAsync` that the
message thread has not run yet. The editors stay enabled during a submission and a validation error
enables Submit again (`Refuse`), so that another attempt can begin while the outcome of the one
before is posted; `Inform`, the callback, asks only whether the form is still there, and acts on
whatever draft is saved by then. `sent` records which report each press of Submit carried. A
thread reads the response on a connection of its own, hence never that of another request.

A handler is one `createSubmission`; the two capacity queries are answered in either order, the insert
is one batch. Requests may be delivered twice, a response may come late or never, a
statement may fail before or after its commit, an invocation may be evicted,
authorizations expire and rows are deleted at any time. `Create` is the other writer of the table: the
administrator's `createSubmission` (`admin.ts`), which inserts a row without any check of rate or
capacity. Those rows (`Manual`) count against the limits of the storage and of the service.

### FeedbackAdministration

Requests of the administrator (update, delete, batch delete) and retention runs, each a
chain of single statements as in `admin.ts` and `operations.ts`. `inbox` maps the
reports to their rows, `duplicate_of` is the foreign key that makes a `DELETE` fail, and
`receipts` counts the administrative receipts. A statement may fail and an invocation may
be evicted between two statements. After the duplicates, retention takes the closed statuses
one at a time; in which order, and whether one is met again, is left open.

### MidiInputService, NoteSounding

`MidiInputService` has the system's list (`present`, and `port`, which tells a device
that returned from the one that left), the choice, the open input, the scans and the
reconcile, split where it asks the system and the list may have changed. `NoteSounding` is
the page's side: the FIFO that drops its oldest event, the refresh that notices losses,
and the tracker of one key and one pedal. Events carry their position and connection,
which only the property reads. Between two refreshes of the page the list moves at most
once (`~listMoved`): it is refreshed ten times a second.

### TunerReading

The shared analysis with its window and latest result, and the tuner's timer, which reads that
result once, twice or not at all between two analyses. The tracker is taken whole:
averaging, the confirmation of jumps, easing, drop-out, the locked note and the graph.
Pitches are whole parts of a semitone. A block that passed the mute check before the mute
may still arrive (`late`).

### WorkspaceShell, NamedWorkspaces

`tree` is `WorkspaceLayoutState::root` with every operation on it, `placed` the
presentation of each tool, `settings` its payload, `current` the tool in focus. When JUCE tears a
tab strip down it reports each tab before the selected one as newly selected; the
field `bar` is what it will report, so that a rebuild changes the tree as it
does in the program. Drag and drop is resolved as in `MainComponentWorkspaceDrag.cpp`:
the dragged tool is presented first, then dropped at what the target has become. Saved documents
go through normalizer, planner and restore. Every operation on the tree is a fold over it
(`FoldTree`), a recursive function on the trees up to `MaxNesting` splits deep, which no
tree of the shell exceeds. `NamedWorkspaces` has the catalogue, with
its dialogs; a layout is a model value there, and may change while a dialog asks. `Decoded`
is the loop of `decode` that a restart runs over the saved entries.

### SettingsSession

`disk` is the file, `props` what the process holds of it, `live` the settings in force.
A launch loads, migrates or recovers; automatic saves are off after a newer file; each write may
fail; an import is the transaction of `SettingsImportTransaction.h` with its
rollback; a quit saves and a crash does not. `kept` is what the last quit promised.

### ScoreImport

The thread, its posted results and the window; starts are numbered, and the score is
that of the last file that was read.

### ScoreReading, ScoreInvariants, TargetNote

`ScoreReading` reads a measure's children one at a time, in any order: notes, chord tones, grace
notes, backups and forwards, attributes, directions. `cursor` is the position in
ticks, rounded as the code rounds; `exact` is the same position in fractions of a tick,
which the code does not have: `CleanImportIsExact` compares the two. A note whose pitch cannot be read
becomes a rest, or nothing when it is stacked on another. At the end ties are resolved (the map
of waiting starts is the set of notes in it, at most one for each voice and pitch), the part list is
applied and `ScoreInvariants` repairs and freezes the score, pass by pass in the code's order.
The links of the result are compared with `FileTies`, which is defined by the marks of the notes and not by
the resolver. A further `<part>` of rests may follow; if it names the same part, its bars are
appended, with ticks that begin anew. Notes in that second `<part>`, and ties between the two, are not modelled.
`TargetNote` is the selection its tool makes on a frozen score.

### MeasureEngraving, MeasureSpacing, SystemLayout, EngravedScore

Operators, and a small machine that writes a bar or a score to apply them to.
`MeasureEngraving` is `planMeasure`: reading order, accidentals in force, note
values, beams, stems, seconds. `MeasureSpacing` gives it x: accidental columns, the width of
events, ledger lines (from the staff out to the furthest note), stems and beams. Its reference definition is a reader: `BarReadsBack` takes the
drawn heads, signs, dots, flags and beams and asks for the notes that were written.
`SystemLayout` is `layOutScore`: hidden parts, widths, breaking into systems, stretching,
condensed empty bars, endings, tempo marks, and the place of staves. `PageReadsBack` asks the same of it.

### PagedScore, ScoreView

`PagedScore` computes the systems, pages and canvas for a room and the reader's preferences;
`ScoreView` is the component: it lays out when the score, the room, the view, the
size or the parts change, finds the bar in view before and reveals it after. The viewport
clamps its position, as JUCE's does.

### TestControl

The driver writes a line and waits with a deadline; the reader thread posts one command and
waits for its promise; the message thread establishes states (with every early
return of `applyTestControlState`), clicks, resizes; a window that closes ends the loop
and stops the thread. `look` is what a picture would show, `log` what was done, `replies` what was
printed, `heard` which reply the harness took for which command.

### MC modules and assumptions

`MCNotificationDispatch`, `MCDispatchDays` and `MCFeedbackService`, `MCInputPath`, `MCApplication` (test channel,
named workspaces, settings, import), `MCTestControl` and `MCDesktop` (workspace, reading,
engraving, score view) instantiate the modules for TLC; where they bring independent
components together, the union is what the theorems speak of too. `MCScoreReading` has the
files the reader is given; `MCDesktop` extends it and `WorkspaceShell`.
What a theorem needs of the constants is an `...Assumption` beside their
declaration: an `ASSUME` there, or an operator and an `ASSUME` in the MC module:

| Module | Assumed |
|---|---|
| `NotificationDispatch` | finite sets of reports (numbers) and dispatchers; positive limits and days |
| `AudioSampleFifo`, `MidiEventFifo` | a positive capacity and block; a batch size (see below) |
| `AudioInputService` | `None` is not a listener |
| `MidiInputService` | the mark for an empty place is neither an identifier nor a name |
| `NoteSounding` | a positive FIFO capacity |
| `FeedbackIntake` | a finite set of invocations, at least one; limits are numbers; no draft is no report; rows of the administrator are finitely many and have numbers of their own |
| `FeedbackAdministration` | reports are numbers, `NoReport` is none; no status has the name of a step |
| `TunerReading` | pitches and the semitone are positive; a preset eases by 1 to 100 percent and averages over one reading at least; `Settling` frames are enough for each preset to fill its average, confirm a jump and ease into it (`Closing`) |
| `WorkspaceShell` | a registry without repetitions that has the tools of the built-in workspaces; aliases lead to tools; no more tools than `MaximumDockDepth` (32 in the code, whose catalogue has five) and `MaxNesting`; saved trees no deeper than `MaxNesting` |
| `ScoreReading` | positive ticks and a positive common time; durations, times, voices and pitches are integers, of any sign; the bars of the part that follows have a length |
| `NamedWorkspaces` | the built-in layouts are layouts; the ids of saved workspaces are not theirs |
| `SettingsSession`, `ScoreImport` | the default is a preference and a keyboard choice; a bound on starts |

All are facts of the code (sizes of its arrays, its constants, disjoint kinds of values) or
keep marks of the model apart from its data.

## 4. The runs

| Run | Question | Result |
|---|---|---|
| `feedback_service` | Dispatch: two reports, two overlapping dispatches, two slots, two faults of any kind: is a report lost, mailed again after it was settled, or the daily limit exceeded by acknowledged emails? Intake: success means stored, own receipt, overshoot bounded, deleted stays deleted. Administration: is a deletion complete whatever overlaps it? | no; they hold |
| `dispatch_days` | does each queued copy leave the queue in the end, and does the dispatch implement `ReportMailbox` with its fairness? Six reports and three slots, two dispatches that may overlap: does an email leave more than the later slots carry, or the last slot a rest? | yes; no |
| `input_path` | the two FIFOs, the audio and MIDI input services, the MIDI page and the tuner: their invariants, and the FIFO as an implementation of `SampleStream` | hold |
| `application` | does a reply of the test channel tell what was done, through deadlines, hang-ups and closing windows? Is only the confirmed workspace touched, whatever else the dialogs asked? Do settings survive what they should, over crashes, failed writes and newer files? Is the score on screen that of the last import? | yes |
| `desktop` | workspace, reading, engraving of a bar and a page, score view: the properties of section 1 | hold |
| `dispatch_ambiguous_send` | does a day deliver more than the limit the service's README gives? | violated: finding 1 |
| `midi_event_twice` | the comment in `MidiEventFifo.h` that no event is handed out twice | violated: finding 2 |
| `audio_tone_stands_down` | the comment that device and generator overlap until the next tick only | violated: finding 3 |
| `audio_reset_only_when_quiet` | the precondition of `AudioSampleFifo::reset` | violated: finding 4 |
| `settings_invitation_choice` | the specification's demand that other settings survive a workspace that cannot be recovered | violated: finding 5 |
| `control_reply` | the driver's contract: one command, its reply | violated: finding 6 |
| `intake_draft` | the operations guide: a submission that fails preserves the draft | violated: finding 7 |

**Bounds, and why they are enough.**

*Dispatch.* Two dispatchers give every overlap of two statement chains; a third adds no new
pair of statements. Two slots and two faults let a dispatch fail, be retried and fail again in one
day; one of the two reports may be withdrawn. In `dispatch_days` one report meets two days, since a
day can use up its slots: on the last day a limit of three leaves a slot for the dispatch after the one fault. In a
system that goes on, `NextDay` would provide it. The backlog is six reports for three slots, all there
before the first dispatch, without faults and withdrawals, and at most four per email. Two dispatches that
count the same backlog then divide it 2, 3 and 1: the sizes may differ by more than one, and
`BacklogSharedOut` does not speak of them. What it says is what the division is for: no email
that is not full leaves more than the later slots of its day carry with emails like it, and
after the last slot nothing is left.

*Intake and administration.* One installation, two handlers, all limits at one, three attempts, one row of the
administrator and one fault: the smallest instance in which overlap, retry, duplicate and deletion
meet. `OvershootBounded` counts the rows that came from clients, at most the limit and the other handler; the administrator's
come on top, without a bound in the code. Two reports of which one may be the duplicate of the other, three requests or
runs. `intake_draft` needs two attempts and two reports, and no fault.

*Input path.* The sample ring has three slots, blocks of up to two samples and six
samples, so that positions wrap twice and a block meets the end of the ring at each offset;
the MIDI queue has two slots and five events, so that it overflows during a drain
more than once. Two listeners and two consumer slots let one slot be reused while the
other is active. Two identifiers and two names with two plugs (`MaxPlugs`) let a
keyboard return under another identifier and another under its own; the scan intervals are one tick and none,
which keeps their order. One key, a pedal of two positions, two connections
(`MaxConnections`), four messages (`MaxMessages`) and a FIFO of two: a note, a loss inside it and the next note. The tuner hears three
pitches half a jump and a jump apart, averages over three, with two presets, and has settled after six equal
frames (`Settling`).

*Desktop.* Three tools, nesting up to three (`MaximumDockDepth`), a divider dragged beyond its bound, and saved
documents with every malformation the normalizer knows; nested splits, strips of three and drops on
one's own pane all occur. Two named workspaces at most, four names of which two differ in case and one is
reserved. Settings in three groups of two values: every mixture of what is live, stored and on disk.
Three imports. Bars of three elements, two bars, two ticks to a quarter note and thirds of a tick, so that
rounding is never exact. Three events in a bar over two voices, of seven kinds, among them notes three and a half spaces over the staff and
two under it; grace notes are single. Four bars of six kinds for two parts over three
staves, two widths, three selections. The view has two scores, two rooms (and none), three of the nine
sizes, whole pixels. Lengths are integers: thousandths of a staff space in a bar,
hundredths in a system; the code's are floating point, and differences below that are not seen.

*Test control.* Three commands of eleven kinds, five states, one of which names a file that is not
there: an establishing that fails between two that succeed, or the same with a click.

Handlers and dispatchers are interchangeable, and symmetry is used for them in
safety runs only. The runs of the feedback service, its dispatch and intake, and of the test channel set `CHECK_DEADLOCK FALSE`,
since reports, attempts, faults and commands are bounded and the model stops when they are used up
(and the application ends); the others check deadlock, and a bar or score that is finished stutters by an action of the MC module.

**Fairness.** `Fairness` of `NotificationDispatch`, in `DaysSpec` of `dispatch_days`, is weak fairness of three things. Each dispatcher's
`Step`: the three daily schedules fire for ever (`scheduled` in `FI/src/index.ts`), and a
statement that was sent is answered. `NextDay`: the clock. `Age` of a claim without a
holder: the same clock, against `staleClaimSeconds`. Nothing is assumed of faults,
of the intake or of withdrawal. The other runs assume no fairness.

## 5. What is proved

Thirty-three of the properties the runs check are theorems, for every value of the
constants that satisfies the assumptions of section 3. `PROJECT.json` lists them.

### Feedback email dispatch (`NotificationDispatchProofs`)

For every finite set of reports and of dispatchers, every positive limit, batch size and
number of days, and any number of faults:

- `TypeCorrect`: the counter of a day stays within `0..DailyLimit`; the guard of `Reserve` and
  the floor of `Released` are what it needs.
- `DailyLimitHolds`. `WithinDailyLimit` is not inductive: it
  says nothing of slots reserved and not yet used. `SlotInv` adds them: for each
  day, the acknowledged emails together with the dispatchers that hold a slot of it
  (from the reservation to the send or the release) are at most `sentCount`. `Send`
  turns a holder into an email, `ReleaseSlot` gives back what it held, and a kill or a
  swallowed failure loses a slot but never creates one.
- `ReportsRetained`, by three invariants.
  `ClaimInv`: the rows that carry a dispatcher's token are among the batch it mails,
  and every claim id in the table is older than `nextClaim`. `OriginInv`: the reports
  of queue, batches and emails were accepted. `MailedInv`: a dispatcher about to delete has
  an email of its claim. The last is why deletion after the send is safe when claims
  expire and rows are withdrawn meanwhile.
- `ReportsMailedOnce`. `HeldInv`: a dispatch that sends or deletes, and has not outlived its
  claim, still owns its rows, and no later claim has one of them (`Sealed`). `SettledInv`: what
  such an email told is neither in the queue nor in a later claim or email. A report enters the
  queue only once (`QueueStep`), which is what keeps settled reports out for good.
- `ImplementsMailbox`: `Spec => Mailbox!Spec`, the step simulation over the same
  invariants: `Send` and its ambiguous failure are `Mail`, `DeleteSent` is
  `Settle`, all else stutters.

### Audio sample FIFO (`InputPathProofs`)

`RingInv` orders the positions and the old copies each thread works with
(`seenRead <= readPosition <= seenWrite <= writePosition`, at most a ring apart), counts the
samples, and says what every buffered slot holds. Two numbers less than a ring apart have
different remainders (`RemaindersDiffer`); from that `NoSampleTorn` follows, `SamplesAccounted`
from the counts, and `ImplementsStream`, the refinement of `SampleStream`, from
what each of publishing, dropping and advancing does to the buffered sequence.

### Audio and MIDI input (`AudioInputServiceProofs`, `InputPathProofs`)

The first module proves the audio service alone. `InputPathProofs` shows that it runs in the
union as it does alone (`InputRuns`: the union implies the service's specification), so that
the theorems pass to the state machine `input_path` explores; the feedback service is proved
in the same two steps. The other parts are proved in the union at once.

- `InputTyped`, `InputHasOneProducer` (`TokenInv`: whoever fills holds the token, and the token
  is taken only when free), `InputResetsQuietly` (a slot that was switched off is not entered
  again, and the removal waits for the callbacks that were in it).
- `InputSettles` (while no generator runs), by `ToldInv`: whatever starts, stops or loses the device leaves a change on
  its way until the listeners are told, each listener has one slot, and who is in transit has
  been told nothing yet.
- `KeyboardSettles`: while nobody has changed the list since it was read, it is as it was read
  (`ListsAreCurrent`); what is open is the port that stands there (`OpenIsThere`) and was chosen
  (`OpenIsChosen`). A scan that changes the open device between two changes of the list is covered.
- `QueueCountsItsLosses`. The driver stores `readPosition` as the consumer does, each
  from an old copy, so the position can go back and no inequality between positions holds. What
  is inductive is the existence of a set of lost events, no larger than the count, such that
  every event that either thread has passed is handed over, discarded or in the set, and
  every other event still stands in the ring (`LossesAre`).
- `QueueKeepsOrder`: as long as nothing was dropped, positions only grow, and the queue is
  sequential.
- `NotesLoseNothing`, by `NotesInv`: the queued events stand in order behind the latest
  drop, and while the page has seen every loss, everything the tracker holds or has ended began
  behind it too. A refresh is a fold of the tracker over its batch. `FoldExists` and
  `BatchConsumed` say that the fold is reached event by event, `ConsumeKeeps` that an event keeps
  the invariant, and `Induction` joins them.
- `SustainedPitchShows`: a pitch that was heard for `Settling` frames is the one shown, whatever
  was heard before and whichever presets it was tracked with. `TunerInv` follows the
  frames since the pitch began: in silence they are counted (`SilenceCounted`); while a jump is
  suspected, the pending pitch is this one, and confirmed before its third frame (`Suspecting`);
  afterwards all readings that are averaged are of this pitch once the average is full
  (`Followed`). From then on each frame brings the smoothed pitch nearer by a share that is
  rounded up (`Closing`), and the locked note is the nearest one or near enough.

### Feedback service (`FeedbackIntakeProofs`, `FeedbackServiceProofs`)

- `ServiceStores`, `ServiceReceipts`: an answer that says success is the receipt of a row that
  was stored under the identifier it was sent with (`AnswerInv`), over duplicated requests and late
  answers; an outcome posted as a success is of such an attempt, also when the form shows
  it while another attempt is pending, and a saved draft that is not that of the last attempt was
  taken by a form that gave thanks; numbers of attempts are fresh (`SentInv`). That the draft taken was the
  stored one is not true: finding 7.
- `ServiceOvershoot`: for each of the four limits, what clients have against it, together with
  the invocations past its check that may still insert, is at most the limit and the
  invocations (`LimitsInv`), whatever overlaps and whatever rows the administrator adds.
- `ServiceDeletes`: a stored row leaves its authorization consumed, also when it is deleted.
- `ServiceDeletesCompletely`, by `TableInv` (the foreign key) and `DeletionInv`: the invocation
  that deleted the row, and no other, goes on to purge its copy and write its receipt, the
  first and only one; what an answer names has all of it behind it.

### Desktop program (`ApplicationProofs`)

- `RepliesAreTrue`, by `ChannelInv`: at most one command is between the reader thread and the
  message thread, the answers are a prefix of the lines written and the replies a prefix of the
  answers, and a status answer agrees with the answers before it (`StandingIsOfTheLog`).
- `ScoreOpenedLast`, by `OpenedInv`: the last import that succeeded is the last such among the
  results that wait, and is on screen if none of them succeeded.
- `NewerFileIsKept` and `SettingsSurviveRestart` are action properties over `SettingsInv`:
  the file and its copy in the process agree unless a write is owed, with automatic saves off in all
  but the choice about invitations, and what a quit promised is what the next start loads.
- `CatalogStaysWellFormed` and `ConfirmedOnlyIsTouched`, over `CatalogInv` and `QuestionInv`
  (a question names an entry that is there until it is answered). A restart keeps the saved
  entries that have tools: `DecodedSelects` shows what the loop keeps, by induction over it.

### Reading a score (`ScoreReadingProofs`)

- `FrozenScoreStaysWellFormed`, from two facts. `ReaderKeepsNumbers`: whatever order the
  children of a measure have, what the reader collects are integers, in bars of a positive
  length (`ReaderInv`). `EnforcedIsWellFormed`: the six passes of `enforceInvariants` make any
  such score well formed. A pass adds one condition and keeps those before it: no
  negative durations, events in order, events within the bar, the same bars in all parts,
  identifiers apart, links that mirror each other (`IsScore`, `InStep`, `NamedApart`,
  `LinksHold`). That order is what the argument needs: the clamped durations let events of
  length zero be dropped before sorting, sorting comes before cutting, and ties come last
  since the other passes move notes. Sorting is shown to be a permutation (`InOrder`),
  from the numbers of places that stand before each.
- The note that the target-note tool selects is the first of its part, since events are in order.
- `TiesStayWithTheirNotes` (`TiesJoinWhatWasTied`). Ties are resolved to places, and then repairs
  drop events, so that a place may name another note. The measure reader hands over events in
  order of time (`Chronological`), so a repair never puts an event behind its place: what stands
  at a place stood there or further on in its voice (`PartDescends`). Of two ties of one voice and
  pitch neither begins inside the other, since a note that opens or closes a tie takes what
  waits (`LinksJoinNeighbours`); this is `Straight`. If both ends of a link still mirror each other
  and one of them is not the note it was, there were two ties that cross. `TieInv` is the
  inductive invariant: bars in time, and straight links while the score waits for the repairs.
- `CleanImportStaysExact` (`CleanImportIsExact`). If widened or padded bars are all that is
  reported, the frozen score is what the file says. A pass that reports nothing changes no event
  (`PassesKeep`; sorting what is in order and removing nothing are the identity, `AllRemain`), so
  the rest is about the reader. `CleanInv`: the notes said are those of the bars read and of the
  voices of the one being read, and with nothing to report `cursor` and `exact` agree at every step
  and in every event: a division without remainder is rounded to itself (`ExactIsRounded`), and a
  backup that stays within the bar subtracts what it says. Declared identifiers point at the part that has them
  (`OwnPartIsThere`), and a part of rests that follows, also under the same identifier, leaves these
  bars where they are. That the links are those of the marks (`FileTies`) follows from an invariant of the resolver's
  loop over the notes (`ArePairs`).

### Workspace (`WorkspaceShellProofs`)

Trees are read as lists. `Listed` is the least set that pairs each tree with the list of its
tools from left to right: it has the panes, and of two of its trees the split with one list
behind the other. What holds of panes and passes to splits holds of every tree
(`ListedInduction`). `TreeRecursion` shows that a fold over trees has the value its equation
gives, by the least depth at which it would not.

- `ShellStaysInOrder`: `ShellInv` says that the tree on screen is listed with the docked tools,
  each once, with strips that show what is before the active tool (`Docking`), and that
  every open tool has settings and the focus is on a tool (`Belongings`). Removing a tool takes it
  out of the list (`ToolRemoved`), inserting puts it in at one place and leaves the others in
  order (`ToolInserted`), arranging, tabs, dividers and rebuilt strips leave the list alone.
  A list without repetitions is no longer than the registry, hence no tree is too
  deep (`ListedIsSmall`).
- `TreeAlwaysMatches` and `OthersStayInOrder` (`OnlyOneToolMoves`) follow from it.
- `CaptureAlwaysSurvives`. Whatever was saved, the normalizer leaves a tree listed with the tools
  it has placed, each once (`NormalNodeIs`: each visit continues the list it is given, `Further`).
  A captured tree is normal already (`NormalAlready`), and a tree whose strips are taken off and
  built again is what it was (`BareShownAgain`), so that a restart shows what was captured.

### Induction

Theorems with an operator as parameter cannot be instantiated by the provers used here. Induction
is therefore stated of a set of naturals (`LEMMA Induction`: a set that has 0, and with n also
n + 1, has them all), proved from the existence of a least element (`LeastExists`), which follows
from the well-foundedness of strict inclusion of finite sets. A recursive function, or the one
inside a fold, is a `CHOOSE`; that there is one is shown by the same lemma
(`LoopExists`, `FoldExists`).

### Only model-checked

- Liveness (`QueueDrains`) and the fairness of the mailbox: out of the prover's reach.
- `BacklogSharedOut`: divisions over a sequence of dispatches. That the last slot leaves nothing depends on how
  many dispatches count the same backlog; it was checked for two.
- `BarReadsBack`, `NothingInTheBarTouches` and `PageReadsBack`: what the engraving and the layout compute
  is by long recursions over sequences, compared with a reader of the page on bounded inputs.
  `KeptBarStaysInView` is arithmetic over the pages they lay out.
- That the findings of section 6 are there: each is a counterexample of a run.

## 6. Findings

1. *Daily limit.* A send that throws gives its slot back even if the message went
   out; the day can then deliver more emails than `FEEDBACK_MAX_DAILY_EMAILS`.
   What holds, and is proved, is the limit for acknowledged emails.
2. *MIDI queue.* A push that loaded `readPosition` before a drain and stores it after
   moves it back: an event is handed out twice.
3. *Tone generator.* The flag is raised before the timer starts. A device that starts in
   between clears the flag and stops a timer that is not running yet; the timer then starts
   with the flag down, and no tick stops it while the device runs.
4. *FIFO reset.* `removeListener` waits for callbacks counted by
   `AudioCallbackScope`; the generator is not counted.
5. *Invitation choice.* A settings file whose workspace cannot be recovered (closing every
   tool is enough) is cleared and written back without the keys other parts keep in it: the
   choice not to be invited to give feedback is lost.
6. *Late reply.* The driver leaves the reply of a command that timed out in the pipe, and goes on: the next
   command is given that reply, and so on. A state may be judged before it is there.
7. *Draft.* The callback that shows a success clears the saved draft and the editors, whatever they are
   by then. After a validation error has enabled Submit again during a submission, the next attempt can begin
   before the success of the last is shown: its draft is cleared, and if it fails nothing is
   preserved, although the form says so. Without a second attempt, text typed while a submission runs is
   lost in the same way.

Divergences that the modules state, or that were met while modelling, and that no run checks:

- *Generator and tools.* The format change that starts the generator is delivered as "stopped", since the
  device flag decides, although the tools are fed and `openspec/specs/synthetic-input/spec.md:49-63` and
  the comment at `AudioInputService.cpp:428` want them told that input runs
  (`AudioInputService!ToneToolsToldRunning`). `FormatSettled` therefore speaks only of the times in which no generator runs.
- *Workspace.* A rebuild can change the active tab of a group nobody touched
  (`WorkspaceShell!RebuildKeepsSelectedTab`; `detachWorkspaceContainer` against the design of the
  layout restoration). A named workspace saved with all tools closed is dropped at the next start
  (`NamedWorkspaces!RestartKeepsNamedWorkspaces`). Names are compared with ASCII folding in one place and Unicode in another.
- *Settings.* An import into a file of a newer version leaves automatic saves off; one that
  replaces a keyboard choice persists an empty one.
- *Score import.* The window can show progress of an import that has ended (`ScoreImport!ProgressIsOfARunningImport`).
  Two events of one voice that start together leave a zero-length event that is no grace note
  (`OnlyGraceNotesAreInstant`). A second tie started on the same pitch overwrites the first silently
  (`UnmatchedTiesAreReported`), so that an import without diagnostics may have lost the start of a tie:
  `FileTies` joins a stop with the last start before it, as the code does. A tempo direction ignores the exact position; bars aligned to the longest part
  change their start without a diagnostic, and tempo entries stay where they were; a chord tone with an
  unreadable pitch is dropped silently, where a single note becomes a reported rest: `CleanImportIsExact` promises the
  notes whose pitch can be read. A second `<part>` with the identifier of a first is appended, but its notes count
  bars and time from zero again.
- *Engraving.* Tempo marks borrowed from a hidden part are lost inside a run of condensed empty bars
  (`EveryTempoIsShown`). A unison spelled two ways in a chord with a second leaves two heads on each other. A grace
  chord that holds a second runs into the accidental of the note it leads to.
- *Score view.* In Vertical scroll, revealing a bar scrolls to the top of its band, while the systems are drawn a
  margin lower: the system above stays in view and becomes the place, and every change of size
  moves the reader up by a system (`KeptPlaceIsThePlace`). A score that changes while the view has no room stays undrawn (`LayoutIsOfTheRenderedScore`). Part
  identifiers are not escaped when the settings are encoded.
- *Tuner.* One result read twice counts as two confirming frames; the analysis window keeps samples from
  before an interruption; outliers between missing frames do not end the count of consecutive ones. A device callback
  that passed the mute check pushes its block after the discard, and a muted tuner shows the note it gives until it is unmuted
  (`MutedTunerIsSilent`).
- *MIDI.* A keyboard that leaves and is reopened between two refreshes keeps its held notes and its pedal
  (`OneConnectionPerMeasurement`). A reopen refused after a change of the list is tried again only after the long
  interval. `addConsumer` and `removeConsumer` do not wait for a callback in progress.
- *Feedback service.* Capacity is read before the insert and not with it, so that the storage ceiling of the README can be
  exceeded, by as much as `OvershootBounded` says, and further by what the administrator creates. Every press of Submit has a fresh identifier, so a report whose
  answer was lost is stored again. An eviction between the `DELETE` and its receipt leaves a deletion
  without one.
- *Test control.* The settings window is hidden between states, not destroyed: `settings-open`, "on its default
  panel", shows the panel of the state before (`StatesLookTheSame`). A geometry command leaves the state reported although the state has a geometry of its own. A state
  that imports a score while another import runs is reported as established and shows the first one's progress. A window
  closed while a command is posted costs the two seconds of `stopThread`, and the thread is then killed.

## 7. Not modelled, and why

- Store buffering: a store and a later load of different atomics may be reordered by
  the letter of the memory model. The FIFO's stale loads are modelled; the handshake between
  `active` and `callbacksInProgress` is taken as ordered.
- The wrap of 64-bit positions; the lifetime of JUCE device objects; destruction
  of the services while work is in flight.
- Gain, level, clipping, device names and the scan countdown of the audio input service, and
  what its settings page shows.
- Byte limits, validation, signatures and metrics of the feedback service; the rules of
  its configuration check; listing, export and the dashboard.
- Detection of pitches, the harmonic analyzer, the spectrogram and the rendering of the tone: numbers, with
  no control a model checker reaches. Painting.
- XML text and containers; spelling, lyrics and dynamics of a score; ties, jumps and lyrics as engraved; the
  notice of a clef without pitches in the middle of a part (`ScoreLayoutEngine.cpp:566-575`).
- Export of settings, the bounds of each value, window bounds.
- Menus, fullscreen and the order of startup and shutdown of the shell, beyond what the test channel needs. Of the
  test channel: the fullscreen button, the microphone warning and imports that fail.
- The verification tooling beyond its driver: it is not part of the program.
