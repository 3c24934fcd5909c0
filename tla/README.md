# Formal models of dj-lib-goodizer

TLA+ models of the DJ library preparation program, the TLC configurations that
check them on small instances, and TLAPS proofs of the main properties for every
value of the constants. The models are written from the C++ source; where the
code relies on SQLite, Qt, the C++ runtime or the file system, the model says
what it assumes of them and `PROJECT.json` marks those definitions external.

`PROJECT.json` maps every definition to the lines it models, lists the runs, the
mutants each property detects, the hazards of the code with the properties that
guard against them, and the theorems.

    tlc -workers 2 -config ParallelFor_safety.cfg MCParallelFor
    tlapm ParallelFor_proofs.tla

## 1. The system

The program imports a folder of music into an SQLite library, analyses each
track (silence, loudness, phase, stereo width), and applies a target profile:
it writes a conforming copy of each track into an output folder and records what
it did. There is a command line program (`cli/`) and a Qt program (`app/`) over
one library (`core/`).

| Component | State | Operations |
|---|---|---|
| Job control (`jobs/JobControl`) | `paused_` under a mutex, atomic `cancelled_`, a condition variable | `pause`, `resume`, `cancel`, `waitWhilePaused` |
| Parallel batch (`jobs/ParallelFor`, `jobs/AnalysisBatch`) | three atomics, a progress mutex, a pool of threads, the vector of items | `parallelFor`, `AnalysisBatch::run` |
| Database opening (`db/Database`, `db/Schema`, `db/ProfileRepository`) | the database file: version, tables, default profiles | constructor, `migrate`, `seedDefaultsIfEmpty` |
| Import and analysis (`cmdImport`, `cmdAnalyze`, `ImportController`) | tables `track` and `analysis_result`, counters | one row per file; one result per row |
| Applying a profile (`cmdApply`, `ProcessController`, `ProcessingEngine`, `writeWav`) | output files, `output_path`, the audit log | plan, process or copy, record, audit |
| GUI jobs (`MainWindow`, `WorkerSession`, `Worker`) | busy state, cancel flag, one thread per session, the event queue | start, progress, finished, cancel, close |
| Processing algorithms (`Operations`, `ProcessingEngine::plan`, default profiles) | none | pure functions |
| Analysis algorithms (silence, loudness, flags, phase, width) | running sums of one track | begin, processBlock, finalize |
| WAV files (`audio/WavIo`) | none | probe, read, write |
| Decoders, encoder (`AudioDecoder`, `FfmpegDecoder`, `AudioEncoder`) | a decoder's format and buffer | probe, open, decode packet by packet, encode |
| Resampling, dither | none | pure functions |
| GUI views (`LibraryModel`, the pages of `MainWindow`) | the list's rows and profile, the current row, what each page shows | reload of each page |
| Repositories, model types | none of their own | rows to structures |

How they interact:

- the CLI calls the core directly and in one thread, but for `analyze`, which
  hands the tracks to the parallel batch and stores the results after it returned;
- the GUI runs an import or a processing job in one worker thread with a database
  connection of its own; the thread talks to the window by queued signals, and
  the window to the thread by one atomic flag;
- several processes (CLI and GUI) may work on one database file. No explicit
  transaction is used anywhere: every SQL statement commits by itself;
- files are shared with everybody else on the machine.

What is hard about it, and what makes each component correct:

- **Job control and batch.** Lost wakeups (`cancel` stores its flag outside the
  mutex), items started after a stop, counters loaded one after the other,
  `items` read after the join, threads that cannot be created. Correct: each item
  once, none running at the return, totals and reports exact and monotone, at
  most one late item per thread, a cancel always ends the batch.
- **Opening.** Two processes migrate and seed at once; a crash between any two
  statements. Correct: the stored version never claims more than is there, a
  library that was opened is usable, and one can always be opened in the end.
- **Import and analysis.** Ids, paths and results are kept in parallel vectors
  while other processes insert rows; steps fail after the row is in; files are
  replaced between probing and reading. Correct: a result reaches the track it
  was computed from, reports are true, nothing analysed is lost.
- **Applying.** Names of outputs may coincide with sources or with one another;
  a crash leaves torn files and half-made records. Correct: sources survive,
  gain and trim are applied once, success means everything is recorded.
- **GUI jobs and views.** The session is freed after the window has become ready
  again; a late cancel; events of a job that is over; closing during a job; four
  pages made at different moments, each handler reloading its own choice of them.
  Correct: no job silently dropped, no cancel for the wrong job, no page left of an
  earlier library or profile once the window is idle, busy ends, closing ends.
- **Analysis.** The pipeline hands over blocks of 8192 frames; runs of silence,
  sub-blocks of 100 ms and blocks of 3 s run across them. Correct: a result does
  not depend on where the blocks end, and gates and shares stay in range.
- **Audio files.** Sizes of 32 bits, chunks in any order, odd sizes, files cut
  short or announcing more than there is; a decoder that holds frames back; a format
  taken from the row in one place and from the file in another. Correct: every
  frame is read, what was written reads back, what is reported is what was made.

## 2. The modules

    BatchSpec  <--implements--  ParallelFor  --extends-->  JobControl
    LibraryOpen   ApplyProfile   ImportAnalyze
    TrackAnalysis  --extends-->  ConformTrack, LoudnessDynamics
    WorkerSession  --extends-->  LibraryViews
    AudioPath      --extends-->  WavIo
    X_proofs extends X: ParallelFor, LibraryOpen, ApplyProfile, ImportAnalyze,
                        WorkerSession, AudioPath
    ConformTrack_proofs extends TrackAnalysis (and so ConformTrack)
    DataLemmas: least elements, induction, folds and quotients, which
                ConformTrack_proofs and AudioPath_proofs cite
    MCX extends X with definitions for TLC (symmetry, the music files, the levels);
    MCConformTrack extends TrackAnalysis

**JobControl** has the fields of the class (`paused`, `cancelled`), the owner of
its mutex and the set of threads asleep on the condition variable. A controller's
critical section is one step that needs the mutex free. A waiter's is split into
taking the lock, evaluating the predicate and blocking, because `cancel()` may
store its flag in between.

**ParallelFor** has one action per access of a pool thread to shared state: the
two cancel checks, the pause, the claim (`fetch_add`), the work, the counting,
the progress mutex and the two loads of the report in either order. `item` is
`AnalysisBatch`'s vector; the worker ends with success, with a failure it caught,
or with something that is not a `std::exception`. The caller spawns and joins;
creation of a thread may fail, which throws or, with joinable threads in the
pool, terminates the process. `late` is a history variable: how many items a
thread has started since the last effective stop.

**BatchSpec** is the promise of `ParallelFor.h:13-15` without threads: items start
and finish, at most once; the call returns when nothing is running and, unless
stopped, nothing is left; or it gives up. `Batch` in ParallelFor is the instance
under the refinement mapping `stopped <- cancelled`, `item <- item` and `call`
from `main`.

**LibraryOpen** has the file (`version`, `objects`, `profiles`) and each opener's
place in `migrate()` and `seedDefaultsIfEmpty()`; one action is one SQL statement.
SQLite's part is `stale`: the COUNT statement of the seeding stays open over its
inserts, so a commit of another connection makes the next insert fail.

**ImportAnalyze** has the two tables as sequences indexed by track id, and for
each process its loop: `cmdImport` probes and inserts, `ImportController` opens,
inserts, analyses and upserts, `cmdAnalyze` takes a snapshot of the tracks, runs
the batch (as BatchSpec describes it: items in any order, each once) and stores
the results in order. A file's content is the number of times it was replaced,
so that a result tells which header and which samples it was made of.

**ApplyProfile** has files with their contents (origin, how often processed,
complete or torn), the tracks with source and output path, the audit entries and
the loop over a snapshot of the tracks. Truncating, writing, recording and
auditing are steps of their own, each of which may throw (the catch counts the
track and goes on) or be the last before a crash.

**ConformTrack** follows one track through `SilenceDetector` (a block at a time),
`ProcessingEngine::plan` and the trimming of `ProcessingEngine::process`. The
detector's variables are the class's; a frame is its peak and the sum of its
magnitudes over the channels; times are rounded to milliseconds and back as in the
code. `Replace` puts a shorter file in the source's place between plan and
process. What ApplyProfile calls "processed" is one behaviour of this module.

**LoudnessDynamics** is the part of `LoudnessDynamicsAnalyzer` that cuts: two
positions and two sums that run through the stream, lists of closed sub-blocks and
blocks, the windows of four sub-blocks, the two gates and the loudest share of the
blocks. Energies are integers and stay sums; where the code compares logarithms of
means, the module compares products.

**TrackAnalysis** is `AnalysisPipeline::analyze`: ConformTrack's steps, each block
of which is handed to the meter too (`Measure` is a conjunct of every step).

**LibraryViews** holds what each page of the window was made of: rows of the
library, entries of the audit log, profile. Its operators are the reload functions
of `MainWindow` and `LibraryModel`, and the slots are compositions of them in the
code's order. A reset of the list drops the current row, and no signal says so.

**WorkerSession** has the window's busy state, label and bar, its pages (`shown`), the
modal dialog, each session's thread pointer, the event queue of the GUI thread, the
rows each kind of job has written (`tables`), and for each job its phase, progress,
cancel flag and quit request. One action is one handler of the GUI thread or one step
of a worker's `run()`. A job opens its own connection and writes its rows one by one;
the pages see them when the handler of its `finished` reloads.

**WavIo** is a WAV file as the list of its chunks (offset, declared size, format)
and the number of bytes that are there. `WriteWav` is what `writeWav` leaves when it
stops after some byte, with the size modulo `Word`; `ReadWav` walks the chunks as
`readWav` does, tolerating truncation, `ProbeWav` as `probeWav` does, believing the
sizes. An extensible header is represented by its sub-format.

**AudioPath** follows one file through probing, `plan()`'s decision about
container, rate and depth, copying or decoding with either backend, resampling,
encoding, and probing what came out. The FFmpeg decoder takes packets one at a time
and holds frames back up to `Delay`; packets of other streams and refused ones are
skipped. `Replace` puts another file in the source's place after its import. What
ApplyProfile calls reading, copying and writing is this module's inside, as its
times and gain are ConformTrack's.

## 3. The runs

Runs named "violation" show a disagreement between the code and what its
documents say; all the others pass. Deadlock is checked except where the system
may come to rest (a window nobody uses, a folder that is imported).

| Run | What it checks and shows | Bounds, and why they are enough |
|---|---|---|
| `pf_safety` | types, `FinalCounts`, `AtMostOneLateItem`, `ReportsNeverDecrease`, and that ParallelFor implements BatchSpec | 3 items, pools of one and of two threads, 2 controllers: two threads race for each claim and each report while an item is left over, and one controller can pause while another cancels |
| `pf_live` | `CancelEndsBatch`, `FinishesUnlessPaused` under fair threads | 2 items, pools of one and of two threads, 1 controller that may call without end: enough for a sleeper, a waiter between predicate and sleep, and a notification |
| `library` | `VersionNeverAhead`, `OpenLibraryIsUsable`, `ProfilesArePrefixOfDefaults`, `EveryOpenSucceedsInTheEnd` | 3 processes, the real schema of 2 versions with 3 statements each, 2 default profiles, 1 fault at any statement: one process overtakes two others in migration and seeding |
| `library_seeded` (violation) | `OpenLibraryIsSeeded` | 2 processes, 3 profiles, no fault at all |
| `import_analyze` | `ResultsBelongToTheirTracks`, `ImportReportIsTrue`, `SuccessMeansAllAnalysed` | 2 interchangeable files, one run of each kind, a file replaced once: ids of two importers alternate, the snapshot falls anywhere between them, a result is overwritten by a second analysis of its track |
| `conform_track` | `DetectionIgnoresBlocks`, `WindowInsideFile`, `MusicSurvives`, `SilenceIsRemoved`, `GainIsSafe`, `DryRunTellsDuration`, `MeterIgnoresBlocks`, `MeasuresAreInRange` | up to 7 frames of 4 kinds in blocks of 1 and 2, 5 measurements, 12 frames and 8 clock ticks to the second: both conversions round, a snap can go either way, a block starts anywhere in music or silence, and each branch of the gain is taken. Sub-blocks of 1 frame (up to 4 windows), dynamic-range blocks of 2 (up to 3, which end inside a handed block and at its end), gates 3 and 1/2, the loudest half: each gate drops some windows and keeps others |
| `apply_separate` | `SourcesIntact`, `NoSecondPass`, `SuccessMeansAllRecorded` | three files (two of one stem), 3 tracks, 2 runs, 2 faults, output folder apart: a second run repairs, or repeats, what the first one left |
| `apply_anywhere` | `AuditedOutputsExist`, `CancelLeavesNoTornFile` | 2 tracks, 2 runs, 1 fault, output folder perhaps the music folder, closing a file may fail unnoticed |
| `apply_inplace` (violation) | `SourcesIntact` | 1 track, 1 run, no fault; the output folder is the music folder |
| `apply_collision` (violation) | `EachTrackHasItsOwnOutput` | 2 tracks of one stem, 1 run, no fault |
| `gui_jobs` | `NoWorkerDiscarded`, `UncancelledJobsComplete`, `IdleWindowIsCurrent`, `BusyEnds`, `CloseEnds` | 3 jobs of 2 files, the first of which fails, 2 profiles: a session is used again, a job is asked for while the thread of the last one is still ending, a cancel comes before, during and after a file, a profile is chosen between two jobs, a row selected also during one |
| `audio_path` | `EveryFrameIsRead` (with `OutputReadsBack`), `ReportedOutputConforms` | `Word` 32, so that 8 frames of two 16-bit samples wrap a header; WAV sources of 0, 3 and 5 frames in 8 to 32 bits, with and without an odd chunk before the samples, exact or announcing too much; FLAC of 16 and 24 bits and MP3 with skipped and refused packets; a decoder that holds up to 2 frames; profiles that keep, raise or lower rate and depth, keep the container or ask for one nothing writes; the writer stopped at every byte |

Other bounds are stated as constants with a name: `MaxFaults` (crashes and
failures in one behaviour), `MaxEdits`, `MaxTracks`, `MaxRuns`, `MaxRounds` (how
far passes of gain and trim are told apart), `MaxJobs`, `MaxBlock`, `MaxFrames` and
`Delay` (frames a decoder holds back). `Word` in WavIo is 2^32 and `Second` in
ConformTrack 1000 in the code, and smaller for TLC; the proofs hold for any value. Symmetry is used for the controllers, the openers and
the files of safety runs only, where the modules do not distinguish them.

`TypeOK` is an invariant of one run of each module that has state.

### What the violations show

- **Seeding stops short** (`library_seeded`). `CliCommands.cpp:91` and
  `AppDatabase.h:11` promise a library seeded with the default profiles.
  `seedDefaultsIfEmpty` keeps its COUNT statement open over the inserts. When
  another process that opens the same new library stamps its version in between,
  the snapshot is stale, the next insert throws, and as the table now has a row
  nobody ever adds the rest.
- **The source is replaced** (`apply_inplace`). `ProcessingEngine.h:39` and
  `Track.h:11` say the source is never overwritten. The output path is folder,
  stem and the profile's extension, and nothing compares it with the source.
- **Two tracks share one output** (`apply_collision`). Tracks of one stem get
  one output path; both count as processed, both rows name the file of the second.

Each positive counterpart states the condition under which the promise holds:
`SourcesIntact` and `NoSecondPass` are checked and proved for output folders that
are never imported; seeded libraries are at least never empty or mixed.

## 4. Fairness

- *ParallelFor*: weak fairness of the caller, of every pool thread and of a
  controller that is inside `resume()` or `cancel()`: the operating system runs
  every thread. No fairness of mutexes is assumed: each is held for a bounded
  number of steps, and a thread locks a bounded number of times per item. Nobody has to
  call `resume` or `cancel`; spurious wakeups and failing thread creation may
  happen and need not.
- *LibraryOpen*: a process that runs goes on running, and whoever failed to open
  the library tries again (a user starts the program again). Faults are bounded:
  a disk that fails for ever proves nothing about the code.
- *WorkerSession*: the GUI thread handles its queue, a destructor that waits goes
  on when the thread is over, each worker thread runs. Nothing is assumed of the
  user, who may leave a dialog open for ever: events are handled inside a modal
  dialog, too.
- *ApplyProfile*, *ConformTrack*, *AudioPath* and *ImportAnalyze* are checked for safety only; in
  the last a process that dies is one that takes no further step, which needs no action.

## 5. The proofs

Each `X_proofs` shows an invariant inductive with `Init => Inv` and
`Inv /\ [Next]_vars => Inv'`, one step per action, and derives the properties
from it. The assumptions are those named in the modules (types and finiteness of
constants); TLC evaluates them on each run. Two say more. `StereoAssumption`
(TrackAnalysis): a frame's sum is that of two magnitudes of which its peak is the
greater. `FramesAssumption` (AudioPath): of a WAV source of `frames` frames the
chunks lie end to end, one is the format and one the samples, and `frames` is how many
whole frames are both announced and there; without it the number would mean nothing.
Only `FramesAreRead` cites it: that outputs read back holds for anything with the
types of a WAV file. `OutputsAreSources` shows that what the program writes is such a
source, wherever the writer stopped, once its header is whole and can say the size.

| Module | Proved | How |
|---|---|---|
| `ParallelFor_proofs` | `TypeOK`, `FinalCounts`, `AtMostOneLateItem`, `OvershootBounded`, `ReportsNeverDecrease`, `ImplementsBatch` | see below |
| `LibraryOpen_proofs` | `TypeOK`, `VersionNeverAhead`, `ProfilesArePrefixOfDefaults`, `OpenLibraryIsUsable` | what a process has passed in its script is in the file, which only grows; a seeder whose snapshot is current has inserted every row there is |
| `ApplyProfile_proofs` | `TypeOK`, `AuditedOutputsExist`, `CancelLeavesNoTornFile`; with `Apart` (no output folder is imported) `SourcesIntact`, `NoSecondPass`; with `~CloseCanFail` too, `SuccessMeansAllRecorded` | `LoopInv`: the loop's snapshot is a prefix of the tracks and each step finds what the one before left; `ApartInv`: only output folders change; `DoneSoFar`: what a run without failure has behind it; `WholeInv`: until something fails, only the file being written is torn |
| `ImportAnalyze_proofs` | `TypeOK`, `ResultsBelongToTheirTracks`, `SuccessMeansAllAnalysed`, `AnalysedStaysAnalysed`, `ImportReportIsTrue` | `RowInv`, `WorkInv`: what an importer holds is of its row's file and no newer than the disk; `AllInv`, `ItemInv`: snapshot, batch and table agree by index; `StoreInv`: what a run has stored so far; `CountInv`: a file is to come, in work or counted, and the row in work is left out of both counts, as an analysis may fill it first |
| `ConformTrack_proofs` | `TypeOK`, `DetectionIgnoresBlocks`, `WindowInsideFile`, `MusicSurvives`, `GainIsSafe`; with two frames or more to the millisecond (`2 * Second <= Rate`) `DryRunTellsDuration`; with one or more (`Second <= Rate`) `SilenceIsRemoved`; of TrackAnalysis `MeterIgnoresBlocks`, `MeasuresAreInRange`, and that it implements ConformTrack (`AnalysisIsConforming`) | `LoudAppend`, `QuietCount`: what a block adds to the loud and the quiet frames; `SilenceInv`, `ChangeInv`: no more is trimmed than was detected; `RoundTrip`: to milliseconds and back never gains a frame; `SnapBounds`, `StartBounds`, `StopBounds`; `DryInv`: what the plan was made of, with `WindowLength` and `DurationBounds`: two roundings and two snaps; `TrimInv` with `WindowEnds`, `Remains` and `LoudPart`: what is kept begins and ends within reach of the music; `MeterInv`: see below |
| `WorkerSession_proofs` | `TypeOK`, `NoWorkerDiscarded`, `UncancelledJobsComplete`, `IdleWindowIsCurrent` | see below |
| `AudioPath_proofs` | `TypeOK`, `OutputReadsBack`, `EveryFrameIsRead`; with `Ordinary` (every decoder names the width of its samples, and floats have 32 bits) `ReportedOutputConforms` | `WrittenChunks`, `WrittenReads`, `WrittenProbes`: what readers find in a file `writeWav` left, at any size and cut anywhere; `RowInv`: the row is what the file was at its import; `PlanInv`: the plan is the row's; `WroteInv`: a run that is done has written everything; `HoldsReads`, `AudioTail` and `FrameInv`: see below |

`OvershootBounded` and `AnalysedStaysAnalysed` are proved though no run checks them any
longer; `OutputReadsBack` is the part of `EveryFrameIsRead` about written files.

*Data.* The library's induction rules take a predicate, which the provers cannot
instantiate. `DataLemmas` states induction over a set of naturals instead (`Induction`,
from the least element `NatMin` of what is left out): the set is that of the numbers
for which the statement holds, and membership is what a proof shows. The folds of the
community modules are functions defined in a LET; `FoldExists` gives the function,
`SeqFold` its value at each prefix of a sequence, `SubsetInduction` what holds of the
subsets of a finite set one element at a time.

*TrackAnalysis.* `MeterIgnoresBlocks` says nothing of the greatest magnitude so far, so
the invariant is `MeterInv`: the meter is the one that has heard exactly the frames of
the file (`Heard`). `SplitStep` shows that one frame takes the pieces of a track to
those of the track with the frame appended, at every length, whether a piece closes or
not; `HearStep` does so for the whole meter, and `BlockHeard` by induction over a block,
so that `Block(n)` keeps the invariant wherever the blocks end. `MeasuresAreInRange`
follows from it: a mean lies between least and greatest (`SumBound`, `ArgMax`), dropping
what is below a tenth of the mean raises it (`GateKeeps`, by splitting the sum), a
loudest set exists for every share (`LoudestExist`, so the CHOOSE in `Loudest` picks
one), and no piece has more energy than its samples at full peak (`EnergyUnderPeak`).

*AudioPath, every frame.* `ChunksApart` shows by induction that chunks laid end to end
do not overlap; hence both walks meet the format and the samples of a file that
`Holds` n frames, the file is no shorter than the smallest header, and the quotient of
the samples there is n (`HoldsReads`). For the other backend `FrameInv` balances the
loop: frames given, frames held back and audio packets to come add up to the source's
(`AudioTail`: a packet taken from the front), whatever the decoder delays.

*ParallelFor.* None of the properties is inductive. `FinalCounts` speaks of a
state in which all is over; that the counters are right then needs `CountInv`
(they count the items with an outcome that no thread is about to count),
`OwnerInv` (an item has one owner until it is counted, so no two threads count
one item), `ClaimInv` (items are claimed in order, so nothing below `next` is
pending) and `ExitInv` (why a thread left its loop). That the last report is
the total needs `ReportInv`: a thread in the progress section has loaded values
between the last report and the counters, and what it misses another thread, one
that waits for the section, will report. Cardinalities are handled with the
library's theorems on finite sets. `Implementation` shows that `Init` maps to
`BatchInit` and each step to a step of BatchSpec or to a stutter: a claim to
`StartItem`, the end of the work to `FinishItem`, the last join to `Return`.

*WorkerSession.* The window becomes ready when `finished` is handled, before the
session's thread is gone, so the disabled menu proves nothing about the session.
`ModalInv` (a dialog of a session is open only while the window is idle and no
session has a thread) gives `NoWorkerDiscarded`, as `isBusy()` is asked before the
dialog and nothing can start a job while it is open. `JobInv` ties the window's
cancel flag to the last job and a set flag to a press. `IdleWindowIsCurrent` needs
the order of the queue: a job at work is the last one and has no `finished` queued
(`BusyInv`), while events of a job's work are queued the window is busy, and behind a
`finished` there are only events that touch no page (`QueueInv`); `PagesInv` says
which pages a job at work can make stale, those its own handler reloads.

*What remains with TLC.* The liveness properties (`CancelEndsBatch`,
`FinishesUnlessPaused`, `EveryOpenSucceedsInTheEnd`, `BusyEnds`, `CloseEnds`):
fairness and ENABLED are beyond the prover. Every other property of a passing run is
stated by a theorem, under the conditions the table names.

## 6. Abstractions

- In ApplyProfile samples, loudness, gain and trim are not computed: it counts how
  often a file went through them; ImportAnalyze tells which content was read. A
  track that conforms may be copied or processed, as `plan()` decides by data
  these models do not have.
- In ConformTrack levels are integers (hundredths of a decibel; magnitudes as far
  as they are compared), measured loudness and true peak are inputs, and so is
  whether container, rate and bit depth agree with the profile. The profile keeps
  the sample rate; a replaced file is shorter and of the same rate. Gain leaves the
  frames as they are.
- In LoudnessDynamics a frame has one energy: the K-weighting filters and the
  interpolation of the true peak are left out, and the analyzer's last step (means and
  logarithms) is represented by the sums it is made of.
- In WavIo samples are counted, and never happen to spell a chunk's tag; a number of
  a header that is cut in the middle reads as 0. Quantizing and dither are left out.
- In AudioPath a container stands for a file's extension; trimming (ConformTrack) and
  errors of the file system (ApplyProfile) are left out but for the writer that is
  stopped. FFmpeg is external: the module has the loop that feeds it. Quotients of
  rates are computed in floating point, so a resampled length that is whole may come
  out one frame longer.
- In LibraryViews the library and the audit log are the numbers of their rows: jobs
  only add rows, and while the window is open no other program writes into its library.
- The file system is a set of files with contents; writing is truncation followed
  by the full content, with a failure or crash in between. Buffered data a crash
  loses is covered by the torn state. Folders are not created in the model, and
  case-insensitive names and links are left out.
- In ApplyProfile one run is at work at a time; tracks may be added meanwhile.
- SQLite statements are atomic; a busy database shows as a step that fails.
- `recursive_directory_iterator` and `QDirIterator` deliver files in any order and
  may stop early. In ImportAnalyze a file has a track per import, as in the code:
  `source_path` is not unique.
- Formatting, printing, argument parsing, logging and layout are left out.

## 7. Not modelled

- The true-peak interpolation, K-weighting filters, the resampler's kernel, dither
  noise, the multiplication by the gain, and the phase and width analysers: running
  sums and quotients of floating-point samples, without control.
- FFmpeg itself; whether the build has it is a choice of the container.
- The thresholds of the flags, which pick colours and labels; the text and layout of
  the pages, the sorting of the list, `exportAudit`, and the listing commands: display
  of what the database holds.
- Model types and names, queries of the repositories: rows to structures.
- Build files, packaging and tests. The tests were read as references.

Seen while modelling, without a run of their own:

- A FLAC file of 24 bits under a profile that keeps the depth is written with 32:
  the row has the container's 24 (`FfmpegDecoder.cpp:195`), the decoder the 32 of its
  samples (`:161`), and `process()` goes by the decoder. `plan()` announced 24. For the
  same reason dither is applied when such a file is written with 24 bits
  (`ProcessingEngine.cpp:130`), though nothing is reduced. `ReportedOutputConforms`
  states this case.
- `LibraryModel.cpp:109` offers numeric sort keys under `Qt::UserRole`, but no proxy is
  told to sort by that role: the columns sort as text.
- After processing, the list has no current row while the detail page still shows the
  track of before, until a row is selected or a profile chosen.

## 8. Plan

Done, each with its proofs: JobControl, BatchSpec and ParallelFor; LibraryOpen;
ApplyProfile; ImportAnalyze; ConformTrack; LibraryViews and WorkerSession; WavIo and
AudioPath; LoudnessDynamics and TrackAnalysis (in `ConformTrack_proofs`).

Left, in this order:

1. ConformTrack with a profile that resamples: the durations of plan and process
   then differ by the resampler's rounding.
2. The phase and width analysers over frames, and the flags, once there is a property
   about them that is more than their formula.
