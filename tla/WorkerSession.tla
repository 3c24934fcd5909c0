---------------------------- MODULE WorkerSession ----------------------------
(***************************************************************************)
(* The GUI's background jobs: MainWindow, its two WorkerSessions and the   *)
(* Workers (ImportController, ProcessController), each on a QThread.       *)
(*                                                                         *)
(* Two kinds of thread interleave.  The GUI thread runs one handler at a   *)
(* time, of the user's actions or of the events in its queue, also while a *)
(* modal dialog is open.  A worker's thread runs run(), which emits        *)
(* progress and finished; the receivers live in the GUI thread, so every   *)
(* signal, and QThread::quit too, is an event queued there.  Qt itself is  *)
(* external.                                                               *)
(*                                                                         *)
(* The pages of the window are LibraryViews'; while the window is open no  *)
(* other program writes into its library.                                  *)
(***************************************************************************)
EXTENDS LibraryViews, Sequences

CONSTANTS MaxJobs,  \* bound: jobs the user starts
          Total,    \* files a job goes through
          Bad       \* those of them that fail

ASSUME SessionAssumption == MaxJobs \in Nat /\ Total \in Nat

Sessions == {"import", "process"}
Jobs == 1 .. MaxJobs

VARIABLES
  app,      \* "open", "closing" (the window is being destroyed), "exited", "aborted"
  modal,    \* what dialog is open: of a session, a message box or "none"
  left,     \* while closing: the sessions not destroyed yet
  busy,     \* MainWindow::setBusy
  label, bar,  \* status text and progress bar
  shown,    \* the pages
  tables,   \* the database: the rows each kind of job has written
  cancel_,  \* the job whose flag the window holds, 0 for none
  thread_,  \* each session's thread, as the number of its job, 0 for none
  queue,    \* events of the GUI thread
  jobs,     \* jobs created so far
  kind, phase, done, flag, quit,  \* per job
  wanted    \* history, per job: done when the user pressed Cancel, or None

None == Total + 1

window == <<modal, busy, label, bar, cancel_, shown>>
job    == <<kind, phase, done, flag, quit, wanted>>
vars   == <<app, left, window, tables, thread_, queue, jobs, job>>

Init ==
  /\ app = "open"
  /\ modal = "none"
  /\ left = <<"import", "process">>
  /\ busy = FALSE
  /\ label = "Ready"
  /\ bar = "reset"
  /\ shown = Opened
  /\ tables = [s \in Sessions |-> 0]
  /\ cancel_ = 0
  /\ thread_ = [s \in Sessions |-> 0]
  /\ queue = <<>>
  /\ jobs = 0
  /\ kind = [j \in Jobs |-> "import"]
  /\ phase = [j \in Jobs |-> "none"]
  /\ done = [j \in Jobs |-> 0]
  /\ flag = [j \in Jobs |-> FALSE]
  /\ quit = [j \in Jobs |-> FALSE]
  /\ wanted = [j \in Jobs |-> None]

-----------------------------------------------------------------------------
(* The GUI thread: the user. *)

\* Mutant: the disabled menu entries are relied upon.
ActionsAreDisabled == FALSE

isBusy == \E s \in Sessions : thread_[s] # 0

\* importFolder, standardizeLibrary: the checks, then a modal dialog.
Ask(s) ==
  /\ app = "open" /\ modal = "none" /\ ~busy
  /\ ~isBusy
  /\ jobs < MaxJobs
  /\ modal' = IF s = "process" /\ shown.list.rows = 0 THEN "import first" ELSE s
  /\ UNCHANGED <<tables, app, left, busy, label, bar, cancel_, shown, thread_, queue, jobs, job>>

\* The dialog is dismissed, or the message box acknowledged.
Dismiss ==
  /\ app = "open" /\ modal # "none"
  /\ modal' = "none"
  /\ UNCHANGED <<tables, app, left, busy, label, bar, cancel_, shown, thread_, queue, jobs, job>>

\* WorkerSession::start: a session that still has a thread discards the worker.
Begin(s, j) ==
  /\ kind' = [kind EXCEPT ![j] = s]
  /\ IF thread_[s] # 0
     THEN /\ phase' = [phase EXCEPT ![j] = "discarded"]
          /\ UNCHANGED thread_
     ELSE /\ phase' = [phase EXCEPT ![j] = "starting"]
          /\ thread_' = [thread_ EXCEPT ![s] = j]

\* Mutant: the cancel flag is made once and shared by all jobs.
AcceptSharingFlag(s) ==
  /\ app = "open" /\ modal = s
  /\ jobs' = jobs + 1
  /\ cancel_' = 1
  /\ flag' = [flag EXCEPT ![jobs'] = flag[1]]
  /\ busy' = TRUE /\ label' = "working"
  /\ Begin(s, jobs')
  /\ modal' = "none"
  /\ UNCHANGED <<tables, app, left, bar, shown, queue, done, quit, wanted>>

\* A folder is chosen: a new cancel flag, setBusy(true), start.
Accept(s) ==
  /\ app = "open" /\ modal = s
  /\ jobs' = jobs + 1
  /\ cancel_' = jobs'
  /\ busy' = TRUE /\ label' = "working"
  /\ Begin(s, jobs')
  /\ modal' = "none"
  /\ UNCHANGED <<tables, app, left, bar, shown, queue, done, flag, quit, wanted>>

\* onProfileChanged; the combo box is disabled while busy.
ChooseProfile(p) ==
  /\ app = "open" /\ modal = "none" /\ ~busy
  /\ shown' = Choose(shown, p)
  /\ UNCHANGED <<tables, app, left, modal, busy, label, bar, cancel_, thread_, queue, jobs, job>>

\* onSelectionChanged
SelectRow ==
  /\ app = "open" /\ modal = "none"
  /\ shown.list.rows > 0
  /\ shown' = Select(shown)
  /\ UNCHANGED <<tables, app, left, modal, busy, label, bar, cancel_, thread_, queue, jobs, job>>

\* cancelWork; the button shows only while busy.
CancelWork ==
  /\ app = "open" /\ modal = "none" /\ busy
  /\ cancel_ # 0
  /\ flag' = [flag EXCEPT ![cancel_] = TRUE]
  /\ wanted' = [wanted EXCEPT ![jobs] = IF @ = None THEN done[jobs] ELSE @]
  /\ label' = "cancelling"
  /\ UNCHANGED <<tables, app, left, modal, busy, bar, cancel_, shown, thread_, queue, jobs,
                 kind, phase, done, quit>>

\* Quit, or the window's close button: the event loop ends, and the window is
\* destroyed with its sessions; no event is handled any more.
CloseWindow ==
  /\ app = "open" /\ modal = "none"
  /\ app' = "closing"
  /\ UNCHANGED <<tables, left, window, thread_, queue, jobs, job>>

\* Mutant: the thread is waited for, but nobody tells it to quit.
DestroySessionNoQuit ==
  /\ app = "closing" /\ left # <<>>
  /\ thread_[Head(left)] # 0 => phase[thread_[Head(left)]] = "gone"
  /\ left' = Tail(left)
  /\ app' = IF left' = <<>> THEN "exited" ELSE app
  /\ UNCHANGED <<tables, window, thread_, queue, jobs, job>>

\* ~WorkerSession: quit(), then wait() until the thread is over.
DestroySession ==
  /\ app = "closing" /\ left # <<>>
  /\ LET t == thread_[Head(left)] IN
     \/ /\ t # 0 /\ ~quit[t]
        /\ quit' = [quit EXCEPT ![t] = TRUE]
        /\ UNCHANGED <<app, left>>
     \/ /\ t # 0 => quit[t] /\ phase[t] = "gone"
        /\ left' = Tail(left)
        /\ app' = IF left' = <<>> THEN "exited" ELSE app
        /\ UNCHANGED quit
  /\ UNCHANGED <<tables, window, thread_, queue, jobs, kind, phase, done, flag, wanted>>

-----------------------------------------------------------------------------
(* The GUI thread: events, in the order they were queued. *)

Event(what, j) == [what |-> what, job |-> j]

Handle(what) ==
  /\ app = "open" /\ queue # <<>>
  /\ Head(queue).what = what
  /\ queue' = Tail(queue)

Subject == Head(queue).job

\* onProgress; the last report of a job names no file and leaves the text.
HandleProgress ==
  /\ Handle("progress") \/ Handle("progress end")
  /\ bar' = "shown"
  /\ label' = IF Head(queue).what = "progress" THEN "progress" ELSE label
  /\ UNCHANGED <<tables, app, left, modal, busy, cancel_, shown, thread_, jobs, job>>

\* Mutant: the slot waits for the thread to end.
HandleFinishedAndWait ==
  /\ Handle("finished")
  /\ phase[Subject] = "gone"
  /\ busy' = FALSE /\ label' = "Ready" /\ bar' = "reset"
  /\ IF kind[Subject] = "process"
     THEN modal' = "complete" /\ shown' = Processed(shown, tables["import"], tables["process"])
     ELSE modal' = modal /\ shown' = Imported(shown, tables["import"])
  /\ UNCHANGED <<tables, app, left, cancel_, thread_, jobs, job>>

\* onImportFinished, onProcessFinished: setBusy(false), reload the pages; the
\* latter shows a message box.
HandleFinished ==
  /\ Handle("finished")
  /\ busy' = FALSE /\ label' = "Ready" /\ bar' = "reset"
  /\ IF kind[Subject] = "process"
     THEN modal' = "complete" /\ shown' = Processed(shown, tables["import"], tables["process"])
     ELSE modal' = modal /\ shown' = Imported(shown, tables["import"])
  /\ UNCHANGED <<tables, app, left, cancel_, thread_, jobs, job>>

\* QThread::quit, a slot of the thread object, which lives in the GUI thread.
HandleQuit ==
  /\ Handle("quit")
  /\ quit' = [quit EXCEPT ![Subject] = TRUE]
  /\ UNCHANGED <<tables, app, left, window, thread_, jobs, kind, phase, done, flag, wanted>>

\* WorkerSession::onThreadFinished
HandleThreadFinished ==
  /\ Handle("thread finished")
  /\ thread_' = [thread_ EXCEPT ![kind[Subject]] = 0]
  /\ UNCHANGED <<tables, app, left, window, jobs, job>>

-----------------------------------------------------------------------------
(* A worker's thread. *)

Alive == app \in {"open", "closing"}

Emit(events) == queue' = queue \o events

\* run() begins; the database opens.
Run(j) ==
  /\ Alive /\ phase[j] = "starting"
  /\ phase' = [phase EXCEPT ![j] = "loop"]
  /\ UNCHANGED <<tables, app, left, window, thread_, queue, jobs, kind, done, flag, quit, wanted>>

\* Database's constructor, outside any try, throws out of run(): std::terminate.
Throw(j) ==
  /\ Alive /\ phase[j] = "starting"
  /\ app' = "aborted"
  /\ UNCHANGED <<tables, left, window, thread_, queue, jobs, job>>

\* ProcessController with a profile the database no longer has.
UnknownProfile(j) ==
  /\ Alive /\ phase[j] = "starting" /\ kind[j] = "process"
  /\ Emit(<<Event("finished", j), Event("quit", j)>>)
  /\ phase' = [phase EXCEPT ![j] = "unknown"]
  /\ UNCHANGED <<tables, app, left, window, thread_, jobs, kind, done, flag, quit, wanted>>

\* Mutant: the loop runs to total inclusive.
NextFileInclusive(j) ==
  /\ Alive /\ phase[j] = "loop"
  /\ done[j] <= Total /\ ~flag[j]
  /\ Emit(<<Event("progress", j)>>)
  /\ phase' = [phase EXCEPT ![j] = "file"]
  /\ UNCHANGED <<tables, app, left, window, thread_, jobs, kind, done, flag, quit, wanted>>

\* The next file, unless cancelled.
NextFile(j) ==
  /\ Alive /\ phase[j] = "loop"
  /\ done[j] < Total /\ ~flag[j]
  /\ Emit(<<Event("progress", j)>>)
  /\ phase' = [phase EXCEPT ![j] = "file"]
  /\ UNCHANGED <<tables, app, left, window, thread_, jobs, kind, done, flag, quit, wanted>>

\* A file is done with, and its rows are written; or it failed, and was caught.
FileDone(j) ==
  /\ Alive /\ phase[j] = "file"
  /\ done' = [done EXCEPT ![j] = @ + 1]
  /\ tables' = [tables EXCEPT ![kind[j]] = IF done'[j] \in Bad THEN @ ELSE @ + 1]
  /\ phase' = [phase EXCEPT ![j] = "loop"]
  /\ UNCHANGED <<app, left, window, thread_, queue, jobs, kind, flag, quit, wanted>>

\* Mutant: finished is emitted before the last progress.
FinishThenProgress(j) ==
  /\ Alive /\ phase[j] = "loop"
  /\ done[j] = Total \/ flag[j]
  /\ Emit(<<Event("finished", j), Event("quit", j), Event("progress end", j)>>)
  /\ phase' = [phase EXCEPT ![j] = "exec"]
  /\ UNCHANGED <<tables, app, left, window, thread_, jobs, kind, done, flag, quit, wanted>>

\* progress(total, total), finished: the session forwards it, then quit, in the
\* order start() connected them.  run() returns and the thread's event loop runs.
Finish(j) ==
  /\ Alive /\ phase[j] = "loop"
  /\ done[j] = Total \/ flag[j]
  /\ Emit(<<Event("progress end", j), Event("finished", j), Event("quit", j)>>)
  /\ phase' = [phase EXCEPT ![j] = "exec"]
  /\ UNCHANGED <<tables, app, left, window, thread_, jobs, kind, done, flag, quit, wanted>>

\* The event loop ends once quit was called, before or after it began.
ThreadEnds(j) ==
  /\ Alive /\ phase[j] \in {"exec", "unknown"} /\ quit[j]
  /\ Emit(<<Event("thread finished", j)>>)
  /\ phase' = [phase EXCEPT ![j] = "gone"]
  /\ UNCHANGED <<tables, app, left, window, thread_, jobs, kind, done, flag, quit, wanted>>

-----------------------------------------------------------------------------
Worker(j) ==
  \/ Run(j) \/ UnknownProfile(j) \/ NextFile(j) \/ FileDone(j) \/ Finish(j)
  \/ ThreadEnds(j)

Events == HandleProgress \/ HandleFinished \/ HandleQuit \/ HandleThreadFinished

Next ==
  \/ \E s \in Sessions : Ask(s) \/ Accept(s)
  \/ \E p \in Profiles : ChooseProfile(p)
  \/ SelectRow
  \/ Dismiss \/ CancelWork \/ CloseWindow \/ DestroySession
  \/ Events
  \/ \E j \in Jobs : Worker(j) \/ Throw(j)

Spec == Init /\ [][Next]_vars

\* Threads get to run and the GUI thread handles its events, and nothing is
\* assumed of the user.
FairSpec ==
  /\ Spec
  /\ WF_vars(Events) /\ WF_vars(DestroySession)
  /\ \A j \in Jobs : WF_vars(Worker(j))

-----------------------------------------------------------------------------
(* Properties. *)

Phases == {"none", "discarded", "starting", "loop", "file", "exec", "unknown", "gone"}

TypeOK ==
  /\ app \in {"open", "closing", "exited", "aborted"}
  /\ modal \in Sessions \cup {"import first", "complete", "none"}
  /\ shown \in Views
  /\ tables \in [Sessions -> Nat]
  /\ left \in Seq(Sessions)
  /\ busy \in BOOLEAN
  /\ label \in {"Ready", "working", "progress", "cancelling"}
  /\ bar \in {"reset", "shown"}
  /\ cancel_ \in 0 .. jobs
  /\ thread_ \in [Sessions -> 0 .. jobs]
  /\ queue \in Seq([what : {"progress", "progress end", "finished", "quit",
                            "thread finished"}, job : 1 .. jobs])
  /\ jobs \in 0 .. MaxJobs
  /\ kind \in [Jobs -> Sessions]
  /\ phase \in [Jobs -> Phases]
  /\ done \in [Jobs -> 0 .. Total]
  /\ flag \in [Jobs -> BOOLEAN]
  /\ quit \in [Jobs -> BOOLEAN]
  /\ wanted \in [Jobs -> 0 .. None]

\* Between a job's finished and the end of its thread the menu is enabled and the
\* session still has its thread; nevertheless no job is created then and silently
\* discarded (WorkerSession.cpp:18-21), which would leave the window busy.
NoWorkerDiscarded == \A j \in Jobs : phase[j] # "discarded"

\* A job that was not cancelled goes through all its files: the flag a cancelled
\* job has left behind, or a press that came too late for it, does not reach the
\* next one.
UncancelledJobsComplete ==
  \A j \in Jobs : phase[j] = "exec" /\ wanted[j] = None => done[j] = Total

\* When the window is not busy it says so and shows what is there: no report of a
\* job that is over comes in after its finished, and whatever was imported and
\* processed, selected and chosen meanwhile, no page is left that was made of an
\* earlier library, audit log or profile.
IdleWindowIsCurrent ==
  ~busy => /\ label = "Ready" /\ bar = "reset"
           /\ IsCurrent(shown, tables["import"], tables["process"])

\* A busy window becomes ready again, unless the program ends first.
BusyEnds == busy ~> ~busy \/ app # "open"

\* Closing the window in the middle of a job ends the program, after that job.
CloseEnds == app = "closing" ~> app \in {"exited", "aborted"}
=============================================================================
