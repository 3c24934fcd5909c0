------------------------- MODULE WorkerSession_proofs -------------------------
(***************************************************************************)
(* Proofs about WorkerSession, for any number of jobs, of files and of     *)
(* profiles: types, that no worker is discarded, that a job nobody         *)
(* cancelled goes through all its files, and that an idle window shows     *)
(* what is there.                                                          *)
(***************************************************************************)
EXTENDS WorkerSession, SequenceTheorems, TLAPS

-----------------------------------------------------------------------------
(* The pages. *)

\* The detail page is made anew, or cleared.
LEMMA DetailReloads ==
  ASSUME NEW v \in Views
  PROVE  \E d \in {PageOf(v), Nothing} : ReloadDetail(v) = [v EXCEPT !.detail = d]
<1>1. CASE v.current
  BY <1>1 DEF ReloadDetail
<1>2. CASE ~v.current
  BY <1>2 DEF ReloadDetail
<1>3. QED
  BY <1>1, <1>2

\* A profile is chosen, or a row selected, on pages that are current: they still are.
LEMMA ChooseKeeps ==
  ASSUME NEW v \in Views, NEW p \in Profiles, NEW l \in Nat, NEW a \in Nat
  PROVE  /\ Choose(v, p) \in Views
         /\ IsCurrent(v, l, a) => IsCurrent(Choose(v, p), l, a)
<1> DEFINE u == SetProfile([v EXCEPT !.profile = p])
           page == [rows |-> v.list.rows, profile |-> p]
<1>1. page \in Page
  BY DEF Views, Page
<1>2. u = [[v EXCEPT !.profile = p] EXCEPT !.list = page]
  BY DEF SetProfile, PageOf, Views
<1>3. /\ u \in Views /\ PageOf(u) = page /\ u.list = page /\ u.profile = p
      /\ u.audit = v.audit
  <2> HIDE DEF page
  <2>1. u \in Views /\ u.list = page /\ u.profile = p /\ u.audit = v.audit
    BY <1>1, <1>2 DEF Views
  <2>2. page.rows = v.list.rows /\ page.profile = p
    BY DEF page
  <2>3. QED
    BY <2>1, <2>2 DEF PageOf, page
<1> HIDE DEF u
<1>4. PICK d \in {page, Nothing} : ReloadDetail(u) = [u EXCEPT !.detail = d]
  BY <1>3, DetailReloads
<1> HIDE DEF page
<1>5. /\ ReloadDetail(u) \in Views /\ ReloadDetail(u).list = page
      /\ ReloadDetail(u).profile = p /\ ReloadDetail(u).audit = v.audit
      /\ ReloadDetail(u).detail \in {page, Nothing}
  BY <1>1, <1>3, <1>4 DEF Views
<1>6. Choose(v, p) = [ReloadDetail(u) EXCEPT !.dashboard = page]
  BY <1>5 DEF Choose, ReloadDashboard, PageOf, u, page
<1>7. /\ Choose(v, p) \in Views /\ Choose(v, p).list = page
      /\ Choose(v, p).profile = p /\ Choose(v, p).audit = v.audit
      /\ Choose(v, p).detail \in {page, Nothing} /\ Choose(v, p).dashboard = page
  BY <1>1, <1>5, <1>6 DEF Views
<1>8. IsCurrent(v, l, a) => page = [rows |-> l, profile |-> p] /\ v.audit = a
  BY DEF IsCurrent, page
<1>9. QED
  BY <1>7, <1>8 DEF IsCurrent

\* Selecting a row leaves the audit page alone.
LEMMA SelectKeeps ==
  ASSUME NEW v \in Views, NEW l \in Nat, NEW a \in Nat
  PROVE  /\ Select(v) \in Views /\ Select(v).audit = v.audit
         /\ IsCurrent(v, l, a) => IsCurrent(Select(v), l, a)
<1> DEFINE u == [v EXCEPT !.current = TRUE]
           page == PageOf(v)
<1>1. page \in Page
  BY DEF Views, Page, PageOf
<1>2. /\ u \in Views /\ u.list = v.list /\ u.profile = v.profile
      /\ u.audit = v.audit /\ u.dashboard = v.dashboard
  BY DEF Views
<1> HIDE DEF u
<1>3. PICK d \in {page, Nothing} : ReloadDetail(u) = [u EXCEPT !.detail = d]
  BY <1>2, DetailReloads DEF PageOf
<1>4. IsCurrent(v, l, a) => page = [rows |-> l, profile |-> v.profile]
  BY DEF IsCurrent, PageOf
<1> HIDE DEF page
<1>5. Select(v) = [u EXCEPT !.detail = d]
  BY <1>3 DEF Select, u
<1>6. QED
  BY <1>1, <1>2, <1>3, <1>4, <1>5 DEF Views, IsCurrent

\* After an import all pages are new but the audit log, which it does not write;
\* after processing all but the detail, which is of the library.
LEMMA ImportedIsCurrent ==
  ASSUME NEW v \in Views, NEW l \in Nat
  PROVE  Imported(v, l) \in Views /\ IsCurrent(Imported(v, l), l, v.audit)
BY DEF Views, Page, PageOf, Imported, ReloadLibrary, ReloadDetail, ReloadDashboard,
       IsCurrent

\* If the detail was current before: it is not remade.
LEMMA ProcessedIsCurrent ==
  ASSUME NEW v \in Views, NEW l \in Nat, NEW a \in Nat
  PROVE  /\ Processed(v, l, a) \in Views
         /\ IsCurrent(v, l, v.audit) => IsCurrent(Processed(v, l, a), l, a)
BY DEF Views, Page, PageOf, Processed, ReloadLibrary, ReloadAudit, ReloadDashboard,
       IsCurrent

-----------------------------------------------------------------------------
(* The invariant. *)

\* A dialog of a session is open only while no job is at work and no session has
\* a thread; and there is a job left to start.
ModalInv ==
  modal \in Sessions => jobs < MaxJobs /\ ~busy /\ \A s \in Sessions : thread_[s] = 0

\* The window holds the flag of the last job; a flag is set by a press of Cancel
\* for that job only; who has left its loop had a reason.
JobInv ==
  /\ cancel_ = jobs
  /\ busy => jobs # 0
  /\ \A j \in Jobs :
       /\ phase[j] # "none" => j <= jobs
       /\ phase[j] # "discarded"
       /\ phase[j] = "file" => done[j] < Total
       /\ phase[j] = "exec" => flag[j] \/ done[j] = Total
       /\ flag[j] => wanted[j] # None

Active(j) == phase[j] \in {"starting", "loop", "file"}

Late == {"quit", "thread finished"}

\* The job at work is the last one, and its finished is yet to come; while events
\* of a job's work are queued the window is busy, and behind its finished there
\* are none.
BusyInv == \A j \in Jobs :
  Active(j) => busy /\ j = jobs /\ \A i \in DOMAIN queue : queue[i].what # "finished"

QueueInv == \A i \in DOMAIN queue :
  /\ queue[i].what \notin Late => busy
  /\ queue[i].what = "finished" =>
       /\ queue[i].job = jobs
       /\ \A k \in DOMAIN queue : k > i => queue[k].what \in Late

\* A job makes stale only those pages that its handler reloads.
PagesInv ==
  /\ ~busy => /\ label = "Ready" /\ bar = "reset"
              /\ IsCurrent(shown, tables["import"], tables["process"])
  /\ busy /\ kind[jobs] = "import" => shown.audit = tables["process"]
  /\ busy /\ kind[jobs] = "process" => IsCurrent(shown, tables["import"], shown.audit)

Inv == TypeOK /\ ModalInv /\ JobInv /\ BusyInv /\ QueueInv /\ PagesInv

EventsOf(n) ==
  [what : {"progress", "progress end", "finished", "quit", "thread finished"}, job : 1 .. n]

-----------------------------------------------------------------------------
(* Queues. *)

\* Events of n jobs are events of more.
LEMMA MoreJobs ==
  ASSUME NEW n \in Nat, NEW q \in Seq(EventsOf(n))
  PROVE  q \in Seq(EventsOf(n + 1))
<1>1. EventsOf(n) \subseteq EventsOf(n + 1)
  <2>1. 1 .. n \subseteq 1 .. n + 1
    OBVIOUS
  <2>2. QED
    BY <2>1 DEF EventsOf
<1>2. q \in [1 .. Len(q) -> EventsOf(n)] /\ Len(q) \in Nat
  OBVIOUS
<1>3. q \in [1 .. Len(q) -> EventsOf(n + 1)]
  BY <1>1, <1>2
<1>4. QED
  BY <1>2, <1>3, SeqDef

\* Events of jobs that exist.
LEMMA EventType ==
  ASSUME NEW n \in Nat, NEW j \in 1 .. n,
         NEW w \in {"progress", "progress end", "finished", "quit", "thread finished"}
  PROVE  Event(w, j) \in EventsOf(n)
BY DEF Event, EventsOf

\* What is emitted comes behind what is queued.
LEMMA EmitParts ==
  ASSUME NEW S, NEW q \in Seq(S), NEW es \in Seq(S)
  PROVE  /\ q \o es \in Seq(S)
         /\ \A i \in DOMAIN (q \o es) :
              \/ i \in DOMAIN q /\ (q \o es)[i] = q[i]
              \/ /\ i > Len(q) /\ i - Len(q) \in DOMAIN es
                 /\ (q \o es)[i] = es[i - Len(q)]
         /\ DOMAIN (q \o es) \subseteq Nat
         /\ DOMAIN q = 1 .. Len(q) /\ DOMAIN es = 1 .. Len(es) /\ Len(q) \in Nat
OBVIOUS

\* Places behind a place stay behind it when the queue moves up.
LEMMA SuccessorsAscend == \A i \in Nat, k \in Nat : k > i => k + 1 > i + 1
OBVIOUS

\* What the workers emit.
LEMMA ShortSeq ==
  ASSUME NEW S, NEW a \in S, NEW b \in S, NEW c \in S
  PROVE  <<a>> \in Seq(S) /\ <<a, b>> \in Seq(S) /\ <<a, b, c>> \in Seq(S)
OBVIOUS

\* The queue without its head.
LEMMA TailParts ==
  ASSUME NEW S, NEW q \in Seq(S), q # <<>>
  PROVE  /\ Tail(q) \in Seq(S) /\ Head(q) = q[1] /\ Head(q) \in S /\ 1 \in DOMAIN q
         /\ DOMAIN q \subseteq Nat
         /\ \A i \in DOMAIN Tail(q) :
              i \in Nat \ {0} /\ i + 1 \in DOMAIN q /\ Tail(q)[i] = q[i + 1]
<1>1. /\ Tail(q) \in Seq(S) /\ Head(q) = q[1] /\ Head(q) \in S
      /\ Len(q) \in Nat \ {0} /\ DOMAIN q = 1 .. Len(q)
  OBVIOUS
<1>2. Len(Tail(q)) = Len(q) - 1 /\ DOMAIN Tail(q) = 1 .. Len(Tail(q))
  BY <1>1
<1>3. \A i \in 1 .. Len(q) - 1 : Tail(q)[i] = q[i + 1]
  BY <1>1
<1>4. QED
  BY <1>1, <1>2, <1>3

-----------------------------------------------------------------------------
(* Types. *)

\* The pages of an empty library are current.
LEMMA SomeProfile == Opened \in Views /\ IsCurrent(Opened, 0, 0)
BY ViewsAssumption DEF Opened, Views, Page, IsCurrent

\* The invariant holds when the window opens.
LEMMA InvInit == Init => Inv
<1> SUFFICES ASSUME Init PROVE Inv
  OBVIOUS
<1> USE SessionAssumption DEF Init
<1>1. TypeOK
  <2>1. Opened \in Views
    BY SomeProfile
  <2>2. left \in Seq(Sessions) /\ queue \in Seq(EventsOf(jobs))
    BY DEF Sessions
  <2>3. /\ Total \in 0 .. Total + 1 /\ 0 \in 0 .. Total /\ 0 \in 0 .. jobs
        /\ jobs \in 0 .. MaxJobs /\ None \in 0 .. None
    BY DEF None
  <2>4. /\ thread_ \in [Sessions -> 0 .. jobs] /\ tables \in [Sessions -> Nat]
        /\ kind \in [Jobs -> Sessions] /\ phase \in [Jobs -> Phases]
        /\ done \in [Jobs -> 0 .. Total] /\ flag \in [Jobs -> BOOLEAN]
        /\ quit \in [Jobs -> BOOLEAN] /\ wanted \in [Jobs -> 0 .. None]
    BY <2>3 DEF Sessions, Phases
  <2>5. /\ app = "open" /\ modal = "none" /\ label = "Ready" /\ bar = "reset"
        /\ shown \in Views /\ busy \in BOOLEAN
    BY <2>1
  <2>6. cancel_ \in 0 .. jobs
    BY <2>3
  <2> HIDE DEF Init
  <2>7. QED
    BY <2>2, <2>3, <2>4, <2>5, <2>6 DEF TypeOK, EventsOf
<1>2. ModalInv /\ JobInv /\ BusyInv /\ QueueInv
  BY DEF ModalInv, JobInv, BusyInv, QueueInv, Active, Sessions
<1>3. PagesInv
  BY SomeProfile DEF PagesInv, Sessions
<1>4. QED
  BY <1>1, <1>2, <1>3 DEF Inv

\* What an event in the queue speaks of.
LEMMA HeadEvent ==
  ASSUME TypeOK, NEW w, Handle(w)
  PROVE  /\ Subject \in Jobs /\ Subject \in 1 .. jobs /\ kind[Subject] \in Sessions
         /\ queue' \in Seq(EventsOf(jobs)) /\ 1 \in DOMAIN queue
         /\ queue[1].what = w /\ Subject = queue[1].job /\ app = "open"
         /\ DOMAIN queue \subseteq Nat
         /\ \A i \in DOMAIN queue' :
              i \in Nat \ {0} /\ i + 1 \in DOMAIN queue /\ queue'[i] = queue[i + 1]
<1>1. queue \in Seq(EventsOf(jobs)) /\ queue # <<>> /\ queue' = Tail(queue)
  BY DEF TypeOK, EventsOf, Handle
<1>2. Head(queue) \in EventsOf(jobs) /\ Head(queue) = queue[1]
  BY <1>1, TailParts
<1>3. Head(queue).job \in 1 .. jobs /\ 1 .. jobs \subseteq Jobs
  <2>1. jobs \in 0 .. MaxJobs /\ MaxJobs \in Nat
    BY SessionAssumption DEF TypeOK
  <2>2. Head(queue).job \in 1 .. jobs
    BY <1>2 DEF EventsOf
  <2>3. QED
    BY <2>1, <2>2 DEF Jobs
<1>4. kind[Subject] \in Sessions
  BY <1>3 DEF Subject, TypeOK
<1> HIDE DEF EventsOf
<1>5. QED
  BY <1>1, <1>2, <1>3, <1>4, TailParts DEF Subject, Handle

\* The events of a job that is at work join the others.
LEMMA EmitType ==
  ASSUME TypeOK, JobInv, NEW j \in Jobs, phase[j] # "none", NEW es,
         es \in Seq(EventsOf(jobs)), Emit(es)
  PROVE  queue' \in Seq(EventsOf(jobs))
<1>1. queue \in Seq(EventsOf(jobs))
  BY DEF TypeOK, EventsOf
<1>2. QED
  BY <1>1, EmitParts DEF Emit

\* Every action keeps the types.
LEMMA TypeStep == Inv /\ [Next]_vars => TypeOK'
<1> SUFFICES ASSUME Inv, [Next]_vars PROVE TypeOK'
  OBVIOUS
<1>0. TypeOK /\ ModalInv /\ JobInv /\ MaxJobs \in Nat /\ Total \in Nat
  BY SessionAssumption DEF Inv
<1>a. /\ jobs \in Nat /\ jobs <= MaxJobs /\ cancel_ \in 0 .. jobs
      /\ thread_ \in [Sessions -> 0 .. jobs]
  <2>1. /\ jobs \in 0 .. MaxJobs /\ cancel_ \in 0 .. jobs
        /\ thread_ \in [Sessions -> 0 .. jobs]
    BY <1>0, Zenon DEF TypeOK
  <2>2. jobs \in Nat /\ jobs <= MaxJobs
    BY <1>0, <2>1
  <2>3. QED
    BY <2>1, <2>2
<1>b. /\ kind \in [Jobs -> Sessions] /\ phase \in [Jobs -> Phases]
      /\ done \in [Jobs -> 0 .. Total] /\ wanted \in [Jobs -> 0 .. None]
      /\ flag \in [Jobs -> BOOLEAN] /\ quit \in [Jobs -> BOOLEAN]
  BY <1>0 DEF TypeOK
<1>c. shown \in Views /\ tables \in [Sessions -> Nat]
  BY <1>0 DEF TypeOK
<1>d. queue \in Seq(EventsOf(jobs)) /\ left \in Seq(Sessions)
  BY <1>0 DEF TypeOK, EventsOf
<1> USE DEF window, job
<1>1. ASSUME NEW s \in Sessions, Ask(s) PROVE TypeOK'
  BY <1>0, <1>1 DEF Ask, TypeOK
<1>2. ASSUME NEW s \in Sessions, Accept(s) PROVE TypeOK'
  <2>1. jobs' = jobs + 1 /\ jobs' \in Jobs /\ jobs' \in 0 .. MaxJobs /\ thread_[s] = 0
    BY <1>0, <1>a, <1>2 DEF Accept, ModalInv, Jobs
  <2>2. queue' \in Seq(EventsOf(jobs'))
    BY <1>a, <1>d, <1>2, <2>1, MoreJobs DEF Accept
  <2>3. /\ kind' \in [Jobs -> Sessions] /\ phase' \in [Jobs -> Phases]
        /\ thread_' \in [Sessions -> 0 .. jobs']
    BY <1>a, <1>b, <1>2, <2>1 DEF Accept, Begin, Phases
  <2>4. 0 .. jobs \subseteq 0 .. jobs' /\ cancel_' \in 0 .. jobs'
    BY <1>a, <1>2, <2>1 DEF Accept
  <2>5. QED
    BY <1>0, <1>2, <2>1, <2>2, <2>3, <2>4 DEF Accept, TypeOK, EventsOf
<1>3. ASSUME NEW p \in Profiles, ChooseProfile(p) PROVE TypeOK'
  <2>1. shown' \in Views
    BY <1>0, <1>3, ChooseKeeps DEF ChooseProfile, TypeOK
  <2>2. QED
    BY <1>0, <1>3, <2>1 DEF ChooseProfile, TypeOK
<1>4. CASE SelectRow
  <2>1. shown' \in Views
    BY <1>0, <1>4, SelectKeeps DEF SelectRow, TypeOK
  <2>2. QED
    BY <1>0, <1>4, <2>1 DEF SelectRow, TypeOK
<1>5. CASE Dismiss
  BY <1>0, <1>5 DEF Dismiss, TypeOK
<1>6. CASE CancelWork
  <2>1. jobs \in Jobs
    BY <1>0, <1>a, <1>6 DEF CancelWork, JobInv, Jobs
  <2>2. wanted' \in [Jobs -> 0 .. None] /\ flag' \in [Jobs -> BOOLEAN]
    <3>1. done[jobs] \in 0 .. None /\ wanted[jobs] \in 0 .. None
      BY <1>0, <1>b, <2>1 DEF None
    <3>2. QED
      BY <1>b, <1>6, <3>1 DEF CancelWork
  <2>3. QED
    BY <1>0, <1>6, <2>2 DEF CancelWork, TypeOK
<1>7. CASE CloseWindow
  BY <1>0, <1>7 DEF CloseWindow, TypeOK
<1>8. CASE DestroySession
  <2>1. left' \in Seq(Sessions) /\ app' \in {"open", "closing", "exited", "aborted"}
        /\ quit' \in [Jobs -> BOOLEAN]
    <3>1. app \in {"open", "closing", "exited", "aborted"}
      BY <1>0 DEF TypeOK
    <3>2. CASE thread_[Head(left)] # 0 /\ ~quit[thread_[Head(left)]]
               /\ quit' = [quit EXCEPT ![thread_[Head(left)]] = TRUE]
               /\ UNCHANGED <<app, left>>
      BY <1>b, <1>d, <3>1, <3>2
    <3>3. CASE left # <<>> /\ left' = Tail(left) /\ UNCHANGED quit
               /\ app' = IF left' = <<>> THEN "exited" ELSE app
      <4>1. left' \in Seq(Sessions)
        BY <1>d, <3>3, TailParts
      <4>2. QED
        BY <1>b, <3>1, <3>3, <4>1
    <3>4. QED
      BY <1>8, <3>2, <3>3 DEF DestroySession
  <2>2. QED
    BY <1>0, <1>8, <2>1 DEF DestroySession, TypeOK
<1>9. CASE HandleProgress
  <2>1. queue' \in Seq(EventsOf(jobs))
    BY <1>0, <1>9, HeadEvent DEF HandleProgress
  <2>2. QED
    BY <1>0, <1>9, <2>1 DEF HandleProgress, TypeOK, EventsOf
<1>10. CASE HandleFinished
  <2>1. queue' \in Seq(EventsOf(jobs))
    BY <1>0, <1>10, HeadEvent DEF HandleFinished
  <2>2. shown' \in Views
    BY <1>c, <1>10, ImportedIsCurrent, ProcessedIsCurrent DEF HandleFinished, Sessions
  <2>3. QED
    BY <1>0, <1>10, <2>1, <2>2 DEF HandleFinished, TypeOK, EventsOf
<1>11. CASE HandleQuit
  <2>1. queue' \in Seq(EventsOf(jobs)) /\ Subject \in Jobs
    BY <1>0, <1>11, HeadEvent DEF HandleQuit
  <2>2. QED
    BY <1>0, <1>11, <2>1 DEF HandleQuit, TypeOK, EventsOf
<1>12. CASE HandleThreadFinished
  <2>1. queue' \in Seq(EventsOf(jobs)) /\ kind[Subject] \in Sessions
    BY <1>0, <1>12, HeadEvent DEF HandleThreadFinished
  <2>2. thread_' \in [Sessions -> 0 .. jobs]
    <3>1. thread_' = [thread_ EXCEPT ![kind[Subject]] = 0]
      BY <1>12, Zenon DEF HandleThreadFinished
    <3>2. 0 \in 0 .. jobs
      BY <1>a
    <3>3. QED
      BY <1>a, <3>1, <3>2, <2>1
  <2>3. QED
    BY <1>0, <1>12, <2>1, <2>2 DEF HandleThreadFinished, TypeOK, EventsOf
<1>13. ASSUME NEW j \in Jobs, Run(j) PROVE TypeOK'
  BY <1>0, <1>13 DEF Run, TypeOK, Phases
<1>14. ASSUME NEW j \in Jobs, Throw(j) PROVE TypeOK'
  BY <1>0, <1>14 DEF Throw, TypeOK
<1>15. ASSUME NEW j \in Jobs, FileDone(j) PROVE TypeOK'
  <2>1. done[j] + 1 \in 0 .. Total
    BY <1>0, <1>b, <1>15 DEF FileDone, JobInv
  <2>2. tables' \in [Sessions -> Nat]
    BY <1>b, <1>c, <1>15 DEF FileDone
  <2>3. QED
    BY <1>0, <1>15, <2>1, <2>2 DEF FileDone, TypeOK, Phases
<1>16. ASSUME NEW j \in Jobs,
              UnknownProfile(j) \/ NextFile(j) \/ Finish(j) \/ ThreadEnds(j)
       PROVE TypeOK'
  <2>1. phase[j] # "none" /\ j \in 1 .. jobs /\ jobs \in Nat
    <3>1. phase[j] # "none"
      BY <1>16 DEF UnknownProfile, NextFile, Finish, ThreadEnds
    <3>2. j <= jobs /\ j \in Nat \ {0}
      BY <1>0, <3>1 DEF JobInv, Jobs
    <3>3. QED
      BY <1>a, <3>1, <3>2
  <2>2. queue' \in Seq(EventsOf(jobs))
    <3>1. PICK es \in Seq(EventsOf(jobs)) : Emit(es)
      <4> DEFINE E(w) == Event(w, j)
      <4>1. \A w \in {"progress", "progress end", "finished", "quit", "thread finished"} :
              E(w) \in EventsOf(jobs)
        BY <2>1, EventType
      <4>2. \/ Emit(<<E("finished"), E("quit")>>) \/ Emit(<<E("progress")>>)
            \/ Emit(<<E("progress end"), E("finished"), E("quit")>>)
            \/ Emit(<<E("thread finished")>>)
        BY <1>16 DEF UnknownProfile, NextFile, Finish, ThreadEnds
      <4> HIDE DEF E
      <4> HIDE DEF EventsOf, Emit
      <4>a. /\ E("progress") \in EventsOf(jobs) /\ E("progress end") \in EventsOf(jobs)
            /\ E("finished") \in EventsOf(jobs) /\ E("quit") \in EventsOf(jobs)
            /\ E("thread finished") \in EventsOf(jobs)
        BY <4>1
      <4>3. /\ <<E("finished"), E("quit")>> \in Seq(EventsOf(jobs))
            /\ <<E("progress")>> \in Seq(EventsOf(jobs))
            /\ <<E("progress end"), E("finished"), E("quit")>> \in Seq(EventsOf(jobs))
            /\ <<E("thread finished")>> \in Seq(EventsOf(jobs))
        BY <4>a, ShortSeq
      <4>4. CASE Emit(<<E("finished"), E("quit")>>)
        BY <4>3, <4>4
      <4>5. CASE Emit(<<E("progress")>>)
        BY <4>3, <4>5
      <4>6. CASE Emit(<<E("progress end"), E("finished"), E("quit")>>)
        BY <4>3, <4>6
      <4>7. CASE Emit(<<E("thread finished")>>)
        BY <4>3, <4>7
      <4>8. QED
        BY <4>2, <4>4, <4>5, <4>6, <4>7
    <3>2. QED
      BY <1>0, <2>1, <3>1, EmitType
  <2>3. phase' \in [Jobs -> Phases]
    BY <1>0, <1>16 DEF UnknownProfile, NextFile, Finish, ThreadEnds, TypeOK, Phases
  <2>4. QED
    BY <1>0, <1>16, <2>2, <2>3
    DEF UnknownProfile, NextFile, Finish, ThreadEnds, TypeOK, EventsOf
<1>17. CASE UNCHANGED vars
  BY <1>0, <1>17 DEF vars, TypeOK
<1>18. QED
  BY <1>1, <1>2, <1>3, <1>4, <1>5, <1>6, <1>7, <1>8, <1>9, <1>10, <1>11, <1>12,
     <1>13, <1>14, <1>15, <1>16, <1>17 DEF Next, Worker, Events

-----------------------------------------------------------------------------
(* Dialogs and jobs. *)

\* What most handlers and every step of a worker leave alone.
Still == UNCHANGED <<modal, busy, cancel_, thread_, jobs>>

\* No thread is left, and the window is not busy, while a job is being chosen.
LEMMA ModalStep == Inv /\ [Next]_vars => ModalInv'
<1> SUFFICES ASSUME Inv, [Next]_vars PROVE ModalInv'
  OBVIOUS
<1>0. TypeOK /\ ModalInv
  BY DEF Inv
<1> USE DEF window, job
<1>1. ASSUME NEW s \in Sessions, Ask(s) PROVE ModalInv'
  BY <1>0, <1>1 DEF Ask, ModalInv, isBusy
<1>2. ASSUME NEW s \in Sessions, Accept(s) PROVE ModalInv'
  BY <1>2 DEF Accept, ModalInv, Sessions
<1>3. CASE Still
  BY <1>0, <1>3 DEF Still, ModalInv
<1>4. CASE Dismiss
  BY <1>4 DEF Dismiss, ModalInv, Sessions
<1>5. CASE HandleFinished
  <2>1. modal' \in {"complete", modal} /\ busy' = FALSE /\ UNCHANGED <<jobs, thread_>>
    BY <1>5 DEF HandleFinished
  <2>2. QED
    BY <1>0, <2>1 DEF ModalInv, Sessions
<1>6. CASE HandleThreadFinished
  <2>1. /\ thread_' = [thread_ EXCEPT ![kind[Subject]] = 0]
        /\ UNCHANGED <<modal, jobs, busy>>
    BY <1>6, Zenon DEF HandleThreadFinished
  <2>2. thread_ \in [Sessions -> 0 .. jobs]
    BY <1>0, Zenon DEF TypeOK
  <2>3. QED
    BY <1>0, <2>1, <2>2 DEF ModalInv
<1>7. ASSUME NEW p \in Profiles, ChooseProfile(p) PROVE Still
  BY <1>7 DEF ChooseProfile, Still
<1>8. ASSUME SelectRow \/ CancelWork \/ CloseWindow \/ DestroySession PROVE Still
  BY <1>8 DEF SelectRow, CancelWork, CloseWindow, DestroySession, Still
<1>9. ASSUME HandleProgress \/ HandleQuit \/ UNCHANGED vars PROVE Still
  BY <1>9 DEF HandleProgress, HandleQuit, vars, Still
<1>10. ASSUME NEW j \in Jobs, Worker(j) \/ Throw(j) PROVE Still
  BY <1>10 DEF Worker, Run, UnknownProfile, NextFile, FileDone, Finish, ThreadEnds,
       Throw, Still
<1>11. QED
  BY <1>1, <1>2, <1>3, <1>4, <1>5, <1>6, <1>7, <1>8, <1>9, <1>10 DEF Next, Events

\* A press of Cancel reaches the job at work, and no other.
LEMMA JobStep == Inv /\ [Next]_vars => JobInv'
<1> SUFFICES ASSUME Inv, [Next]_vars PROVE JobInv'
  OBVIOUS
<1>0. ModalInv /\ JobInv /\ MaxJobs \in Nat /\ Total \in Nat
  BY SessionAssumption DEF Inv
<1>a. /\ jobs \in 0 .. MaxJobs /\ kind \in [Jobs -> Sessions]
      /\ phase \in [Jobs -> Phases] /\ done \in [Jobs -> 0 .. Total]
      /\ flag \in [Jobs -> BOOLEAN] /\ wanted \in [Jobs -> 0 .. None]
  BY Zenon DEF Inv, TypeOK
<1> USE DEF window, job
<1>1. ASSUME NEW s \in Sessions, Accept(s) PROVE JobInv'
  <2>1. /\ jobs' = jobs + 1 /\ cancel_' = jobs' /\ jobs' # 0 /\ jobs' \in Jobs
        /\ thread_[s] = 0 /\ jobs \in Nat
    BY <1>0, <1>a, <1>1 DEF Accept, ModalInv, Jobs
  <2>2. /\ phase' = [phase EXCEPT ![jobs'] = "starting"]
        /\ UNCHANGED <<done, flag, wanted>>
    BY <1>1, <2>1 DEF Accept, Begin
  <2>3. \A j \in Jobs : phase'[j] # "none" => j <= jobs'
    BY <1>0, <1>a, <2>1, <2>2 DEF JobInv, Jobs
  <2>4. \A j \in Jobs : /\ phase'[j] # "discarded"
                        /\ phase'[j] = "file" => done[j] < Total
                        /\ phase'[j] = "exec" => flag[j] \/ done[j] = Total
    BY <1>0, <1>a, <2>1, <2>2 DEF JobInv
  <2>5. QED
    BY <1>0, <2>1, <2>2, <2>3, <2>4 DEF JobInv
<1>2. CASE CancelWork
  <2>1. /\ jobs \in Jobs /\ cancel_ = jobs
        /\ flag' = [flag EXCEPT ![jobs] = TRUE]
        /\ UNCHANGED <<busy, cancel_, jobs, phase, done>>
    BY <1>0, <1>a, <1>2 DEF CancelWork, JobInv, Jobs
  <2>2. wanted' = [wanted EXCEPT ![jobs] = IF @ = None THEN done[jobs] ELSE @]
    BY <1>2, Zenon DEF CancelWork
  <2>3. wanted'[jobs] # None
    BY <1>a, <1>0, <2>1, <2>2 DEF None
  <2>4. \A j \in Jobs : j # jobs => wanted'[j] = wanted[j] /\ flag'[j] = flag[j]
    BY <1>a, <2>1, <2>2
  <2>5. \A j \in Jobs : (flag'[j] => wanted'[j] # None) /\ (flag[j] => flag'[j])
    BY <1>0, <1>a, <2>1, <2>3, <2>4 DEF JobInv
  <2>6. QED
    BY <1>0, <2>1, <2>5 DEF JobInv
<1>3. ASSUME UNCHANGED <<cancel_, jobs, phase, done, flag, wanted>>, busy' \in {busy, FALSE}
      PROVE JobInv'
  <2>1. CASE busy' = busy
    BY <1>0, <1>3, <2>1 DEF JobInv
  <2>2. CASE busy' = FALSE
    BY <1>0, <1>3, <2>2 DEF JobInv
  <2>3. QED
    BY <1>3, <2>1, <2>2
<1>4. ASSUME NEW s \in Sessions, Ask(s)
      PROVE UNCHANGED <<cancel_, jobs, phase, done, flag, wanted, busy>>
  BY <1>4 DEF Ask
<1>5. ASSUME NEW p \in Profiles, ChooseProfile(p)
      PROVE UNCHANGED <<cancel_, jobs, phase, done, flag, wanted, busy>>
  BY <1>5 DEF ChooseProfile
<1>6. ASSUME SelectRow \/ Dismiss \/ CloseWindow \/ DestroySession \/ UNCHANGED vars
      PROVE UNCHANGED <<cancel_, jobs, phase, done, flag, wanted, busy>>
  BY <1>6 DEF SelectRow, Dismiss, CloseWindow, DestroySession, vars
<1>7. ASSUME Events
      PROVE UNCHANGED <<cancel_, jobs, phase, done, flag, wanted>> /\ busy' \in {busy, FALSE}
  BY <1>7 DEF Events, HandleProgress, HandleFinished, HandleQuit, HandleThreadFinished
<1>8. ASSUME NEW j \in Jobs, Worker(j) \/ Throw(j) PROVE JobInv'
  <2>1. UNCHANGED <<cancel_, jobs, flag, wanted, busy>>
    BY <1>8 DEF Worker, Run, UnknownProfile, NextFile, FileDone, Finish, ThreadEnds, Throw
  <2>2. CASE FileDone(j)
    <3>1. /\ done' = [done EXCEPT ![j] = @ + 1] /\ phase[j] = "file"
          /\ phase' = [phase EXCEPT ![j] = "loop"]
      BY <2>2, Zenon DEF FileDone
    <3>2. \A i \in Jobs : i # j => phase'[i] = phase[i] /\ done'[i] = done[i]
      BY <1>a, <3>1
    <3>3. phase'[j] = "loop"
      BY <1>a, <3>1
    <3>4. QED
      BY <1>0, <2>1, <3>1, <3>2, <3>3 DEF JobInv
  <2>3. CASE Throw(j)
    BY <1>0, <2>1, <2>3 DEF Throw, JobInv
  <2>4. ASSUME NEW p \in Phases, phase' = [phase EXCEPT ![j] = p], UNCHANGED done,
               phase[j] # "none", p # "discarded", p = "file" => done[j] < Total,
               p = "exec" => flag[j] \/ done[j] = Total
        PROVE JobInv'
    <3>1. \A i \in Jobs : i # j => phase'[i] = phase[i]
      BY <1>a, <2>4
    <3>2. phase'[j] = p
      BY <1>a, <2>4
    <3>3. QED
      BY <1>0, <2>1, <2>4, <3>1, <3>2 DEF JobInv
  <2>5. CASE Run(j)
    BY <2>4, <2>5 DEF Run, Phases
  <2>6. CASE UnknownProfile(j)
    BY <2>4, <2>6 DEF UnknownProfile, Phases
  <2>7. CASE NextFile(j)
    BY <2>4, <2>7 DEF NextFile, Phases
  <2>8. CASE Finish(j)
    BY <2>4, <2>8 DEF Finish, Phases
  <2>9. CASE ThreadEnds(j)
    BY <2>4, <2>9 DEF ThreadEnds, Phases
  <2>10. QED
    BY <1>8, <2>2, <2>3, <2>5, <2>6, <2>7, <2>8, <2>9 DEF Worker
<1>9. QED
  BY <1>1, <1>2, <1>3, <1>4, <1>5, <1>6, <1>7, <1>8 DEF Next

-----------------------------------------------------------------------------
(* The order of the queue. *)

\* Behind the finished of a job nothing of its work is queued, and nothing of an
\* earlier job is when the next one begins.
LEMMA QueueStep == Inv /\ [Next]_vars => (BusyInv /\ QueueInv)'
<1> SUFFICES ASSUME Inv, [Next]_vars PROVE BusyInv' /\ QueueInv'
  OBVIOUS
<1>0. TypeOK /\ ModalInv /\ JobInv /\ BusyInv /\ QueueInv
  BY DEF Inv
<1>a. jobs \in 0 .. MaxJobs /\ MaxJobs \in Nat /\ phase \in [Jobs -> Phases]
  BY <1>0, SessionAssumption, Zenon DEF TypeOK
<1>b. queue \in Seq(EventsOf(jobs)) /\ DOMAIN queue = 1 .. Len(queue) /\ Len(queue) \in Nat
  <2>1. queue \in Seq(EventsOf(jobs))
    BY <1>0, Zenon DEF TypeOK, EventsOf
  <2>2. QED
    BY <2>1
<1> HIDE DEF EventsOf
<1>1. CASE UNCHANGED <<busy, jobs, phase, queue>>
  BY <1>0, <1>1 DEF BusyInv, QueueInv, Active
<1>2. ASSUME NEW s \in Sessions, Accept(s) PROVE BusyInv' /\ QueueInv'
  <2>1. /\ jobs' = jobs + 1 /\ busy' = TRUE /\ ~busy /\ queue' = queue
        /\ thread_[s] = 0
    BY <1>0, <1>2 DEF Accept, ModalInv
  <2>2. phase' = [phase EXCEPT ![jobs'] = "starting"]
    BY <1>2, <2>1 DEF Accept, Begin
  <2>3. \A j \in Jobs : j # jobs' => ~Active(j)'
    BY <1>0, <1>a, <2>1, <2>2 DEF BusyInv, Active
  <2>4. \A i \in DOMAIN queue : queue[i].what \in Late /\ queue[i].what # "finished"
    BY <1>0, <2>1 DEF QueueInv, Late
  <2>5. QED
    BY <2>1, <2>3, <2>4 DEF BusyInv, QueueInv
<1>3. ASSUME NEW w \in {"progress", "progress end", "quit", "thread finished"}, Handle(w),
             UNCHANGED <<busy, jobs, phase>>
      PROVE BusyInv' /\ QueueInv'
  <2>1. \A i \in DOMAIN queue' :
          i \in Nat /\ i + 1 \in DOMAIN queue /\ queue'[i] = queue[i + 1]
    BY <1>0, <1>3, HeadEvent
  <2>2. BusyInv'
    BY <1>0, <1>3, <2>1 DEF BusyInv, Active
  <2>3. ASSUME NEW i \in DOMAIN queue'
        PROVE /\ queue'[i].what \notin Late => busy
              /\ queue'[i].what = "finished" =>
                   /\ queue'[i].job = jobs
                   /\ \A k \in DOMAIN queue' : k > i => queue'[k].what \in Late
    <3>1. PICK m \in DOMAIN queue : m = i + 1 /\ queue'[i] = queue[m] /\ i \in Nat
      BY <2>1
    <3>2. \A k \in DOMAIN queue' : k > i =>
            \E n \in DOMAIN queue : n > m /\ queue'[k] = queue[n]
      <4>1. ASSUME NEW k \in DOMAIN queue', k > i
            PROVE  \E n \in DOMAIN queue : n > m /\ queue'[k] = queue[n]
        <5>1. k \in Nat /\ k + 1 \in DOMAIN queue /\ queue'[k] = queue[k + 1]
          BY <2>1
        <5>2. k + 1 > m
          <6>1. i \in Nat /\ k \in Nat /\ m = i + 1 /\ k > i
            BY <3>1, <4>1, <5>1, Zenon
          <6>2. QED
            BY <6>1, SuccessorsAscend, Zenon
        <5>3. QED
          BY <5>1, <5>2
      <4>2. QED
        BY <4>1
    <3>3. /\ queue[m].what \notin Late => busy
          /\ queue[m].what = "finished" =>
               /\ queue[m].job = jobs
               /\ \A k \in DOMAIN queue : k > m => queue[k].what \in Late
      <4>1. QueueInv
        BY <1>0
      <4>2. QED
        BY <4>1 DEF QueueInv
    <3>4. QED
      BY <3>1, <3>2, <3>3, Zenon
  <2>4. QED
    BY <1>3, <2>2, <2>3 DEF QueueInv
<1>4. CASE HandleFinished
  <2>1. /\ 1 \in DOMAIN queue /\ queue[1].what = "finished"
        /\ \A i \in DOMAIN queue' :
             i \in Nat \ {0} /\ i + 1 \in DOMAIN queue /\ queue'[i] = queue[i + 1]
    BY <1>0, <1>4, HeadEvent DEF HandleFinished
  <2>2. busy' = FALSE /\ UNCHANGED <<jobs, phase>>
    BY <1>4 DEF HandleFinished, job
  <2>3. \A j \in Jobs : ~Active(j)'
    BY <1>0, <2>1, <2>2 DEF BusyInv, Active
  <2>4. \A i \in DOMAIN queue' : i + 1 > 1
    BY <2>1
  <2>5. \A i \in DOMAIN queue' : queue'[i].what \in Late
    BY <1>0, <2>1, <2>4 DEF QueueInv
  <2>6. QED
    BY <2>3, <2>5 DEF BusyInv, QueueInv, Late
<1>5. ASSUME NEW j \in Jobs, Run(j) \/ FileDone(j) PROVE BusyInv' /\ QueueInv'
  <2>1. UNCHANGED <<busy, jobs, queue>> /\ Active(j)
    BY <1>5 DEF Run, FileDone, Active, window
  <2>2. PICK p \in Phases : phase' = [phase EXCEPT ![j] = p]
    BY <1>5, Zenon DEF Run, FileDone, Phases
  <2>3. \A i \in Jobs : Active(i)' => Active(i)
    BY <1>a, <2>1, <2>2 DEF Active
  <2>4. QED
    BY <1>0, <2>1, <2>3 DEF BusyInv, QueueInv
<1>6. ASSUME NEW j \in Jobs, NEW es \in Seq(EventsOf(jobs)), Emit(es), NEW p \in Phases,
             phase' = [phase EXCEPT ![j] = p], UNCHANGED <<busy, jobs>>,
             \/ /\ Active(j)
                /\ \A i \in DOMAIN es : es[i].job = j /\ es[i].what # "finished"
             \/ /\ Active(j) /\ p \notin {"starting", "loop", "file"}
                /\ \A i \in DOMAIN es : es[i].job = j
                /\ \A i \in DOMAIN es : es[i].what = "finished" =>
                     \A k \in DOMAIN es : k > i => es[k].what \in Late
             \/ /\ p \notin {"starting", "loop", "file"}
                /\ \A i \in DOMAIN es : es[i].what \in Late
      PROVE BusyInv' /\ QueueInv'
  <2>1. /\ DOMAIN es = 1 .. Len(es) /\ DOMAIN queue' \subseteq Nat
        /\ \A i \in DOMAIN queue' :
             \/ i \in DOMAIN queue /\ queue'[i] = queue[i]
             \/ /\ i > Len(queue) /\ i - Len(queue) \in DOMAIN es
                /\ queue'[i] = es[i - Len(queue)]
    BY <1>b, <1>6, EmitParts DEF Emit
  <2>2. /\ \A i \in Jobs : i # j => (Active(i)' <=> Active(i))
        /\ p \notin {"starting", "loop", "file"} => ~Active(j)'
    BY <1>a, <1>6 DEF Active
  <2>3. Active(j) => j = jobs /\ busy /\ \A i \in DOMAIN queue : queue[i].what # "finished"
    BY <1>0 DEF BusyInv
  <2>4. BusyInv'
    <3>1. CASE \A i \in DOMAIN es : es[i].what # "finished"
      BY <1>0, <1>6, <2>1, <2>2, <2>3, <3>1 DEF BusyInv, Late
    <3>2. CASE Active(j) /\ p \notin {"starting", "loop", "file"}
      BY <1>0, <1>6, <2>2, <2>3, <3>2 DEF BusyInv
    <3>3. QED
      BY <1>6, <3>1, <3>2 DEF Late
  <2>5. ASSUME NEW i \in DOMAIN queue' PROVE queue'[i].what \notin Late => busy
    BY <1>0, <1>6, <2>1, <2>3 DEF QueueInv
  <2>6. ASSUME NEW i \in DOMAIN queue', queue'[i].what = "finished"
        PROVE /\ queue'[i].job = jobs
              /\ \A k \in DOMAIN queue' : k > i => queue'[k].what \in Late
    <3>1. CASE i \in DOMAIN queue /\ queue'[i] = queue[i]
      <4>1. ~Active(j) /\ \A k \in DOMAIN es : es[k].what \in Late
        BY <1>6, <2>3, <2>6, <3>1
      <4>2. /\ queue[i].job = jobs
            /\ \A k \in DOMAIN queue : k > i => queue[k].what \in Late
        BY <1>0, <2>6, <3>1 DEF QueueInv
      <4>3. QED
        BY <2>1, <3>1, <4>1, <4>2
    <3>2. CASE i > Len(queue) /\ i - Len(queue) \in DOMAIN es
               /\ queue'[i] = es[i - Len(queue)]
      <4>1. Active(j) /\ \A k \in DOMAIN es : k > i - Len(queue) => es[k].what \in Late
        BY <1>6, <2>6, <3>2 DEF Late
      <4>2. es[i - Len(queue)].job = j
        BY <1>6, <2>6, <3>2 DEF Late
      <4>3. \A k \in DOMAIN queue' : k > i =>
              /\ k - Len(queue) \in DOMAIN es /\ k - Len(queue) > i - Len(queue)
              /\ queue'[k] = es[k - Len(queue)]
        <5>1. i \in Int
          BY <2>1
        <5>2. ASSUME NEW k \in DOMAIN queue', k > i, k \in DOMAIN queue PROVE FALSE
          BY <1>b, <3>2, <5>1, <5>2
        <5>3. ASSUME NEW k \in DOMAIN queue', k > i, k - Len(queue) \in DOMAIN es
              PROVE k - Len(queue) > i - Len(queue)
          BY <1>b, <2>1, <3>2, <5>1, <5>3
        <5>4. QED
          BY <2>1, <5>2, <5>3
      <4>4. QED
        BY <2>3, <3>2, <4>1, <4>2, <4>3
    <3>3. QED
      BY <2>1, <3>1, <3>2
  <2>7. QED
    BY <1>6, <2>4, <2>5, <2>6 DEF QueueInv
<1>7. ASSUME NEW j \in Jobs, phase[j] # "none" PROVE
        /\ Event("progress", j) \in EventsOf(jobs)
        /\ Event("progress end", j) \in EventsOf(jobs)
        /\ Event("finished", j) \in EventsOf(jobs) /\ Event("quit", j) \in EventsOf(jobs)
        /\ Event("thread finished", j) \in EventsOf(jobs)
  <2>1. j \in 1 .. jobs /\ jobs \in Nat
    BY <1>0, <1>a, <1>7 DEF JobInv, Jobs
  <2>2. QED
    BY <2>1, EventType
<1>8. ASSUME NEW j \in Jobs, NextFile(j) PROVE BusyInv' /\ QueueInv'
  <2> DEFINE es == <<Event("progress", j)>>
  <2>1. /\ phase[j] = "loop" /\ phase' = [phase EXCEPT ![j] = "file"] /\ "file" \in Phases
        /\ Emit(es) /\ UNCHANGED <<busy, jobs>>
    BY <1>8 DEF NextFile, window, Phases
  <2>2. es \in Seq(EventsOf(jobs))
    BY <1>7, <2>1, ShortSeq
  <2>3. \A i \in DOMAIN es : es[i].job = j /\ es[i].what # "finished"
    BY DEF Event
  <2> HIDE DEF es
  <2>4. QED
    BY <1>6, <2>1, <2>2, <2>3 DEF Active
<1>9. ASSUME NEW j \in Jobs, Finish(j) PROVE BusyInv' /\ QueueInv'
  <2> DEFINE es == <<Event("progress end", j), Event("finished", j), Event("quit", j)>>
  <2>1. /\ phase[j] = "loop" /\ phase' = [phase EXCEPT ![j] = "exec"] /\ "exec" \in Phases
        /\ Emit(es) /\ UNCHANGED <<busy, jobs>>
    BY <1>9 DEF Finish, window, Phases
  <2>2. es \in Seq(EventsOf(jobs))
    BY <1>7, <2>1, ShortSeq
  <2>a. DOMAIN es = 1 .. 3
    OBVIOUS
  <2>b. /\ es[1].what = "progress end" /\ es[2].what = "finished" /\ es[3].what = "quit"
        /\ es[1].job = j /\ es[2].job = j /\ es[3].job = j
    BY DEF Event
  <2>3. /\ \A i \in DOMAIN es : es[i].job = j
        /\ \A i \in DOMAIN es : es[i].what = "finished" =>
             \A k \in DOMAIN es : k > i => es[k].what \in Late
    <3> HIDE DEF es
    <3>1. \A i \in DOMAIN es : i = 1 \/ i = 2 \/ i = 3
      BY <2>a
    <3>2. \A i \in DOMAIN es : es[i].job = j
      BY <2>b, <3>1
    <3>3. \A i \in DOMAIN es : es[i].what = "finished" => i = 2
      BY <2>b, <3>1
    <3>4. \A i \in DOMAIN es : i > 2 => es[i].what \in Late
      <4>1. \A i \in DOMAIN es : i > 2 => i = 3
        BY <3>1
      <4>2. es[3].what \in Late
        BY <2>b DEF Late
      <4>3. QED
        BY <4>1, <4>2
    <3>5. QED
      BY <3>2, <3>3, <3>4
  <2> HIDE DEF es
  <2>4. QED
    BY <1>6, <2>1, <2>2, <2>3 DEF Active
<1>10. ASSUME NEW j \in Jobs, UnknownProfile(j) PROVE BusyInv' /\ QueueInv'
  <2> DEFINE es == <<Event("finished", j), Event("quit", j)>>
  <2>1. /\ phase[j] = "starting" /\ phase' = [phase EXCEPT ![j] = "unknown"]
        /\ "unknown" \in Phases /\ Emit(es) /\ UNCHANGED <<busy, jobs>>
    BY <1>10 DEF UnknownProfile, window, Phases
  <2>2. es \in Seq(EventsOf(jobs))
    BY <1>7, <2>1, ShortSeq
  <2>a. DOMAIN es = 1 .. 2
    OBVIOUS
  <2>b. /\ es[1].what = "finished" /\ es[2].what = "quit"
        /\ es[1].job = j /\ es[2].job = j
    BY DEF Event
  <2>3. /\ \A i \in DOMAIN es : es[i].job = j
        /\ \A i \in DOMAIN es : es[i].what = "finished" =>
             \A k \in DOMAIN es : k > i => es[k].what \in Late
    <3> HIDE DEF es
    <3>1. \A i \in DOMAIN es : i = 1 \/ i = 2
      BY <2>a
    <3>2. \A i \in DOMAIN es : es[i].job = j
      BY <2>b, <3>1
    <3>3. \A i \in DOMAIN es : es[i].what = "finished" => i = 1
      BY <2>b, <3>1
    <3>4. \A i \in DOMAIN es : i > 1 => es[i].what \in Late
      <4>1. \A i \in DOMAIN es : i > 1 => i = 2
        BY <3>1
      <4>2. es[2].what \in Late
        BY <2>b DEF Late
      <4>3. QED
        BY <4>1, <4>2
    <3>5. QED
      BY <3>2, <3>3, <3>4
  <2> HIDE DEF es
  <2>4. QED
    BY <1>6, <2>1, <2>2, <2>3 DEF Active
<1>11. ASSUME NEW j \in Jobs, ThreadEnds(j) PROVE BusyInv' /\ QueueInv'
  <2> DEFINE es == <<Event("thread finished", j)>>
  <2>1. /\ phase[j] \in {"exec", "unknown"} /\ phase' = [phase EXCEPT ![j] = "gone"]
        /\ "gone" \in Phases /\ Emit(es) /\ UNCHANGED <<busy, jobs>>
    BY <1>11 DEF ThreadEnds, window, Phases
  <2>2. es \in Seq(EventsOf(jobs))
    BY <1>7, <2>1, ShortSeq
  <2>3. \A i \in DOMAIN es : es[i].what \in Late
    <3>1. es[1].what = "thread finished"
      BY DEF Event
    <3>2. \A i \in DOMAIN es : i = 1
      OBVIOUS
    <3> HIDE DEF es
    <3>3. QED
      BY <3>1, <3>2 DEF Late
  <2> HIDE DEF es
  <2>4. QED
    BY <1>6, <2>1, <2>2, <2>3
<1> DEFINE Same == UNCHANGED <<busy, jobs, phase, queue>>
<1>12. ASSUME NEW s \in Sessions, Ask(s) PROVE Same
  BY <1>12 DEF Ask, job
<1>13. ASSUME NEW p \in Profiles, ChooseProfile(p) PROVE Same
  BY <1>13 DEF ChooseProfile, job
<1>14. ASSUME SelectRow \/ Dismiss \/ CancelWork \/ CloseWindow \/ DestroySession
              \/ UNCHANGED vars
       PROVE Same
  BY <1>14 DEF SelectRow, Dismiss, CancelWork, CloseWindow, DestroySession, vars, window, job
<1>15. ASSUME NEW j \in Jobs, Throw(j) PROVE Same
  BY <1>15 DEF Throw, window, job
<1>16. ASSUME HandleProgress \/ HandleQuit \/ HandleThreadFinished
       PROVE /\ \E w \in {"progress", "progress end", "quit", "thread finished"} : Handle(w)
             /\ UNCHANGED <<busy, jobs, phase>>
  BY <1>16 DEF HandleProgress, HandleQuit, HandleThreadFinished, window, job
<1>17. QED
  BY <1>1, <1>2, <1>3, <1>4, <1>5, <1>8, <1>9, <1>10, <1>11, <1>12, <1>13, <1>14, <1>15,
     <1>16 DEF Next, Events, Worker

-----------------------------------------------------------------------------
(* The pages of an idle window. *)

\* A job makes stale what its handler reloads, and selections and choices of a
\* profile keep what is current.
LEMMA PagesStep == Inv /\ [Next]_vars => PagesInv'
<1> SUFFICES ASSUME Inv, [Next]_vars PROVE PagesInv'
  OBVIOUS
<1>0. TypeOK /\ ModalInv /\ JobInv /\ BusyInv /\ QueueInv /\ PagesInv
  BY DEF Inv
<1>a. /\ shown \in Views /\ tables \in [Sessions -> Nat] /\ kind \in [Jobs -> Sessions]
      /\ jobs \in 0 .. MaxJobs /\ MaxJobs \in Nat
  BY <1>0, SessionAssumption, Zenon DEF TypeOK
<1>b. /\ tables["import"] \in Nat /\ tables["process"] \in Nat /\ shown.audit \in Nat
      /\ \A l, a : IsCurrent(shown, l, a) => a = shown.audit
  BY <1>a DEF Sessions, Views, IsCurrent
<1> DEFINE Same == UNCHANGED <<shown, tables, busy, label, bar, kind, jobs>>
<1>1. CASE Same
  BY <1>0, <1>1 DEF PagesInv
<1>2. ASSUME NEW s \in Sessions, Accept(s) PROVE PagesInv'
  <2>1. ~busy /\ busy' = TRUE /\ UNCHANGED <<shown, tables>>
    BY <1>0, <1>2 DEF Accept, ModalInv
  <2>2. IsCurrent(shown, tables["import"], tables["process"])
        /\ shown.audit = tables["process"]
    BY <1>0, <1>b, <2>1 DEF PagesInv
  <2>3. /\ busy' /\ shown'.audit = tables'["process"]
        /\ IsCurrent(shown', tables'["import"], shown'.audit)
    BY <2>1, <2>2
  <2>4. QED
    BY <2>3 DEF PagesInv
<1>3. ASSUME NEW p \in Profiles, ChooseProfile(p) PROVE PagesInv'
  <2>1. /\ ~busy /\ busy' = busy /\ label' = label /\ bar' = bar /\ tables' = tables
        /\ shown' = Choose(shown, p)
    BY <1>3 DEF ChooseProfile
  <2>2. /\ label = "Ready" /\ bar = "reset"
        /\ IsCurrent(shown, tables["import"], tables["process"])
    BY <1>0, <2>1 DEF PagesInv
  <2>3. IsCurrent(Choose(shown, p), tables["import"], tables["process"])
    BY <1>a, <1>b, <2>2, ChooseKeeps
  <2>4. QED
    BY <2>1, <2>2, <2>3 DEF PagesInv
<1>4. CASE SelectRow
  <2>1. UNCHANGED <<tables, busy, label, bar, kind, jobs>> /\ shown' = Select(shown)
    BY <1>4 DEF SelectRow, job
  <2>2. /\ shown'.audit = shown.audit
        /\ \A l \in Nat, a \in Nat : IsCurrent(shown, l, a) => IsCurrent(shown', l, a)
    BY <1>a, <2>1, SelectKeeps
  <2>3. QED
    BY <1>0, <1>b, <2>1, <2>2 DEF PagesInv
<1>5. CASE CancelWork
  <2>1. busy /\ UNCHANGED <<shown, tables, busy, kind, jobs>>
    BY <1>5 DEF CancelWork
  <2>2. QED
    BY <1>0, <2>1 DEF PagesInv
<1>6. CASE HandleProgress
  <2>1. PICK w \in {"progress", "progress end"} : Handle(w)
    BY <1>6 DEF HandleProgress
  <2>2. 1 \in DOMAIN queue /\ queue[1].what \notin Late
    BY <1>0, <2>1, HeadEvent DEF Late
  <2>3. busy
    BY <1>0, <2>2 DEF QueueInv
  <2>4. UNCHANGED <<shown, tables, busy, kind, jobs>>
    BY <1>6 DEF HandleProgress, job
  <2>5. QED
    BY <1>0, <2>3, <2>4 DEF PagesInv
<1>7. CASE HandleFinished
  <2>1. /\ 1 \in DOMAIN queue /\ queue[1].what = "finished" /\ Subject = queue[1].job
        /\ kind[Subject] \in Sessions
    BY <1>0, <1>7, HeadEvent DEF HandleFinished
  <2>2. busy /\ Subject = jobs
    BY <1>0, <2>1 DEF QueueInv, Late
  <2>3. busy' = FALSE /\ label' = "Ready" /\ bar' = "reset" /\ tables' = tables
    BY <1>7 DEF HandleFinished
  <2>4. CASE kind[Subject] = "process"
    <3>1. shown' = Processed(shown, tables["import"], tables["process"])
      BY <1>7, <2>4 DEF HandleFinished
    <3>2. IsCurrent(shown, tables["import"], shown.audit)
      BY <1>0, <2>2, <2>4 DEF PagesInv
    <3>3. IsCurrent(shown', tables["import"], tables["process"])
      BY <1>a, <1>b, <3>1, <3>2, ProcessedIsCurrent
    <3>4. QED
      BY <2>3, <3>3 DEF PagesInv
  <2>5. CASE kind[Subject] = "import"
    <3>1. shown' = Imported(shown, tables["import"])
      BY <1>7, <2>5 DEF HandleFinished
    <3>2. shown.audit = tables["process"]
      BY <1>0, <2>2, <2>5 DEF PagesInv
    <3>3. IsCurrent(shown', tables["import"], tables["process"])
      BY <1>a, <1>b, <3>1, <3>2, ImportedIsCurrent
    <3>4. QED
      BY <2>3, <3>3 DEF PagesInv
  <2>6. QED
    BY <2>1, <2>4, <2>5 DEF Sessions
<1>8. ASSUME NEW j \in Jobs, FileDone(j) PROVE PagesInv'
  <2>1. j = jobs /\ busy /\ kind[j] \in Sessions
    BY <1>0, <1>a, <1>8 DEF FileDone, BusyInv, Active
  <2>2. UNCHANGED <<shown, busy, kind, jobs>>
    BY <1>8 DEF FileDone, window
  <2>3. PICK n \in Nat : tables' = [tables EXCEPT ![kind[j]] = n]
    <3>1. tables[kind[j]] \in Nat
      BY <1>a, <2>1
    <3>2. tables[kind[j]] + 1 \in Nat
      BY <3>1
    <3>3. \/ tables' = [tables EXCEPT ![kind[j]] = tables[kind[j]]]
          \/ tables' = [tables EXCEPT ![kind[j]] = tables[kind[j]] + 1]
      BY <1>8 DEF FileDone
    <3>4. QED
      BY <3>1, <3>2, <3>3
  <2>4. /\ kind[j] = "import" => tables'["process"] = tables["process"]
        /\ kind[j] = "process" => tables'["import"] = tables["import"]
    BY <1>a, <2>3 DEF Sessions
  <2>5. QED
    BY <1>0, <2>1, <2>2, <2>4 DEF PagesInv
<1>9. ASSUME NEW s \in Sessions, Ask(s) PROVE Same
  BY <1>9 DEF Ask, job
<1>10. ASSUME Dismiss \/ CloseWindow \/ DestroySession \/ UNCHANGED vars PROVE Same
  BY <1>10 DEF Dismiss, CloseWindow, DestroySession, vars, window, job
<1>11. ASSUME HandleQuit \/ HandleThreadFinished PROVE Same
  BY <1>11 DEF HandleQuit, HandleThreadFinished, window, job
<1>12. ASSUME NEW j \in Jobs,
              Run(j) \/ UnknownProfile(j) \/ NextFile(j) \/ Finish(j) \/ ThreadEnds(j)
              \/ Throw(j)
       PROVE Same
  BY <1>12 DEF Run, UnknownProfile, NextFile, Finish, ThreadEnds, Throw, window, job
<1> HIDE DEF Same
<1>13. QED
  BY <1>1, <1>2, <1>3, <1>4, <1>5, <1>6, <1>7, <1>8, <1>9, <1>10, <1>11, <1>12
  DEF Next, Events, Worker

\* Every reachable state satisfies the invariant.
LEMMA Invariance == Spec => []Inv
<1>1. Init => Inv
  BY InvInit
<1>2. Inv /\ [Next]_vars => Inv'
  BY TypeStep, ModalStep, JobStep, QueueStep, PagesStep DEF Inv
<1>3. QED
  BY <1>1, <1>2, PTL DEF Spec

-----------------------------------------------------------------------------
\* The window, the sessions and the queue keep their types.
THEOREM TypeCorrect == Spec => []TypeOK
<1>1. Inv => TypeOK
  BY DEF Inv
<1>2. QED
  BY Invariance, <1>1, PTL

\* WorkerSession::start never finds its session with a thread: no worker, and with
\* it no end of being busy, is lost, although the session is freed only after the
\* window has become ready.
THEOREM NoWorkerIsDiscarded == Spec => []NoWorkerDiscarded
<1>1. Inv => NoWorkerDiscarded
  BY DEF Inv, JobInv, NoWorkerDiscarded
<1>2. QED
  BY Invariance, <1>1, PTL

\* A job whose user did not press Cancel while it was at work goes through all its
\* files, whatever was cancelled before it.
THEOREM JobsComplete == Spec => []UncancelledJobsComplete
<1>1. Inv => UncancelledJobsComplete
  BY DEF Inv, JobInv, UncancelledJobsComplete
<1>2. QED
  BY Invariance, <1>1, PTL

\* A window that is ready says so and shows the library, audit log and profile as
\* they are, on every page.
THEOREM IdleIsCurrent == Spec => []IdleWindowIsCurrent
<1>1. Inv => IdleWindowIsCurrent
  BY DEF Inv, PagesInv, IdleWindowIsCurrent
<1>2. QED
  BY Invariance, <1>1, PTL
=============================================================================
