----------------------------- MODULE LibraryViews -----------------------------
(***************************************************************************)
(* The pages of MainWindow: the list (LibraryModel), the detail of the     *)
(* current row, the dashboard and the audit log.  Each is text made of the *)
(* database or of the list's rows and of the active profile, at the time   *)
(* it was made; a page is modelled as what it was made of.  The library is *)
(* a number that grows with every file an import adds, the audit log one   *)
(* that grows with every file that is processed.                           *)
(***************************************************************************)
EXTENDS Naturals

CONSTANTS Profiles, First, Nothing

ASSUME ViewsAssumption == First \in Profiles

Page == [rows : Nat, profile : Profiles]

Views == [profile : Profiles,           \* profileCombo_
          list : Page,                  \* LibraryModel::rows_, profile_
          current : BOOLEAN,            \* whether the list has a current row
          detail : Page \cup {Nothing}, \* Nothing: no track is shown
          dashboard : Page, audit : Nat]

PageOf(views) == [rows |-> views.list.rows, profile |-> views.profile]

\* reloadLibrary: resetting the model leaves the list without a current row, and
\* emits no selectionChanged.
ReloadLibrary(views, library) ==
  [views EXCEPT !.list = [rows |-> library, profile |-> views.profile],
                !.current = FALSE]

\* setProfile: the model's rows stay, their flags follow the profile.
SetProfile(views) == [views EXCEPT !.list = PageOf(views)]

\* reloadDetail, reloadDashboard, reloadAudit
ReloadDetail(views) ==
  [views EXCEPT !.detail = IF views.current THEN PageOf(views) ELSE Nothing]
ReloadDashboard(views) == [views EXCEPT !.dashboard = PageOf(views)]
ReloadAudit(views, audited) == [views EXCEPT !.audit = audited]

\* MainWindow's constructor, on a library that is empty.
Opened ==
  [profile |-> First, list |-> [rows |-> 0, profile |-> First], current |-> FALSE,
   detail |-> Nothing, dashboard |-> [rows |-> 0, profile |-> First], audit |-> 0]

\* onProfileChanged, onSelectionChanged
Choose(views, profile) ==
  ReloadDashboard(ReloadDetail(SetProfile([views EXCEPT !.profile = profile])))
Select(views) == ReloadDetail([views EXCEPT !.current = TRUE])

\* Mutant: the detail page is left alone, as it is after processing.
ImportedNoDetail(views, library) == ReloadDashboard(ReloadLibrary(views, library))

\* onImportFinished, onProcessFinished
Imported(views, library) == ReloadDetail(ReloadDashboard(ReloadLibrary(views, library)))
Processed(views, library, audited) ==
  ReloadDashboard(ReloadAudit(ReloadLibrary(views, library), audited))

\* Whatever page there is was made of this library, audit log and profile.
IsCurrent(views, library, audited) ==
  LET page == [rows |-> library, profile |-> views.profile] IN
  /\ views.list = page /\ views.dashboard = page
  /\ views.detail \in {page, Nothing}
  /\ views.audit = audited
=============================================================================
