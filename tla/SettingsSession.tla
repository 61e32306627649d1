-------------------------- MODULE SettingsSession --------------------------
(***************************************************************************)
(* The settings of the desktop application over its sessions: what the     *)
(* file holds, what the process holds of the file (juce::PropertiesFile),  *)
(* what is live in the window, and when one becomes the other.  A launch   *)
(* loads, migrates or recovers the file; several commands save it; an      *)
(* import replaces live and stored settings as one transaction; a quit     *)
(* saves, a crash does not.  Every write of the file can fail, and none    *)
(* but the import's is looked at.                                          *)
(*                                                                         *)
(* prefs stands for the theme, audio, tuner and window settings; keyboard  *)
(* for the MIDI device and its pedal threshold, which a transfer file does *)
(* not carry; disabled for the keys of the file the settings do not own:   *)
(* feedback invitations, drafts, installation id.                          *)
(***************************************************************************)
EXTENDS Naturals

CONSTANTS Prefs, Keyboards, DefaultValue   \* DefaultValue belongs to both

VARIABLES
  disk,      \* the settings file
  props,     \* the PropertiesFile of the running process
  dirty,     \* PropertiesFile::needsWriting
  live,      \* the settings in force
  autosave,  \* automaticSettingsSaveEnabled
  running,
  kept       \* what the last quit wrote, to say what a restart owes the user

session == <<disk, props, dirty, live, autosave, running, kept>>

SettingsAssumption == DefaultValue \in Prefs /\ DefaultValue \in Keyboards

Schemas == {"none", "broken", "older", "current", "newer"}
Arrangements == {"pitch-practice", "mine", "imported", "bare", "garbled", "later"}

File(schema, prefs, keyboard, workspaces, disabled) ==
  [schema |-> schema, prefs |-> prefs, keyboard |-> keyboard, workspaces |-> workspaces,
   disabled |-> disabled]

Files ==
  [schema : Schemas, prefs : Prefs, keyboard : Keyboards, workspaces : Arrangements,
   disabled : BOOLEAN]

NoFile == File("none", DefaultValue, DefaultValue, "pitch-practice", FALSE)

Live(prefs, keyboard, workspaces, disabled) ==
  [prefs |-> prefs, keyboard |-> keyboard, workspaces |-> workspaces, disabled |-> disabled]

\* AppSettings::store: every owned value, under the current schema.
Stored(file, now) ==
  File("current", now.prefs, now.keyboard, now.workspaces, file.disabled)

\* Every tool closed is an arrangement the normalizer replaces; a catalog can
\* fail to parse, or be of a later version.
Usable(workspaces) == workspaces \in {"pitch-practice", "mine", "imported"}

Newer(file) == file.schema = "newer" \/ (file.schema = "current" /\ file.workspaces = "later")

Recovered(file) ==
  file.schema = "broken" \/ (file.schema = "current" /\ file.workspaces \in {"bare", "garbled"})

\* Mutation: what cannot be read in part is not read at all.
LoadedOrNothing(file) ==
  IF Recovered(file) \/ file.schema \in {"none", "newer"}
  THEN Live(DefaultValue, DefaultValue, "pitch-practice", FALSE)
  ELSE Live(file.prefs, file.keyboard,
            IF file.schema = "current" /\ Usable(file.workspaces) THEN file.workspaces
            ELSE "pitch-practice", file.disabled)

\* AppSettings::load.
Loaded(file) ==
  CASE file.schema \in {"none", "newer"} ->
         Live(DefaultValue, DefaultValue, "pitch-practice", file.disabled)
    [] file.schema = "broken" -> Live(DefaultValue, DefaultValue, "pitch-practice", FALSE)
    [] file.schema = "older" ->
         Live(file.prefs, file.keyboard, "pitch-practice", file.disabled)
    [] file.schema = "current" ->
         Live(file.prefs, file.keyboard,
              IF Usable(file.workspaces) THEN file.workspaces ELSE "pitch-practice", file.disabled)

Nothing == Live(DefaultValue, DefaultValue, "nothing", FALSE)

-----------------------------------------------------------------------------

\* saveIfNeeded: it may fail, and then the process still owes it.
Save(file, changed) ==
  \/ /\ disk' = IF changed THEN file ELSE disk
     /\ props' = file /\ dirty' = FALSE
  \/ /\ changed
     /\ props' = file /\ dirty' = TRUE
     /\ UNCHANGED disk

Written(file) == Save(file, dirty \/ file # props)

Init ==
  /\ disk \in Files
  /\ disk.schema \in {"none", "broken"} => disk = [NoFile EXCEPT !.schema = disk.schema]
  /\ props = NoFile /\ dirty = FALSE /\ autosave = FALSE
  /\ live = Loaded(NoFile) /\ running = FALSE /\ kept = Nothing

\* loadSettings.  A file that cannot be used is moved aside and cleared, so
\* that what is stored back holds only the settings the application owns.
Launch ==
  /\ ~running
  /\ running' = TRUE
  /\ live' = Loaded(disk)
  /\ autosave' = ~Newer(disk)
  /\ kept' = Nothing
  /\ CASE Recovered(disk) ->
            LET fresh == Stored(NoFile, Loaded(disk))
            IN props' = fresh /\ \/ disk' = fresh /\ dirty' = FALSE
                                 \/ disk' = NoFile /\ dirty' = TRUE
       [] disk.schema = "older" ->
            LET migrated == Stored(disk, Loaded(disk))
            IN props' = migrated /\ \/ disk' = migrated /\ dirty' = FALSE
                                    \/ disk' = disk /\ dirty' = TRUE
       [] OTHER -> disk' = disk /\ props' = disk /\ dirty' = FALSE

\* A preference or the workspace changes: live only.
ChangePreference(prefs) ==
  /\ running
  /\ live' = [live EXCEPT !.prefs = prefs]
  /\ UNCHANGED <<disk, props, dirty, autosave, running, kept>>

ArrangeWorkspace(workspaces) ==
  /\ running
  /\ live' = [live EXCEPT !.workspaces = workspaces]
  /\ UNCHANGED <<disk, props, dirty, autosave, running, kept>>

\* Mutation: a save of the application's own does not ask whether it may.
SaveAlways(now) == Written(Stored(props, now))

\* saveSettings(false).
SaveAutomatically(now) ==
  IF autosave THEN Written(Stored(props, now)) ELSE UNCHANGED <<disk, props, dirty>>

\* A workspace is applied, named, overwritten, deleted or reset.
CommandWorkspace(workspaces) ==
  /\ running
  /\ live' = [live EXCEPT !.workspaces = workspaces]
  /\ SaveAutomatically(live')
  /\ UNCHANGED <<autosave, running, kept>>

\* The settings window's keyboard and pedal controls.
ChooseKeyboard(keyboard) ==
  /\ running
  /\ live' = [live EXCEPT !.keyboard = keyboard]
  /\ SaveAutomatically(live')
  /\ UNCHANGED <<autosave, running, kept>>

\* Save settings: the user takes over a file of a newer version.
SaveExplicitly ==
  /\ running
  /\ Written(Stored(props, live))
  /\ autosave' = TRUE
  /\ UNCHANGED <<live, running, kept>>

\* setFeedbackInvitationsDisabled: one key, whatever the rest of the file is.
SetInvitations(disabled) ==
  /\ running
  /\ live' = [live EXCEPT !.disabled = disabled]
  /\ Written([props EXCEPT !.disabled = disabled])
  /\ UNCHANGED <<autosave, running, kept>>

\* The candidate as the transfer codec decodes it: without a keyboard.
Candidate(prefs, disabled) == Live(prefs, DefaultValue, "imported", disabled)

\* The import cannot be persisted: before or after what was owed is written.
\* The prior settings are applied again.
ImportFails(c) ==
  /\ \/ UNCHANGED <<disk, props, dirty>>
     \/ disk' = props /\ dirty' = FALSE /\ UNCHANGED props
  /\ UNCHANGED live

\* A temporary copy with the candidate replaces the file, then the process's
\* copy follows.  The live keyboard is left alone.
ImportSucceeds(c) ==
  LET imported == [Stored(props, c) EXCEPT !.disabled = c.disabled]
  IN /\ disk' = imported /\ props' = imported /\ dirty' = FALSE
     /\ live' = [c EXCEPT !.keyboard = live.keyboard]

ImportSettings(c) ==
  /\ running
  /\ ImportSucceeds(c) \/ ImportFails(c)
  /\ UNCHANGED <<autosave, running, kept>>

\* ~MainComponent: save, then close the file, which saves what is still owed.
Quit ==
  /\ running
  /\ running' = FALSE
  /\ SaveAutomatically(live)
  /\ kept' = IF dirty' \/ ~autosave THEN Nothing ELSE live
  /\ UNCHANGED <<live, autosave>>

Crash ==
  /\ running
  /\ running' = FALSE /\ kept' = Nothing
  /\ UNCHANGED <<disk, props, dirty, live, autosave>>

Next ==
  \/ Launch \/ SaveExplicitly \/ Quit \/ Crash
  \/ \E p \in Prefs : ChangePreference(p)
  \/ \E w \in {"mine", "bare"} : ArrangeWorkspace(w) \/ CommandWorkspace(w)
  \/ \E k \in Keyboards : ChooseKeyboard(k)
  \/ \E b \in BOOLEAN : SetInvitations(b)
  \/ \E p \in Prefs, b \in BOOLEAN : ImportSettings(Candidate(p, b))

Spec == Init /\ [][Next]_session

-----------------------------------------------------------------------------
(* Properties.                                                             *)

\* A file that a newer version of the application wrote keeps every owned value
\* until the user saves explicitly or imports, through every automatic save,
\* recovery and invitation choice of every session.  Automatic saves are on
\* with such a file only when an explicit save could not be written.
NewerFileKept ==
  [][Newer(disk) =>
       /\ Launch => ~autosave'
       /\ \/ disk' = [disk EXCEPT !.disabled = disk'.disabled]
          \/ autosave'
          \/ live'.workspaces = "imported"
    ]_session

\* What an orderly quit wrote is in force after the next launch: preferences
\* and keyboard even when the workspace is one the launch has to replace.
KeptAcrossRestart ==
  [][Launch /\ kept # Nothing =>
       /\ live'.prefs = kept.prefs /\ live'.keyboard = kept.keyboard
       /\ live'.workspaces =
            IF Usable(kept.workspaces) THEN kept.workspaces ELSE "pitch-practice"
    ]_session

\* What the layout restoration requires: an unusable workspace is replaced
\* while independently valid settings, such as the invitations the user
\* declined, are preserved over restarts.
InvitationChoiceKept ==
  [][Launch /\ kept # Nothing => live'.disabled = kept.disabled]_session

=============================================================================
