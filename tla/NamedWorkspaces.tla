-------------------------- MODULE NamedWorkspaces --------------------------
(***************************************************************************)
(* The workspaces the user names: saving, applying, renaming, overwriting, *)
(* deleting and resetting them (NamedWorkspaceService) through the modal   *)
(* dialogs of the main window, and what the catalog codec leaves of them   *)
(* at the next start.  A layout is a model value; NoTools is the one with  *)
(* every tool closed, which the normalizer does not accept.  While a       *)
(* dialog asks, the user cannot reach another, but the layout can still    *)
(* change: an import that finishes opens the score view.                   *)
(***************************************************************************)
EXTENDS Integers, Sequences, SequencesExt

CONSTANTS
  Layouts, NoTools, StartLayout,   \* StartLayout: that of Pitch Practice
  BuiltInIds,        \* ids of the built-in workspaces
  BuiltInLayout,     \* function from BuiltInIds to their layouts
  StartId,           \* the id of Pitch Practice
  Ids,               \* ids the generator draws: a bound on saves
  Names, AsciiFolded,   \* names with 1 to 80 characters, and how the service folds them
  Reserved,          \* folded names of the built-in workspaces
  MaximumNamed, NoId

VARIABLES
  layout,    \* the live workspace
  active, source,   \* WorkspaceCatalog::active, activeSource
  named,     \* WorkspaceCatalog::named
  dialog     \* the question on screen

catalog == <<active, source, named>>
workspaces == <<layout, active, source, named, dialog>>

CatalogAssumption ==
  /\ StartLayout \in Layouts /\ StartId \in BuiltInIds
  /\ \A id \in BuiltInIds : BuiltInLayout[id] \in Layouts
  /\ Ids \cap BuiltInIds = {} /\ MaximumNamed \in Nat

NoDialog == [asks |-> "nothing"]

Entry(id, name, snapshot) == [id |-> id, name |-> name, snapshot |-> snapshot]
NamedIds == {named[i].id : i \in DOMAIN named}

\* findNamedById, findNamedByName: 0 when there is none.
IndexOfId(id) == SelectInSeq(named, LAMBDA w : w.id = id)
IndexOfName(name) == SelectInSeq(named, LAMBDA w : AsciiFolded[w.name] = AsciiFolded[name])

\* activeNamedWorkspace: the entry the menu's commands are about, 0 for none.
ActiveNamed == IndexOfId(source)

Ask(question) == dialog' = question /\ UNCHANGED layout

Init ==
  /\ layout = StartLayout /\ active = StartLayout /\ source = StartId
  /\ named = <<>> /\ dialog = NoDialog

-----------------------------------------------------------------------------

\* The user, or a finished import, changes the live workspace.
ChangeLayout ==
  /\ layout' \in Layouts \ {layout}
  /\ UNCHANGED <<active, source, named, dialog>>

Apply(id, snapshot) ==
  /\ dialog = NoDialog
  /\ layout' = snapshot /\ active' = snapshot /\ source' = id
  /\ UNCHANGED <<named, dialog>>

\* save: over the entry of that name, once confirmed, or as a new entry.
SaveOver(i, name, snapshot) ==
  /\ named' = [named EXCEPT ![i].name = name, ![i].snapshot = snapshot]
  /\ source' = named[i].id

SaveNew(name) ==
  /\ Len(named) < MaximumNamed
  /\ \E id \in Ids \ NamedIds :
       /\ named' = Append(named, Entry(id, name, layout))
       /\ source' = id

SaveNamedWorkspace(name) ==
  /\ dialog = NoDialog
  /\ AsciiFolded[name] \notin Reserved
  /\ active' = layout
  /\ IF IndexOfName(name) = 0 THEN SaveNew(name) /\ UNCHANGED <<layout, dialog>>
     ELSE /\ Ask([asks |-> "save", name |-> name, about |-> named[IndexOfName(name)].id])
          /\ UNCHANGED <<source, named>>

\* rename takes the place of another entry: that one goes, and with it the
\* active source if it was its.
RenameOver(i, j, name) ==
  /\ named' = RemoveAt([named EXCEPT ![i].name = name], j)
  /\ source' = IF source = named[i].id THEN source
               ELSE IF source = named[j].id THEN NoId ELSE source
  /\ UNCHANGED active

RenameNamedWorkspace(name) ==
  /\ dialog = NoDialog
  /\ ActiveNamed # 0
  /\ AsciiFolded[name] \notin Reserved
  /\ LET i == ActiveNamed
         j == IndexOfName(name)
     IN IF j \in {0, i}
        THEN named' = [named EXCEPT ![i].name = name] /\ UNCHANGED <<layout, active, source, dialog>>
        ELSE Ask([asks |-> "rename", name |-> name, about |-> named[j].id]) /\ UNCHANGED catalog

\* confirmOverwriteWorkspace, confirmDeleteWorkspace, confirmResetWorkspace.
Confirmation(asks) ==
  /\ dialog = NoDialog
  /\ ActiveNamed # 0 \/ asks = "reset"
  /\ Ask([asks |-> asks, about |-> source])
  /\ UNCHANGED catalog

Cancel == dialog # NoDialog /\ Ask(NoDialog) /\ UNCHANGED catalog

\* Mutation: the confirmed save writes what was captured when it asked.
AgreeSaveStale ==
  /\ dialog.asks = "save"
  /\ SaveOver(IndexOfName(dialog.name), dialog.name, active)
  /\ UNCHANGED <<layout, active>>

\* Each confirmed operation starts over: the workspace is captured again and
\* the entry is looked up again.
AgreeSave ==
  /\ dialog.asks = "save"
  /\ active' = layout
  /\ SaveOver(IndexOfName(dialog.name), dialog.name, layout)
  /\ UNCHANGED layout

AgreeRename ==
  /\ dialog.asks = "rename"
  /\ RenameOver(ActiveNamed, IndexOfName(dialog.name), dialog.name)
  /\ UNCHANGED layout

AgreeOverwrite ==
  /\ dialog.asks = "overwrite"
  /\ active' = layout
  /\ named' = [named EXCEPT ![IndexOfId(dialog.about)].snapshot = layout]
  /\ source' = dialog.about
  /\ UNCHANGED layout

\* Mutation: the deleted entry stays the active source.
AgreeDeleteKeepingSource ==
  /\ dialog.asks = "delete"
  /\ named' = RemoveAt(named, IndexOfId(dialog.about))
  /\ UNCHANGED <<layout, active, source>>

AgreeDelete ==
  /\ dialog.asks = "delete"
  /\ named' = RemoveAt(named, IndexOfId(dialog.about))
  /\ source' = IF source = dialog.about THEN NoId ELSE source
  /\ UNCHANGED <<layout, active>>

AgreeReset ==
  /\ dialog.asks = "reset"
  /\ layout' = StartLayout /\ active' = StartLayout /\ source' = StartId
  /\ UNCHANGED named

Agree ==
  /\ dialog' = NoDialog
  /\ AgreeSave \/ AgreeRename \/ AgreeOverwrite \/ AgreeDelete \/ AgreeReset

\* decodeNamed, over the entries in their order: one without tools is dropped.
Decoded(entries) ==
  LET upTo[i \in 0..Len(entries)] ==
        IF i = 0 THEN <<>>
        ELSE IF entries[i].snapshot = NoTools THEN upTo[i - 1]
        ELSE Append(upTo[i - 1], entries[i])
  IN upTo[Len(entries)]

\* The catalog as the codec decodes it at the next start: an active workspace
\* without tools gives way to Pitch Practice, a named one is dropped, and a
\* source that names nothing is reset.
Reopened(snapshot, from, entries) ==
  LET kept == Decoded(entries)
      known == BuiltInIds \union {kept[i].id : i \in DOMAIN kept}
  IN [active |-> IF snapshot = NoTools THEN StartLayout ELSE snapshot,
      source |-> IF snapshot # NoTools /\ from \in known THEN from ELSE NoId,
      named |-> kept]

\* The application is closed, which captures the workspace, and opened again.
Restart ==
  /\ dialog = NoDialog
  /\ LET next == Reopened(layout, source, named)
     IN /\ layout' = next.active /\ active' = next.active
        /\ source' = next.source /\ named' = next.named
  /\ UNCHANGED dialog

Next ==
  \/ ChangeLayout
  \/ \E id \in BuiltInIds : Apply(id, BuiltInLayout[id])
  \/ \E i \in DOMAIN named : Apply(named[i].id, named[i].snapshot)
  \/ \E name \in Names : SaveNamedWorkspace(name) \/ RenameNamedWorkspace(name)
  \/ \E asks \in {"overwrite", "delete", "reset"} : Confirmation(asks)
  \/ Cancel
  \/ Agree
  \/ Restart

Spec == Init /\ [][Next]_workspaces

-----------------------------------------------------------------------------
(* Properties.                                                             *)

\* The catalog stays one the user can tell apart and the menu can point into:
\* ids and folded names are unique, none is a built-in's, and the active
\* source names an entry that exists, through every rename over another
\* entry, deletion and restart.
CatalogWellFormed ==
  /\ IsInjective([i \in DOMAIN named |-> named[i].id])
  /\ IsInjective([i \in DOMAIN named |-> AsciiFolded[named[i].name]])
  /\ \A i \in DOMAIN named :
       AsciiFolded[named[i].name] \notin Reserved /\ named[i].id \notin BuiltInIds
  /\ source \in BuiltInIds \union NamedIds \union {NoId}
  /\ Len(named) <= MaximumNamed /\ active \in Layouts /\ layout \in Layouts

\* The entry is still there with its layout; or it had no tools, at a restart; or it is
\* the one the answered question was about, and holds the layout on screen if it is there.
LeftOrConfirmed(was) ==
  LET now == {named'[j] : j \in {k \in DOMAIN named' : named'[k].id = was.id}}
  IN \/ \E w \in now : w.snapshot = was.snapshot
     \/ was.snapshot = NoTools
     \/ /\ dialog # NoDialog /\ dialog' = NoDialog /\ dialog.about = was.id
        /\ \A w \in now : w.snapshot = layout

\* A saved layout changes or disappears only when the user agreed to a question
\* about that very entry, or, without tools, at a restart; and what a confirmed
\* save stores is the layout on screen, whatever changed while it asked.
OnlyTheConfirmedIsTouched ==
  [][\A i \in DOMAIN named : LeftOrConfirmed(named[i])]_workspaces

\* What the layout restoration requires: an orderly restart keeps the named
\* workspaces the user has saved.
RestartKeepsNamedWorkspaces == [][Restart => named' = named]_workspaces

=============================================================================
