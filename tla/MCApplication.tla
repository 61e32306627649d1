--------------------------- MODULE MCApplication ---------------------------
(***************************************************************************)
(* The parts of the application shell for TLC: the test control channel,   *)
(* the workspaces the user names, the settings over their sessions and the *)
(* score import.  Each is a state machine of its own; a behaviour          *)
(* exercises one of them.                                                  *)
(***************************************************************************)
EXTENDS MCTestControl

CONSTANTS
  NoId, BuiltInIds, BuiltInLayout, StartId, Ids, Names, AsciiFolded, Reserved, MaximumNamed,
  Layouts, NoTools, StartLayout,
  Prefs, Keyboards, DefaultValue, MaxStarts

VARIABLES
  exercised,
  layout, active, source, named, dialog,
  disk, props, dirty, live, autosave, running, promised,
  importThread, started, results, openScore, opened, window

workspaces == <<layout, active, source, named, dialog>>
session == <<disk, props, dirty, live, autosave, running, promised>>
import == <<importThread, started, results, openScore, opened, window>>

Named == INSTANCE NamedWorkspaces
Session == INSTANCE SettingsSession WITH kept <- promised
Import == INSTANCE ScoreImport WITH thread <- importThread, score <- openScore

ASSUME ApplicationAssumption ==
  Import!ImportAssumption /\ Session!SettingsAssumption /\ Named!CatalogAssumption

FoldedNames == [n \in Names |-> IF n = "Scales" THEN "scales" ELSE n]
TwoBuiltIns == [id \in BuiltInIds |-> IF id = "vocal-warm-up" THEN "duo" ELSE "tuner"]

ApplicationInit ==
  /\ exercised \in {"control", "named", "session", "import"}
  /\ Init /\ Named!Init /\ Import!Init
  /\ Session!Init /\ (exercised # "session" => disk = Session!NoFile)

ApplicationNext ==
  /\ UNCHANGED exercised
  /\ \/ exercised = "control" /\ Next /\ UNCHANGED <<workspaces, session, import>>
     \/ exercised = "named" /\ Named!Next /\ UNCHANGED <<vars, session, import>>
     \/ exercised = "session" /\ Session!Next /\ UNCHANGED <<vars, workspaces, import>>
     \/ exercised = "import" /\ Import!Next /\ UNCHANGED <<vars, workspaces, session>>
     \* The application is gone, and nobody writes to it any more.
     \/ exercised = "control" /\ loop = "gone" /\ UNCHANGED <<vars, workspaces, session, import>>

ApplicationSpec ==
  ApplicationInit /\ [][ApplicationNext]_<<exercised, vars, workspaces, session, import>>

CatalogWellFormed == Named!CatalogWellFormed
OnlyTheConfirmedIsTouched == Named!OnlyTheConfirmedIsTouched
NewerFileKept == Session!NewerFileKept
KeptAcrossRestart == Session!KeptAcrossRestart
LastOpenedIsCurrent == Import!LastOpenedIsCurrent

\* A documented behaviour that the code does not have.
InvitationChoiceKept == Session!InvitationChoiceKept
=============================================================================
