------------------------- MODULE MidiInputService -------------------------
(***************************************************************************)
(* The MIDI input service and the list of keyboards on the MIDI page of    *)
(* the settings window.  The system lists keyboards by identifier; one     *)
(* that leaves and returns is a new port, also under an old identifier.    *)
(* Service and page run on the message thread, each handler whole except   *)
(* where it asks the system, which may change in between.                  *)
(***************************************************************************)
EXTENDS Integers, FiniteSets

CONSTANTS
  Identifiers, DeviceNames,
  NoDevice, NoName,               \* nothing at an identifier; no remembered name
  SettleTicks, OpenScanTicks, ClosedScanTicks,
  MaxPlugs                        \* bound of the model

VARIABLES
  present,    \* identifier -> name listed there, or NoDevice
  port,       \* identifier -> the latest port it stood for
  notified,   \* the system has told of every change so far
  chosen,     \* chosenIdentifier and chosenName
  openInput,  \* identifier and port, or Closed
  changePending, ticks, listMoved,
  listed, awaited,   \* a reconcile under way: its snapshot, and for whom
  devices, box       \* the list the page shows, and the entry it shows chosen

world == <<present, port, notified>>
selection == <<chosen, openInput>>
reconcile == <<listed, awaited>>
shown == <<devices, box>>
vars == <<world, selection, reconcile, shown, changePending, ticks, listMoved>>

\* An empty place is neither an identifier nor a name.
KeyboardAssumption == NoDevice \notin Identifiers \cup DeviceNames

Closed == [identifier |-> NoDevice, port |-> 0]
Nobody == [identifier |-> NoDevice, name |-> NoName]

idle == awaited = "nothing"   \* no handler is half way
connectionIsOpen == openInput # Closed /\ openInput.identifier = chosen.identifier

-----------------------------------------------------------------------------
(* The system                                                              *)

\* A keyboard appears at a free identifier, as a new port, or leaves.
PlugIn(i, name) ==
  /\ port[i] < MaxPlugs
  /\ present[i] = NoDevice
  /\ present' = [present EXCEPT ![i] = name]
  /\ port' = [port EXCEPT ![i] = @ + 1]
  /\ notified' = FALSE
  /\ UNCHANGED <<selection, reconcile, shown, changePending, ticks, listMoved>>

Unplug(i) ==
  /\ present[i] # NoDevice
  /\ present' = [present EXCEPT ![i] = NoDevice]
  /\ notified' = FALSE
  /\ UNCHANGED <<port, selection, reconcile, shown, changePending, ticks, listMoved>>

\* deviceListConnection: acted on once the list has been quiet for a while.
ListChanged ==
  /\ ~notified /\ idle
  /\ notified' = TRUE /\ changePending' = TRUE /\ ticks' = SettleTicks
  /\ UNCHANGED <<present, port, selection, reconcile, shown, listMoved>>

-----------------------------------------------------------------------------
(* The service                                                             *)

ResolveByIdentifier(choice, list) ==
  IF choice.identifier = NoDevice THEN NoDevice
  ELSE IF list[choice.identifier] # NoDevice THEN choice.identifier ELSE NoDevice

\* resolveSelectedDevice: the identifier while it carries the chosen name, or
\* the one identifier that does.
Resolve(choice, list) ==
  LET named == {i \in Identifiers : list[i] = choice.name}
  IN CASE choice.identifier = NoDevice -> NoDevice
       [] choice.identifier # NoDevice /\ list[choice.identifier] # NoDevice
            /\ choice.name \in {NoName, list[choice.identifier]} -> choice.identifier
       [] OTHER -> IF choice.name # NoName /\ Cardinality(named) = 1
                     THEN CHOOSE i \in named : TRUE ELSE NoDevice

\* The timer: a scan when its turn has come, more often while nothing is open.
Wait ==
  /\ idle /\ ticks > 0
  /\ ticks' = ticks - 1
  /\ UNCHANGED <<world, selection, reconcile, shown, changePending, listMoved>>

Scan ==
  /\ idle /\ ticks = 0
  /\ ticks' = IF connectionIsOpen THEN OpenScanTicks ELSE ClosedScanTicks
  /\ changePending' = FALSE
  /\ listed' = present
  /\ awaited' = IF changePending THEN "settled list" ELSE "scan"
  /\ UNCHANGED <<world, selection, shown, listMoved>>

\* The rest of reconcileDevice, after the list was read: close what is not the
\* selection or is not there, reopen it if the list has changed, open it if it
\* is there.  The system may refuse, and what it opens by an identifier is
\* whatever stands there by now.
Reconcile(refused) ==
  /\ ~idle
  /\ LET target == Resolve(chosen, listed)
         selected == openInput # Closed /\ target # NoDevice /\ openInput.identifier = target
         kept == selected /\ awaited # "settled list"
         opened == ~kept /\ target # NoDevice /\ ~refused /\ present[target] # NoDevice
     IN /\ openInput' = CASE kept -> openInput
                          [] opened -> [identifier |-> target, port |-> port[target]]
                          [] OTHER -> Closed
        /\ chosen' = IF opened THEN [chosen EXCEPT !.identifier = target] ELSE chosen
        /\ listMoved' = (listMoved \/ awaited = "settled list"
                           \/ (opened /\ chosen.identifier # target))
  /\ awaited' = "nothing"
  /\ UNCHANGED <<world, shown, changePending, ticks, listed>>

-----------------------------------------------------------------------------
(* The list on the MIDI page                                               *)

\* rebuildDeviceList, when the list has moved or the user asks for it: the
\* selection keeps its place while it is away.
RebuildDeviceList ==
  /\ idle
  /\ devices' = present
  /\ box' = CASE chosen.identifier = NoDevice -> "none"
              [] chosen.identifier # NoDevice /\ present[chosen.identifier] = NoDevice ->
                   "not connected"
              [] OTHER -> chosen.identifier
  /\ listMoved' = FALSE
  /\ UNCHANGED <<world, selection, reconcile, changePending, ticks>>

\* applySelection and selectDevice: another entry of the list, or none.  The
\* same identifier again only refreshes the name.
Choose(i) ==
  /\ idle /\ ~listMoved   \* the page looks ten times a second
  /\ i # box /\ i \in {"none"} \cup {j \in Identifiers : devices[j] # NoDevice}
  /\ LET choice == IF i = "none" THEN Nobody ELSE [identifier |-> i, name |-> devices[i]]
     IN /\ chosen' = choice
        /\ IF choice.identifier = chosen.identifier
             THEN UNCHANGED reconcile
             ELSE awaited' = "selection" /\ listed' = present
  /\ box' = i
  /\ UNCHANGED <<world, openInput, devices, changePending, ticks, listMoved>>

-----------------------------------------------------------------------------
Init ==
  /\ present \in [Identifiers -> DeviceNames \cup {NoDevice}]
  /\ port = [i \in Identifiers |-> 1] /\ notified = TRUE
  /\ chosen \in {Nobody} \cup [identifier : Identifiers, name : DeviceNames \cup {NoName}]
  /\ openInput = Closed /\ changePending = FALSE /\ ticks = 0 /\ listMoved = TRUE
  /\ listed = present /\ awaited = "nothing"
  /\ devices = present /\ box = "none"

Next ==
  \/ \E i \in Identifiers : Unplug(i) \/ \E name \in DeviceNames : PlugIn(i, name)
  \/ ListChanged \/ Wait \/ Scan \/ \E refused \in BOOLEAN : Reconcile(refused)
  \/ RebuildDeviceList
  \/ \E i \in Identifiers \cup {"none"} : Choose(i)

Spec == Init /\ [][Next]_vars

-----------------------------------------------------------------------------
\* Once every change of the list has been acted on, what is open is a keyboard
\* that is there, the very port that is there now, and the one that was chosen:
\* not its successor under an old identifier, and not a port that has died.
SettledInputIsTheChosenKeyboard ==
  notified /\ ~changePending /\ idle /\ openInput # Closed =>
    /\ openInput.identifier = chosen.identifier
    /\ openInput.port = port[chosen.identifier]
    /\ present[chosen.identifier] # NoDevice
    /\ chosen.name \in {NoName, present[chosen.identifier]}
=============================================================================
