---------------------------- MODULE TestControl ----------------------------
(***************************************************************************)
(* The test control channel (src/application/testcontrol,                  *)
(* MainComponentTestControl.cpp) and the harness at its other end          *)
(* (tools/scripts/testing_suite/driver.py).  The harness writes a command  *)
(* to a pipe and waits for its reply with a deadline; a thread of the      *)
(* application reads one line, posts it to the message thread and waits;   *)
(* the message thread does it and fulfils the promise.  Closing the window *)
(* ends the message loop, and what was posted after is never run.          *)
(* Names are as the vocabulary has them.  Left out: the fullscreen button, *)
(* the microphone warning, and imports that fail.                          *)
(***************************************************************************)
EXTENDS Naturals, Sequences, SequencesExt, FiniteSetsExt

CONSTANTS
  Commands,      \* lines the harness writes: verb and argument
  MaxCommands,   \* bound on the lines written
  StartStates,   \* what --test-state may name, NoState when it is not given
  States,        \* the approved states: a function on their ids
  Targets,       \* the approved objects
  Geometries,    \* the approved geometries
  Themes,        \* the approved palettes
  Catalog,       \* the tools of this build
  ViewsOf,       \* the views each of them has
  Panels,        \* the settings panels, the first shown when none is asked for
  Fixtures,      \* the score files that are there
  NoState, NoName

VARIABLES
  sent, waiting, read, heard,            \* the harness: lines written, the one
                                         \* it waits for, replies read, and
                                         \* which reply was taken for which line
  pipe,                                  \* the harness may hang up
  taken, reader, replies,                \* the reader thread, and what it printed
  messages, loop, finished, log,         \* the message thread: what it did
  look, stateId, startedIn, importing    \* the application

harness == <<sent, waiting, read, heard, pipe>>
thread == <<taken, reader, replies>>
dispatching == <<messages, loop, finished, log>>
shell == <<look, stateId, startedIn, importing>>
vars == <<harness, thread, dispatching, shell>>

---------------------------------------------------------------------------
(* Putting the application into an approved state. *)

Reset(shown, s) ==
  [shown EXCEPT !.modal = NoName, !.tools = <<>>, !.settings = FALSE, !.feedback = FALSE,
                !.report = "hidden", !.microphone = s.microphone, !.tone = s.tone]

Known(s) == SelectSeq(s.tools, LAMBDA t : t \in Catalog)

\* Tools opened one after another share a tab strip; asked to be split, each is
\* placed beside the one before.
WithTools(shown, s) ==
  [shown EXCEPT !.tools = s.tools, !.presentation = s.presentation,
                !.arrangement = IF s.arrangement = "split" THEN "split" ELSE "tabbed"]

HaveView(s) == {t \in Range(s.tools) : s.view \in ViewsOf[t]}

WithView(shown, s) ==
  [shown EXCEPT !.views = [t \in Catalog |->
     IF s.view = NoName THEN IF t \in Range(s.tools) THEN NoName ELSE @[t]
     ELSE IF t \in HaveView(s) THEN s.view ELSE @[t]]]

\* The settings window is hidden and not destroyed: it comes back on its tab.
WithWindows(shown, s) ==
  [shown EXCEPT !.settings = s.settings, !.feedback = s.feedback,
                !.panel = IF s.settings /\ s.panel # NoName THEN s.panel ELSE @]

\* Where establishing a state stops, and what is on the screen by then.
Established(shown, s) ==
  LET reset == Reset(shown, s)
      opened == WithTools(reset, s)
      viewed == WithView(opened, s)
      placed == [WithWindows(viewed, s) EXCEPT !.geometry = s.geometry, !.hidden = FALSE]
      asked == [placed EXCEPT !.hidden = ~s.showSummary]
  IN  IF Known(s) # s.tools
        THEN [ok |-> FALSE, shown |-> [reset EXCEPT !.tools = Known(s)]]
      ELSE IF s.view # NoName /\ HaveView(s) = {} THEN [ok |-> FALSE, shown |-> opened]
      ELSE IF s.settings /\ s.panel \notin Range(Panels) \cup {NoName}
        THEN [ok |-> FALSE, shown |-> viewed]
      ELSE IF s.fixture = NoName THEN [ok |-> TRUE, shown |-> placed]
      ELSE [ok |-> s.fixture \in Fixtures, shown |-> asked]


\* startScoreImport, with what the screen shows after it: one import at a time,
\* and a second only brings back the progress of the first.
WithImport(shown) ==
  IF importing = NoName /\ shown.hidden THEN shown ELSE [shown EXCEPT !.report = "progress"]

StartImport(shown, fixture) ==
  /\ look' = WithImport(shown)
  /\ importing' = IF importing = NoName THEN fixture ELSE importing

\* No state is reported until all of it has succeeded.
\* Mutation: the state reported before stays until another is established.
ReportedUntilTheNext(id, ok) == IF ok THEN id ELSE stateId
Reported(id, ok) == IF ok THEN id ELSE NoState

\* applyTestControlState: whether the state was established, and the screen.
ApplyState(id, ok) ==
  LET s == States[id]
      established == Established(look, s)
  IN  /\ ok = established.ok
      /\ stateId' = Reported(id, ok)
      /\ IF ~ok \/ s.fixture = NoName
           THEN look' = established.shown /\ UNCHANGED importing
         ELSE IF s.hold
           THEN look' = [established.shown EXCEPT !.report = "progress"] /\ UNCHANGED importing
         ELSE StartImport(established.shown, s.fixture)

Collapsed(shown) == shown.geometry \in {"narrow", "tiny", "slim"}

\* clickComponentById: an object that is not on the screen cannot be clicked.
Clickable(id) ==
  CASE id = "hamburger-button" -> Collapsed(look)
    [] id = "open-sample-button" -> look.tools = <<>>
    [] OTHER -> ~Collapsed(look)

Clicked(id) ==
  CASE id = "microphone-button" ->
         /\ look' = [look EXCEPT !.microphone = IF @ = "muted" THEN "available" ELSE "muted"]
         /\ UNCHANGED importing
    [] id = "open-sample-button" -> StartImport(look, "sample")
    [] OTHER -> look' = [look EXCEPT !.modal = id] /\ UNCHANGED importing

---------------------------------------------------------------------------
(* The message thread. *)

NextCommand == sent[taken]

\* renderResponse of what the session answers, and the promise fulfilled.
Answer(ok, state) ==
  /\ log' = Append(log, [command |-> NextCommand, ok |-> ok, state |-> state])
  /\ reader' = "answered"
  /\ UNCHANGED <<harness, taken, replies, loop, startedIn>>

Unchanged == UNCHANGED <<look, stateId, importing>>

OpenState(c) ==
  /\ c.verb = "open-state"
  /\ \E ok \in BOOLEAN :
       /\ IF c.argument \in DOMAIN States THEN ApplyState(c.argument, ok) ELSE ~ok /\ Unchanged
       /\ Answer(ok, NoState)
  /\ messages' = Tail(messages) /\ UNCHANGED finished

Click(c) ==
  /\ c.verb = "click"
  /\ IF c.argument \in Targets /\ Clickable(c.argument)
       THEN Clicked(c.argument) /\ stateId' = NoState /\ Answer(TRUE, NoState)
       ELSE Unchanged /\ Answer(FALSE, NoState)
  /\ messages' = Tail(messages) /\ UNCHANGED finished

Geometry(c) ==
  /\ c.verb = "geometry"
  /\ IF c.argument \in Geometries
       THEN look' = [look EXCEPT !.geometry = c.argument] /\ Answer(TRUE, NoState)
       ELSE UNCHANGED look /\ Answer(FALSE, NoState)
  /\ messages' = Tail(messages) /\ UNCHANGED <<stateId, importing, finished>>

Theme(c) ==
  /\ c.verb = "theme"
  /\ IF c.argument \in Themes
       THEN look' = [look EXCEPT !.theme = c.argument] /\ Answer(TRUE, NoState)
       ELSE UNCHANGED look /\ Answer(FALSE, NoState)
  /\ messages' = Tail(messages) /\ UNCHANGED <<stateId, importing, finished>>

Status(c) ==
  /\ c.verb = "status"
  /\ Unchanged /\ Answer(TRUE, stateId)
  /\ messages' = Tail(messages) /\ UNCHANGED finished

Quit(c) ==
  /\ c.verb = "quit"
  /\ finished' = TRUE /\ messages' = Append(Tail(messages), "quit")
  /\ Unchanged /\ Answer(TRUE, NoState)

\* Blank lines succeed, and lines that are no command fail; lists change nothing.
Other(c) ==
  /\ c.verb \notin {"open-state", "click", "geometry", "theme", "status", "quit"}
  /\ Unchanged /\ Answer(c.verb \in {"", "list-states", "list-objects"}, NoState)
  /\ messages' = Tail(messages) /\ UNCHANGED finished

Handle ==
  /\ loop = "running" /\ messages # <<>> /\ Head(messages) = "command"
  /\ LET c == NextCommand
     IN  \/ OpenState(c) \/ Click(c) \/ Geometry(c) \/ Theme(c) \/ Status(c) \/ Quit(c) \/ Other(c)

\* finishScoreImport, whenever the result arrives.
FinishImport ==
  /\ loop = "running" /\ importing # NoName
  /\ importing' = NoName
  /\ look' = IF look.hidden THEN [look EXCEPT !.score = importing]
             ELSE [look EXCEPT
                     !.score = importing, !.report = "summary",
                     !.tools = IF "score-view" \in Range(@) THEN @ ELSE Append(@, "score-view")]
  /\ UNCHANGED <<harness, thread, dispatching, stateId, startedIn>>

\* startTestControl's timer: the state the application starts in, then the
\* channel, or the end of the application if the state cannot be established.
Launch ==
  /\ loop = "running" /\ reader = "none" /\ messages = <<>>
  /\ \E id \in StartStates, ok \in BOOLEAN :
       /\ IF id = NoState THEN ok /\ Unchanged
          ELSE IF id \in DOMAIN States THEN ApplyState(id, ok)
          ELSE ~ok /\ Unchanged
       /\ reader' = IF ok THEN "reading" ELSE reader
       /\ messages' = IF ok THEN messages ELSE <<"quit">>
  /\ startedIn' = stateId'
  /\ UNCHANGED <<harness, taken, replies, loop, finished, log>>

CloseWindow ==
  /\ loop = "running" /\ "quit" \notin Range(messages)
  /\ messages' = Append(messages, "quit")
  /\ UNCHANGED <<harness, thread, loop, finished, log, shell>>

\* The message loop ends and the window is destroyed: the channel asks its
\* thread to stop and waits.
Shutdown ==
  /\ loop = "running" /\ messages # <<>> /\ Head(messages) = "quit"
  /\ loop' = "stopping" /\ messages' = Tail(messages)
  /\ UNCHANGED <<harness, thread, finished, log, shell>>

\* stopThread(2000): the thread ends, or is ended when the wait is over.
Gone ==
  /\ loop = "stopping"
  /\ loop' = "gone"
  /\ reader' = IF reader \in {"none", "ended"} THEN reader ELSE "killed"
  /\ UNCHANGED <<harness, taken, replies, messages, finished, log, shell>>

---------------------------------------------------------------------------
(* The reader thread. *)

ReadLine ==
  /\ reader = "reading" /\ taken < Len(sent)
  /\ taken' = taken + 1 /\ reader' = "waiting"
  /\ messages' = Append(messages, "command")
  /\ UNCHANGED <<harness, replies, loop, finished, log, shell>>

PrintReply ==
  /\ reader = "answered"
  /\ replies' = Append(replies, Last(log))
  /\ reader' = IF finished \/ loop = "stopping" THEN "ended" ELSE "reading"
  /\ UNCHANGED <<harness, taken, dispatching, shell>>

PipeCloses ==
  /\ reader = "reading" /\ pipe = "closed" /\ taken = Len(sent)
  /\ reader' = "ended"
  /\ UNCHANGED <<harness, taken, replies, dispatching, shell>>

---------------------------------------------------------------------------
(* The harness. *)

Send(c) ==
  /\ waiting = 0 /\ pipe = "open" /\ loop # "gone" /\ Len(sent) < MaxCommands
  /\ sent' = Append(sent, c) /\ waiting' = Len(sent) + 1
  /\ UNCHANGED <<read, heard, pipe, thread, dispatching, shell>>

\* The next reply in the pipe is the answer to the command.
GetReply ==
  /\ waiting # 0 /\ read < Len(replies)
  /\ read' = read + 1
  /\ heard' = Append(heard, [command |-> waiting, reply |-> read + 1])
  /\ waiting' = 0
  /\ UNCHANGED <<sent, pipe, thread, dispatching, shell>>

\* ChannelError: the deadline has passed, or the application has closed the
\* channel.  wait_for_input and the attended run go on with the next command.
GiveUp ==
  /\ waiting # 0
  /\ waiting' = 0
  /\ UNCHANGED <<sent, read, heard, pipe, thread, dispatching, shell>>

HangUp ==
  /\ waiting = 0 /\ pipe = "open"
  /\ pipe' = "closed"
  /\ UNCHANGED <<sent, waiting, read, heard, thread, dispatching, shell>>

---------------------------------------------------------------------------
Init ==
  /\ sent = <<>> /\ waiting = 0 /\ read = 0 /\ heard = <<>> /\ pipe = "open"
  /\ taken = 0 /\ reader = "none" /\ replies = <<>>
  /\ messages = <<>> /\ loop = "running" /\ finished = FALSE /\ log = <<>>
  /\ look = [modal |-> NoName, tools |-> <<>>, presentation |-> "none",
             arrangement |-> "tabbed", views |-> [t \in Catalog |-> NoName],
             settings |-> FALSE, panel |-> Head(Panels), feedback |-> FALSE,
             report |-> "hidden", hidden |-> FALSE, score |-> NoName, microphone |-> "available",
             tone |-> FALSE, geometry |-> "normal", theme |-> "dark"]
  /\ stateId = NoState /\ startedIn = NoState /\ importing = NoName

Next ==
  \/ \E c \in Commands : Send(c)
  \/ GetReply \/ GiveUp \/ HangUp
  \/ ReadLine \/ PrintReply \/ PipeCloses
  \/ Launch \/ Handle \/ FinishImport \/ CloseWindow \/ Shutdown \/ Gone

Spec == Init /\ [][Next]_vars

---------------------------------------------------------------------------
(* The state that the answers before the i-th say the application is in. *)
Standing(i) ==
  LET changes == {j \in 1..(i - 1) :
        \/ log[j].command.verb = "open-state" /\ log[j].command.argument \in DOMAIN States
        \/ log[j].command.verb = "click" /\ log[j].ok}
      last == log[Max(changes)]
  IN  IF changes = {} THEN startedIn
      ELSE IF last.command.verb = "open-state" /\ last.ok THEN last.command.argument
      ELSE NoState

\* A reply tells what has been done.  The commands are done one at a time, in
\* the order in which they were written, and each is done before it is replied
\* to and replied to before the next is begun - also while the window is being
\* closed and the thread stopped - and a status answer names the state that the
\* answers so far imply: the last one established, unless establishing another
\* failed or an object was clicked since.  (TestControlChannel.cpp run,
\* TestControlSession.cpp handle, MainComponentTestControl.cpp.)
RepliesTellWhatWasDone ==
  /\ IsPrefix(replies, log) /\ Len(log) <= Len(replies) + 1 /\ taken <= Len(log) + 1
  /\ \A i \in DOMAIN log :
       /\ log[i].command = sent[i]
       /\ log[i].command.verb = "status" => log[i].state = Standing(i)

\* The reply the harness takes for the answer to a command is the reply to that
\* command (driver.py: "Send one command and read its reply").  Not kept: after
\* a command that timed out the next one is given its reply, and so on.
ReplyIsOfTheCommand == \A i \in DOMAIN heard : heard[i].command = heard[i].reply

\* What of the screen a state decides and a picture shows.
Picture(shown) ==
  [modal |-> shown.modal, tools |-> shown.tools, presentation |-> shown.presentation,
   arrangement |-> IF Len(shown.tools) < 2 THEN NoName ELSE shown.arrangement,
   views |-> [t \in Range(shown.tools) |-> shown.views[t]],
   panel |-> IF shown.settings THEN shown.panel ELSE NoName,
   feedback |-> shown.feedback, microphone |-> shown.microphone, tone |-> shown.tone,
   geometry |-> shown.geometry]

\* A state just established looks as it does when it is the first one asked for
\* (MainComponentTestControl.cpp:73: "each one is reached the same way
\* regardless of what preceded it").  Not kept by the settings window, which
\* comes back on the panel an earlier state asked for.
StatesLookTheSame ==
  [][Len(log') > Len(log) /\ Last(log').command.verb = "open-state" /\ Last(log').ok
       => LET s == States[Last(log').command.argument]
              first == [look EXCEPT !.panel = Panels[1], !.views = [t \in Catalog |-> NoName]]
          IN  Picture(look') = Picture(Established(first, s).shown)]_vars
===========================================================================
