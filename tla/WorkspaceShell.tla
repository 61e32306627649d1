--------------------------- MODULE WorkspaceShell ---------------------------
(***************************************************************************)
(* The desktop workspace: the tree of split panes and tab groups, the      *)
(* presentation of each tool, the tool that has the focus and the settings *)
(* a tool carries, with every operation of the shell that moves a tool.    *)
(*                                                                         *)
(* A tree node is a split of two nodes or a pane; a pane with one tool is  *)
(* the code's leaf, with more its tab group.  The field bar holds the      *)
(* tools before the selected one in the tab strip on screen: when a strip  *)
(* is torn down, JUCE reports exactly those as newly selected, the first   *)
(* one last.  Window bounds are left out.  A saved document has the same   *)
(* shape, with ids that need not be tools.                                 *)
(***************************************************************************)
EXTENDS Integers, Sequences, SequencesExt

CONSTANTS
  Registry,          \* the registered tools, in order
  Tuner, Spectrogram, HarmonicAnalyzer,   \* the ones the built-in workspaces name
  Configurable,      \* the tools that persist settings
  Aliases,           \* function from former ids to tools
  NoTool,
  MaximumDockDepth,
  Ids,               \* the ids a saved document may name
  MaxNesting,        \* the most splits a saved document has one inside another
  DividerStops,      \* the ratios, in percent, a divider can be dragged to
  SavedDocuments     \* what the settings file may hold at start

VARIABLES
  tree,       \* WorkspaceLayoutState::root
  placed,     \* presentation of each tool
  settings,   \* payload of each tool: live when it is open, saved when it is closed
  current     \* currentTool

shell == <<tree, placed, settings, current>>

Tools == {Registry[i] : i \in DOMAIN Registry}

Zones == {"left", "right", "top", "bottom", "centre"}

-----------------------------------------------------------------------------
(* The tree: WorkspaceLayoutState.                                         *)

Pane(tools, active) == [split |-> FALSE, tools |-> tools, active |-> active, bar |-> <<>>]
Leaf(t) == Pane(<<t>>, t)
NoTree == Pane(<<>>, NoTool)
SplitNode(vertical, ratio, first, second) ==
  [split |-> TRUE, vertical |-> vertical, ratio |-> ratio, first |-> first, second |-> second]

\* The trees of such panes and ratios, with k splits inside one another at most.
TreesOver(panes, ratios) ==
  LET trees[k \in Nat] ==
        IF k = 0 THEN panes
        ELSE panes \union [split : {TRUE}, vertical : BOOLEAN, ratio : ratios,
                           first : trees[k - 1], second : trees[k - 1]]
  IN trees

Panes == [split : {FALSE}, tools : Seq(Ids), active : Ids \union {NoTool}, bar : Seq(Ids)]
Trees == TreesOver(Panes, Int)[MaxNesting]

\* What a recursion over a tree gives: pane of a pane, and joined of a split and what it
\* gave for its two nodes.
FoldTree(pane(_), joined(_, _, _), root) ==
  LET fold[n \in Trees] ==
        IF n.split THEN joined(n, fold[n.first], fold[n.second]) ELSE pane(n)
  IN fold[root]

Both(n, first, second) == first \o second
SplitOf(n, first, second) == SplitNode(n.vertical, n.ratio, first, second)

\* The panes from the first to the last, and the tools in that order.
PanesOf(n) == FoldTree(LAMBDA p : IF p = NoTree THEN <<>> ELSE <<p>>, Both, n)
ToolsOf(n) == FoldTree(LAMBDA p : p.tools, Both, n)

PaneSet(n) == {PanesOf(n)[i] : i \in DOMAIN PanesOf(n)}
HasTool(p, t) == \E i \in DOMAIN p.tools : p.tools[i] = t
PaneWith(n, t) == CHOOSE p \in PaneSet(n) : HasTool(p, t)

SplitsOf(n) ==
  FoldTree(LAMBDA p : {}, LAMBDA s, first, second : {s} \union first \union second, n)

Substitute(n, old, new) ==
  FoldTree(LAMBDA p : IF p = old THEN new ELSE p,
       LAMBDA s, first, second : IF s = old THEN new ELSE SplitOf(s, first, second), n)

\* Mutation: a split whose child is gone stays.
JoinedAlways(n, first, second) == SplitOf(n, first, second)

\* A split whose child is gone gives way to the other child.
Joined(n, first, second) ==
  CASE first = NoTree -> second
    [] second = NoTree -> first
    [] OTHER -> SplitOf(n, first, second)

Without(tools, t) == RemoveFirst(tools, t)

\* remove: the tool leaves its pane, and empty panes and splits collapse.
PaneWithout(p, t) ==
  CASE ~HasTool(p, t) -> p
    [] Without(p.tools, t) = <<>> -> NoTree
    [] OTHER -> [p EXCEPT !.tools = Without(@, t),
                          !.active = IF @ = t THEN Head(Without(p.tools, t)) ELSE @]

TreeWithout(n, t) == FoldTree(LAMBDA p : PaneWithout(p, t), Joined, n)

\* convertToSplit: the content of the pane moves to a node with a fresh id.
Halved(pane, t, zone) ==
  LET old == [pane EXCEPT !.bar = <<>>]
      newFirst == zone \in {"left", "top"}
  IN SplitNode(zone \in {"top", "bottom"}, 50,
               IF newFirst THEN Leaf(t) ELSE old, IF newFirst THEN old ELSE Leaf(t))

\* Where a tool goes in a tree it is not in: the target's pane, or the first.
Placed(n, t, target, zone) ==
  LET aimed == \E p \in PaneSet(n) : HasTool(p, target)
      pane == IF aimed THEN PaneWith(n, target) ELSE Head(PanesOf(n))
      joined == [pane EXCEPT !.tools = Append(@, t), !.active = t]
  IN Substitute(n, pane, IF aimed /\ zone # "centre" THEN Halved(pane, t, zone) ELSE joined)

InsertTool(n, t, target, zone) ==
  LET rest == TreeWithout(n, t)
  IN IF target = t THEN n
     ELSE IF rest = NoTree THEN Leaf(t)
     ELSE Placed(rest, t, target, zone)

\* Mutation: the group puts each tool in front of those collected before.
ArrangedBackwards(n, layout) ==
  CASE layout = "tabbed" /\ Len(ToolsOf(n)) > 1 ->
         Pane(Reverse(ToolsOf(n)), Head(Reverse(ToolsOf(n))))
    [] layout # "tabbed" /\ n.split -> [n EXCEPT !.vertical = (layout = "vertical")]
    [] OTHER -> n

\* The Arrange menu: one tab group, or the orientation of the root split.
Arranged(n, layout) ==
  CASE layout = "tabbed" /\ Len(ToolsOf(n)) > 1 -> Pane(ToolsOf(n), Head(ToolsOf(n)))
    [] layout # "tabbed" /\ n.split -> [n EXCEPT !.vertical = (layout = "vertical")]
    [] OTHER -> n

Clamped(ratio) == IF ratio < 10 THEN 10 ELSE IF ratio > 90 THEN 90 ELSE ratio

-----------------------------------------------------------------------------
(* The tab strips on screen.  Tearing one down empties it from the front,  *)
(* and each change of its index is taken for a selection by the user.      *)

Before(tools, t) == SubSeq(tools, 1, SelectInSeq(tools, LAMBDA u : u = t) - 1)

SelectedIn(pane, t) == [pane EXCEPT !.active = t, !.bar = Before(pane.tools, t)]

\* A pane after its old strip is torn down and a new one shows its active tool.
Reshown(pane) ==
  LET reported == SelectInSeq(pane.bar, LAMBDA t : HasTool(pane, t))
  IN SelectedIn(pane, IF reported = 0 THEN pane.active ELSE pane.bar[reported])

Rebuilt(n) == FoldTree(LAMBDA p : IF p = NoTree THEN p ELSE Reshown(p), SplitOf, n)

\* The tool the last reported selection gives the focus to.
FocusAfter(n, focus) ==
  LET reporting == SelectLastInSeq(PanesOf(n), LAMBDA p : p.bar # <<>>)
  IN IF reporting = 0 THEN focus ELSE Head(PanesOf(n)[reporting].bar)

\* The tab of a tool taken out of its strip: if it was the selected one, the
\* strip has no selection left to report.
Detached(n, t) ==
  IF \E p \in PaneSet(n) : p.active = t
  THEN Substitute(n, PaneWith(n, t), [PaneWith(n, t) EXCEPT !.bar = <<>>])
  ELSE n

-----------------------------------------------------------------------------
(* Saved documents: WorkspaceNormalizer, WorkspaceSnapshotCapture,         *)
(* WorkspaceSnapshotApply.                                                 *)

NoSettings == "none"

Document(root, floating, payloads, focus) ==
  [root |-> root, floating |-> floating, settings |-> payloads, focus |-> focus]

Unset == [t \in Configurable |-> NoSettings]

PitchPractice == Document(Leaf(Tuner), <<>>, [Unset EXCEPT ![Tuner] = "instrument"], Tuner)

BuiltIns ==
  {PitchPractice,
   Document(SplitNode(FALSE, 50, Leaf(Tuner), Leaf(HarmonicAnalyzer)), <<>>,
            [Unset EXCEPT ![Tuner] = "voice"], Tuner),
   Document(SplitNode(FALSE, 58, Leaf(Spectrogram), Leaf(HarmonicAnalyzer)), <<>>, Unset,
            Spectrogram),
   Document(SplitNode(FALSE, 50, Leaf(Tuner),
                      Pane(<<Spectrogram, HarmonicAnalyzer>>, Spectrogram)), <<>>,
            [Unset EXCEPT ![Tuner] = "instrument"], Tuner)}

Carried == {NoSettings, "default", "changed", "instrument", "voice"}

\* The tools the built-in workspaces name are registered, each once; no tree of them is
\* too deep for a saved document.
ASSUME WorkspaceAssumption ==
  /\ Registry \in Seq(Tools) /\ IsInjective(Registry)
  /\ {Tuner, Spectrogram, HarmonicAnalyzer} \subseteq Tools /\ Configurable \subseteq Tools
  /\ Tools \subseteq Ids /\ NoTool \notin Ids
  /\ \A id \in DOMAIN Aliases : Aliases[id] \in Tools
  /\ MaxNesting \in Nat /\ Len(Registry) <= MaxNesting
  /\ MaximumDockDepth \in Nat /\ Len(Registry) <= MaximumDockDepth
  /\ DividerStops \subseteq Int
  /\ SavedDocuments \subseteq
       [root : Trees, floating : Seq(Ids),
        settings : [Configurable -> Carried \union {"otherVersion"}], focus : Ids \union {NoTool}]

\* A saved id as a tool: a second instance of a single-instance tool is none.
Resolve(id) ==
  IF id \in Tools THEN id ELSE IF id \in DOMAIN Aliases THEN Aliases[id] ELSE NoTool

\* The ids that can be placed and are not yet, appended to those that are.
Taken(ids, order) ==
  FoldLeft(LAMBDA acc, id : IF Resolve(id) = NoTool \/ Contains(acc, Resolve(id)) THEN acc
                            ELSE Append(acc, Resolve(id)), order, ids)

NormalPane(ids, active) ==
  IF ids = <<>> THEN NoTree
  ELSE Pane(ids, IF Contains(ids, Resolve(active)) THEN Resolve(active) ELSE Head(ids))

\* normalizeNode, at a depth and after some tools have been placed: the node that is
\* left, and the tools placed then.
Placing(node, order) == [node |-> node, order |-> order]

PaneAt(p, depth, order) ==
  LET next == Taken(p.tools, order)
  IN IF depth > MaximumDockDepth THEN Placing(NoTree, order)
     ELSE Placing(NormalPane(SubSeq(next, Len(order) + 1, Len(next)), p.active), next)

SplitAt(n, one, other, depth, order) ==
  LET first == one[depth + 1, order]
      second == other[depth + 1, first.order]
  IN IF depth > MaximumDockDepth THEN Placing(NoTree, order)
     ELSE Placing(Joined([n EXCEPT !.ratio = Clamped(@)], first.node, second.node), second.order)

NormalNode(n) ==
  FoldTree(LAMBDA p : [at \in Nat \X Seq(Tools) |-> PaneAt(p, at[1], at[2])],
           LAMBDA s, one, other :
             [at \in Nat \X Seq(Tools) |-> SplitAt(s, one, other, at[1], at[2])],
           n)

Normalized(d) ==
  LET dock == NormalNode(d.root)[1, <<>>]
      order == Taken(d.floating, dock.order)
      focus == IF Contains(order, Resolve(d.focus)) THEN Resolve(d.focus) ELSE Head(order)
      payloads == [t \in Configurable |->
                     IF d.settings[t] = "otherVersion" THEN NoSettings ELSE d.settings[t]]
  IN IF order = <<>> THEN PitchPractice
     ELSE Document(dock.node, SubSeq(order, Len(dock.order) + 1, Len(order)), payloads, focus)

\* captureNode: the tree without its strips.
Bare(n) == FoldTree(LAMBDA p : [p EXCEPT !.bar = <<>>], SplitOf, n)

Floating ==
  FoldLeft(LAMBDA tools, t : IF placed[t] = "floating" THEN Append(tools, t) ELSE tools,
           <<>>, Registry)

\* Mutation: the focus is captured although its tool is closed.
CaptureFocus ==
  Document(Bare(tree), Floating, settings, current)

Capture ==
  Document(Bare(tree), Floating, settings,
           IF placed[current] = "closed" THEN NoTool ELSE current)

\* plan refuses a document that was not normalized.
Accepted(d) ==
  LET ids == ToolsOf(d.root) \o d.floating
  IN /\ IsInjective([i \in DOMAIN ids |-> Resolve(ids[i])])
     /\ \A i \in DOMAIN ids : Resolve(ids[i]) # NoTool
     /\ \A p \in PaneSet(d.root) : HasTool(p, p.active)

PlannedPresentation(d) ==
  [t \in Tools |-> IF Contains(ToolsOf(d.root), t) THEN "docked"
                   ELSE IF Contains(d.floating, t) THEN "floating" ELSE "closed"]

\* prepareTool: an open tool that the document says nothing about keeps what
\* it has, a closed one forgets it, one that is opened starts at its defaults.
PreparedSettings(d) ==
  [t \in Configurable |->
     IF d.settings[t] # NoSettings THEN d.settings[t]
     ELSE IF PlannedPresentation(d)[t] = "closed" THEN NoSettings
     ELSE IF placed[t] # "closed" THEN settings[t] ELSE "default"]

-----------------------------------------------------------------------------
(* Operations of the shell.                                                *)

\* The application opens on what its settings file holds.
ShellInit ==
  \E d \in SavedDocuments :
    LET start == Normalized(d)
    IN /\ tree = Rebuilt(start.root)
       /\ placed = PlannedPresentation(start)
       /\ settings = [t \in Configurable |->
                        IF start.settings[t] = NoSettings /\ placed[t] # "closed"
                        THEN "default" ELSE start.settings[t]]
       /\ current = start.focus

Opened(t) ==
  IF t \in Configurable /\ placed[t] = "closed" /\ settings[t] = NoSettings
  THEN [settings EXCEPT ![t] = "default"] ELSE settings

\* presentTool, as far as the tree goes.
Presented(t, presentation) ==
  LET n == Detached(tree, t)
  IN Rebuilt(IF presentation = "docked" THEN InsertTool(n, t, NoTool, "centre")
             ELSE TreeWithout(n, t))

\* Dock or float a tool, opening it if it is closed.
PresentTool(t, presentation) ==
  /\ placed[t] # presentation
  /\ tree' = Presented(t, presentation)
  /\ placed' = [placed EXCEPT ![t] = presentation]
  /\ settings' = Opened(t)
  /\ current' = t

\* The focus handler of a panel or window, or Open on a tool that is open.
FocusTool(t) ==
  /\ placed[t] # "closed" /\ current # t
  /\ current' = t
  /\ UNCHANGED <<tree, placed, settings>>

CloseTool(t) ==
  /\ placed[t] # "closed"
  /\ tree' = Rebuilt(TreeWithout(Detached(tree, t), t))
  /\ placed' = [placed EXCEPT ![t] = "closed"]
  /\ current' = FocusAfter(Detached(tree, t), current)
  /\ UNCHANGED settings

\* A drag that ends on the Float target.
DropFloating(t) ==
  /\ placed[t] # "closed"
  /\ LET shown == IF placed[t] = "floating" THEN tree ELSE Presented(t, "floating")
     IN tree' = Rebuilt(shown) /\ current' = FocusAfter(shown, t)
  /\ placed' = [placed EXCEPT ![t] = "floating"]
  /\ UNCHANGED settings

\* A drag that ends on a zone of a visible pane, or between the panes, where
\* every zone comes to the centre of the first pane.
DropDocked(t, target, zone) ==
  /\ placed[t] # "closed"
  /\ IF target = NoTool THEN zone = "centre" ELSE \E p \in PaneSet(tree) : p.active = target
  /\ LET shown == IF placed[t] = "docked" THEN tree ELSE Presented(t, "docked")
     IN /\ tree' = Rebuilt(InsertTool(shown, t, target, zone))
        /\ current' = FocusAfter(shown, t)
  /\ placed' = [placed EXCEPT ![t] = "docked"]
  /\ UNCHANGED settings

\* The Arrange menu, whose entries are enabled when they do something.
SetWorkspaceLayout(layout) ==
  /\ IF layout = "tabbed" THEN Len(ToolsOf(tree)) >= 2 ELSE tree.split
  /\ tree' = Rebuilt(Arranged(tree, layout))
  /\ current' = FocusAfter(tree, current)
  /\ UNCHANGED <<placed, settings>>

\* A click on a tab.
SelectTab(t) ==
  /\ placed[t] = "docked" /\ PaneWith(tree, t).active # t
  /\ tree' = Substitute(tree, PaneWith(tree, t), SelectedIn(PaneWith(tree, t), t))
  /\ current' = t
  /\ UNCHANGED <<placed, settings>>

DragDivider(n, ratio) ==
  /\ tree' = Substitute(tree, n, [n EXCEPT !.ratio = Clamped(ratio)])
  /\ UNCHANGED <<placed, settings, current>>

\* The user turns a control of an open tool.
ChangeSettings(t) ==
  /\ t \in Configurable /\ placed[t] # "closed"
  /\ settings' = [settings EXCEPT ![t] = "changed"]
  /\ UNCHANGED <<tree, placed, current>>

ResetCurrentTool ==
  /\ current \in Configurable /\ placed[current] # "closed"
  /\ settings' = [settings EXCEPT ![current] = "default"]
  /\ UNCHANGED <<tree, placed, current>>

\* applyWorkspaceSnapshot: refused as a whole, or put in place as a whole.
ApplyWorkspace(d) ==
  /\ Accepted(d)
  /\ tree' = Rebuilt(d.root)
  /\ placed' = PlannedPresentation(d)
  /\ settings' = PreparedSettings(d)
  /\ current' = IF d.focus = NoTool THEN FocusAfter(tree, current) ELSE d.focus

ShellNext ==
  \/ \E t \in Tools :
       \/ \E presentation \in {"docked", "floating"} : PresentTool(t, presentation)
       \/ FocusTool(t) \/ CloseTool(t) \/ SelectTab(t) \/ ChangeSettings(t) \/ DropFloating(t)
       \/ \E target \in Tools \union {NoTool}, zone \in Zones : DropDocked(t, target, zone)
  \/ \E layout \in {"horizontal", "vertical", "tabbed"} : SetWorkspaceLayout(layout)
  \/ \E n \in SplitsOf(tree), ratio \in DividerStops : DragDivider(n, ratio)
  \/ ResetCurrentTool
  \/ \E d \in BuiltIns : ApplyWorkspace(d)

ShellSpec == ShellInit /\ [][ShellNext]_shell

-----------------------------------------------------------------------------
(* Properties.                                                             *)

TreeIsWellFormed(n) ==
  /\ IsInjective(ToolsOf(n))
  /\ \A p \in PaneSet(n) : HasTool(p, p.active) /\ p.bar = Before(p.tools, p.active)
  /\ \A s \in SplitsOf(n) : s.ratio \in 10..90 /\ s.first # NoTree /\ s.second # NoTree

\* The tree and the presentations never part: whatever sequence of docking,
\* floating, dropping, arranging and closing led here, the docked tools are
\* exactly those of the tree, each once, in a tree without empty panes.
TreeMatchesPresentations ==
  /\ TreeIsWellFormed(tree)
  /\ \A t \in Tools : Contains(ToolsOf(tree), t) <=> placed[t] = "docked"
  /\ placed \in [Tools -> {"closed", "docked", "floating"}]
  /\ settings \in [Configurable -> Carried]
  /\ current \in Tools
  /\ \A t \in Configurable : placed[t] # "closed" => settings[t] # NoSettings

\* Whenever the workspace is captured with a tool open, a start from that
\* document shows the same tree, windows, settings and focus: neither the
\* normalizer nor the planner loses a part of what the shell can reach.
CaptureSurvivesRestart ==
  LET saved == Capture
      start == Normalized(saved)
  IN (\E t \in Tools : placed[t] # "closed") =>
       /\ [start EXCEPT !.focus = saved.focus] = saved
       /\ saved.focus # NoTool => start.focus = saved.focus
       /\ Accepted(start)
       /\ Rebuilt(start.root) = tree
       /\ PlannedPresentation(start) = placed

Moves == \E d \in BuiltIns : ApplyWorkspace(d)

\* Moving, closing or opening one tool leaves the others where they are in
\* the order of the tree: no drop, collapse or merge reshuffles the rest.
OnlyOneToolMoves ==
  [][\/ ToolsOf(tree) = ToolsOf(tree')
     \/ \E t \in Tools : Without(ToolsOf(tree), t) = Without(ToolsOf(tree'), t)
     \/ Moves]_shell

\* What the design of the layout restoration says, that a rebuild no longer
\* resets active tabs: a group that keeps its tools keeps its active one unless
\* the user selects another.
RebuildKeepsSelectedTab ==
  [][Moves \/ (\E t \in Tools : SelectTab(t)) \/
     \A p \in PaneSet(tree), q \in PaneSet(tree') : p.tools = q.tools => p.active = q.active
    ]_shell

=============================================================================
