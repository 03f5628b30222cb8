-------------------------------- MODULE Tabs --------------------------------
(***************************************************************************)
(* Tabs: ui.tabs of ui.js.  A group of panes has a menu with one tab for   *)
(* each; the index of the active pane is kept in the session data of the   *)
(* page, under the path of the group, so that it survives that a form is   *)
(* drawn anew.  Panes become empty and fill as the dependencies of their   *)
(* fields change; the tab of an empty pane is hidden.                      *)
(***************************************************************************)
EXTENDS Naturals, FiniteSets

CONSTANTS Groups,    \* groups of panes
          Views,     \* for each page the groups on it
          PathOf,    \* the path of each group: several may have the same
          Panes,     \* the number of panes of each group
          NoPane,
          MaxMoves   \* bound: what the user does

TabsAssumption ==
  /\ \A p \in DOMAIN Views : Views[p] \subseteq Groups
  /\ \A g \in Groups : Panes[g] \in Nat \ {0} /\ NoPane \notin 0 .. Panes[g] - 1
  /\ MaxMoves \in Nat

VARIABLES
  page,     \* the page that is shown
  empty,    \* the panes all of whose fields are hidden: group and number
  active,   \* the pane with data-tab-active of each group on the page
  marked,   \* the tab with the class cbi-tab in the menu of each group
  stored,   \* session data: the page, and the number stored for each path
  chosen,   \* the pane that was last active in each group
  crossed,  \* groups of whose path another group has stored a number since
  moves

tabsVars == <<page, empty, active, marked, stored, chosen, crossed, moves>>

PanesOf(g) == 0 .. Panes[g] - 1
Paths == {PathOf[g] : g \in Groups}
Filled(g) == {i \in PanesOf(g) : <<g, i>> \notin empty}
Step == moves < MaxMoves /\ moves' = moves + 1

TabsTypeOK ==
  /\ page \in DOMAIN Views
  /\ \A g \in Groups : {active[g], marked[g], chosen[g]} \subseteq PanesOf(g) \cup {NoPane}
  /\ \A g \in Groups : active[g] # NoPane => g \in Views[page]
  /\ stored.page \in DOMAIN Views /\ DOMAIN stored.index \subseteq Paths
  /\ crossed \subseteq Groups /\ moves \in 0 .. MaxMoves

-----------------------------------------------------------------------------
(* The session data.                                                       *)

\* getActiveTabState: what another page has stored is thrown away.
ActiveTabState(s, p) == IF s.page = p THEN s ELSE [page |-> p, index |-> <<>>]

GetActiveTabId(s, p, g) ==
  LET paths == ActiveTabState(s, p).index
  IN  IF PathOf[g] \in DOMAIN paths THEN paths[PathOf[g]] ELSE 0

SetActiveTabId(s, p, g, i) ==
  LET state == ActiveTabState(s, p)
  IN  [state EXCEPT !.index = [q \in DOMAIN @ \cup {PathOf[g]} |-> IF q = PathOf[g] THEN i ELSE @[q]]]

\* Others on the page with the same path lose what is stored for them.
Crosses(p, g) == {h \in Views[p] \ {g} : PathOf[h] = PathOf[g]}

-----------------------------------------------------------------------------
(* Drawing and switching.                                                  *)

\* initTabGroup: the stored pane, or the first that is not empty; with none,
\* the number stays as it is and may be one there is no pane for.
Selected(s, p, g) ==
  LET i == GetActiveTabId(s, p, g)
  IN  IF i \in Filled(g) \/ Filled(g) = {} THEN i
      ELSE CHOOSE j \in Filled(g) : \A k \in Filled(g) : j <= k

\* The group is drawn.  A number too large is an error, before anything is
\* marked: the panes stay as they came, none of them active.
InitTabGroup(s, p, g) ==
  LET i == Selected(s, p, g)
      ok == i \in PanesOf(g)
  IN  /\ active' = [active EXCEPT ![g] = IF ok THEN i ELSE NoPane]
      /\ marked' = [marked EXCEPT ![g] = IF ok THEN i ELSE NoPane]
      /\ stored' = IF ok THEN SetActiveTabId(s, p, g, i) ELSE ActiveTabState(s, p)
      /\ chosen' = [chosen EXCEPT ![g] = IF ok THEN i ELSE @]
      /\ crossed' = IF ok THEN (crossed \cup Crosses(p, g)) \ {g} ELSE crossed

Undrawn == [g \in Groups |-> NoPane]

TabsInit ==
  /\ page \in DOMAIN Views
  /\ empty = {} /\ active = Undrawn /\ marked = Undrawn /\ chosen = Undrawn
  /\ stored = [page |-> page, index |-> <<>>]
  /\ crossed = {} /\ moves = 0

\* A group is drawn: as the page comes up, or as its form is saved or reset.
DrawGroup(g) ==
  /\ g \in Views[page]
  /\ (active[g] = NoPane /\ UNCHANGED moves) \/ Step
  /\ InitTabGroup(stored, page, g)
  /\ UNCHANGED <<page, empty>>

Goto(p) ==
  /\ Step
  /\ page' = p
  /\ active' = Undrawn /\ marked' = Undrawn /\ empty' = {}
  /\ chosen' = IF p = page THEN chosen ELSE Undrawn
  /\ crossed' = IF p = page THEN crossed ELSE {}
  /\ UNCHANGED stored

\* updateTabs: the menu hides the tabs of empty panes, and no more.
Depend(g, i) ==
  /\ Step /\ active[g] # NoPane
  /\ empty' = IF <<g, i>> \in empty THEN empty \ {<<g, i>>} ELSE empty \cup {<<g, i>>}
  /\ UNCHANGED <<page, active, marked, stored, chosen, crossed>>

\* switchTab: by a click on a tab that is shown and not the marked one.
SwitchTab(g, i) ==
  /\ Step
  /\ active[g] # NoPane /\ i \in Filled(g) /\ i # marked[g]
  /\ active' = [active EXCEPT ![g] = i] /\ marked' = [marked EXCEPT ![g] = i]
  /\ stored' = SetActiveTabId(stored, page, g, i)
  /\ chosen' = [chosen EXCEPT ![g] = i]
  /\ crossed' = (crossed \cup Crosses(page, g)) \ {g}
  /\ UNCHANGED <<page, empty>>

TabsNext ==
  \/ \E g \in Groups : DrawGroup(g)
  \/ \E g \in Groups : \E i \in PanesOf(g) : Depend(g, i) \/ SwitchTab(g, i)
  \/ \E p \in DOMAIN Views : Goto(p)

TabsSpec == TabsInit /\ [][TabsNext]_tabsVars

-----------------------------------------------------------------------------
(* Properties.                                                             *)

\* A group that is drawn shows a pane that is not empty if it has one, the
\* marked tab is that of the pane, and it is the pane that was active before
\* the form was drawn anew or the page loaded again, if that is not empty and
\* no group of the same path has been switched since (ui.js:3603).
TabIsRemembered ==
  \A g \in Groups :
    DrawGroup(g) /\ active'[g] # NoPane =>
      /\ Filled(g) # {} => active'[g] \in Filled(g)
      /\ marked'[g] = active'[g]
      /\ chosen[g] \in Filled(g) /\ g \notin crossed => active'[g] = chosen[g]
=============================================================================
