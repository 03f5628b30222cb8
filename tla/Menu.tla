-------------------------------- MODULE Menu --------------------------------
(***************************************************************************)
(* The menu of a page against the dispatcher: which entries a theme draws  *)
(* (menu-bootstrap.js, menu-openwrt2020.js, from the tree that ui.js has   *)
(* fetched and scrubbed), and which page a click on one of them shows      *)
(* (dispatcher.lua, which walks the tree by rules of its own).  The user   *)
(* clicks from page to page.                                               *)
(***************************************************************************)
EXTENDS Naturals, Sequences, FiniteSets, FiniteSetsExt

CONSTANTS Nodes,    \* the nodes, as paths of names; names are numbers, in order
          MaxOdd,   \* bound: nodes without a title or with unmet dependencies
          NoPage    \* an error page or a placeholder instead of a page

ASSUME MenuAssumption ==
  /\ Nodes \subseteq Seq(Nat) /\ IsFiniteSet(Nodes) /\ NoPage \notin Nodes
  /\ <<>> \in Nodes
  /\ \A n \in Nodes \ {<<>>} : SubSeq(n, 1, Len(n) - 1) \in Nodes

VARIABLES action,     \* of each node: page, firstchild, or that with recurse
          first,      \* of each node, the child the dispatcher sorts first
          untitled, unmet,
          menu,       \* the nodes that are satisfied, in the tree of the page
          at          \* dispatchpath of the page

menuVars == <<action, first, untitled, unmet, menu, at>>

Children == [n \in Nodes |-> {c \in Nodes : Len(c) = Len(n) + 1 /\ SubSeq(c, 1, Len(n)) = n}]
Inner == {n \in Nodes : Children[n] # {}}
Above == [n \in Nodes |-> {SubSeq(n, 1, i) : i \in 1 .. Len(n)}]

-----------------------------------------------------------------------------
(* The dispatcher.                                                         *)

\* find_subnode with recurse: the first page in the tree, children before
\* their parent.  It does not ask whether anything is satisfied.  All nodes
\* without children are pages, so the first child always has one.
FirstPage[n \in Nodes] == IF n \in Inner THEN FirstPage[first[n]] ELSE n

\* dispatch walks down from the root, and gives up at what is not satisfied;
\* for firstchild it starts again with the path that find_subnode returns.
Dispatch[n \in Nodes] ==
  IF Above[n] \cap unmet # {} THEN NoPage
  ELSE CASE action[n] = "page" -> n
         [] action[n] = "firstchild" -> Dispatch[first[n]]
         [] action[n] = "recurse" -> LET p == FirstPage[n]
                                     IN  IF Above[p] \cap unmet # {} THEN NoPage ELSE p

-----------------------------------------------------------------------------
(* The menu.                                                               *)

\* Faulty variant of Satisfied: the tree is drawn as it was fetched.
SatisfiedAsFetched(n) == n \notin unmet

\* scrubMenu: a firstchild that has no entry to offer is not satisfied.
Scrubbed[n \in Nodes] ==
  /\ n \notin unmet
  /\ action[n] # "page" => \E c \in Children[n] : c \notin untitled /\ Scrubbed[c]
Satisfied(n) == Scrubbed[n]

\* getChildren.
GetChildren(n) == (Children[n] \cap menu) \ untitled

RenderModeMenu == GetChildren(<<>>)

\* renderMainMenu, for the mode the page is in.  Two levels; an entry of the
\* first with a menu of its own opens that instead of being a link.
RenderMainMenu(mode) ==
  LET bar == GetChildren(mode)
  IN  {n \in bar : GetChildren(n) = {}} \cup UNION {GetChildren(n) : n \in bar}

\* renderTabMenu: the tabs of the third node on the path, and of those after
\* it as far as each is a tab itself.
RenderTabMenu(path) ==
  LET drawn(i) == \A j \in 4 .. i : SubSeq(path, 1, j) \in GetChildren(SubSeq(path, 1, j - 1))
  IN  UNION {GetChildren(SubSeq(path, 1, i)) : i \in {j \in 3 .. Len(path) : drawn(j)}}

Links(path) ==
  RenderModeMenu
    \cup (UNION {RenderMainMenu(m) : m \in RenderModeMenu \cap {SubSeq(path, 1, 1)}})
    \cup (IF Len(path) >= 3 THEN RenderTabMenu(path) ELSE {})

-----------------------------------------------------------------------------
Pages == {n \in Nodes : action[n] = "page"}

MenuInit ==
  /\ action \in [Nodes -> {"page", "firstchild", "recurse"}]
  /\ \A n \in Nodes \ Inner : action[n] = "page"
  /\ action[<<>>] = "recurse"
  /\ first \in [Inner -> Nodes]
  /\ \A n \in Inner : first[n] \in Children[n]
  /\ untitled \in kSubset(0, Nodes) \cup kSubset(1, Nodes)
  /\ unmet \in UNION {kSubset(k, Nodes \ {<<>>}) : k \in 0 .. MaxOdd - Cardinality(untitled)}
  /\ menu = {n \in Nodes : Satisfied(n)}
  /\ at \in {n \in Pages : Dispatch[n] = n /\ n # <<>>}

\* A click on an entry.
Click(n) ==
  /\ n \in Links(at)
  /\ Dispatch[n] # NoPage
  /\ at' = Dispatch[n]
  /\ UNCHANGED <<action, first, untitled, unmet, menu>>

MenuNext == \E n \in Nodes : Click(n)

MenuSpec == MenuInit /\ [][MenuNext]_menuVars

MenuTypeOK == at \in Pages /\ Above[at] \cap unmet = {}

-----------------------------------------------------------------------------
\* A tree in which the first child of each entry is one, too.  In others the
\* dispatcher takes a first child that is not satisfied, and answers 404
\* although the menu has found another one (dispatcher.lua:662).
FirstOnesFirst ==
  \A n \in Inner \ untitled : Scrubbed[n] => first[n] \notin untitled /\ Scrubbed[first[n]]

\* No entry of the menu leads to an error page, wherever the user is.
LinksLead == FirstOnesFirst => \A n \in Links(at) : Dispatch[n] # NoPage

\* Where at most so many clicks lead from the pages in start.
Reached(start, clicks) ==
  LET more(S) == S \cup ({Dispatch[n] : n \in UNION {Links(p) : p \in S}} \ {NoPage})
      w[i \in 0 .. clicks] == IF i = 0 THEN start ELSE more(w[i - 1])
  IN  w[clicks]

\* Whatever page has a title, as has all above it, and nothing but pages that
\* can be shown above it, is found by clicking, from wherever the user is: on
\* each level a click that leads further down, also if firstchild takes the
\* user past the tabs he was looking for.
PagesAreFound ==
  FirstOnesFirst =>
    \A n \in Nodes \ Inner :
      Len(n) >= 2 /\ (\A a \in Above[n] : a \notin untitled /\ Scrubbed[a])
        => n \in Reached({at}, Len(n) + 1)
=============================================================================
