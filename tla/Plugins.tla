------------------------------ MODULE Plugins -------------------------------
(***************************************************************************)
(* The plug-in manager of the container.  The page view/system/plugin.js   *)
(* lists the directories with a Makefile below /external/plugin and lets   *)
(* the user rename, clone and remove them; init.sh merges what it finds    *)
(* there into the system root when the container starts.  Both decide for  *)
(* themselves what is switched off and what comes first.                   *)
(*                                                                         *)
(* A path is a sequence of names below the plug-in directory, a name a     *)
(* sequence of characters, of which only the order counts.                 *)
(***************************************************************************)
EXTENDS Naturals, FiniteSets, SequencesExt

CONSTANTS Ids,         \* plug-ins
          None,        \* a directory without Makefile; a row without name
          Lower,       \* those whose file is called makefile
          Trees,       \* the directories the container may start with
          Names,       \* paths the user types
          MaxClicks    \* bound: clicks and restarts

\* Characters, in their order: a dash, the slash, M, the underscore, letters up
\* to l, m, more letters.  Of the name of the file the first one counts.
Slash == 2
Em == 3
Underscore == 4
SmallEm == 7

\* A name is more than a mark and a name that is marked.  A tree holds, with a
\* directory, all those it lies in, and a plug-in once.
PlainNames == {n \in Seq(Nat \ {Slash}) : n # <<>> /\ n[1] # Underscore}
MarkedNames == {n \in Seq(Nat \ {Slash}) : n # <<>> /\ n[1] = Underscore /\ Tail(n) \in PlainNames}
Directories == Seq(PlainNames \cup MarkedNames)
IsTree(t) ==
  /\ DOMAIN t \subseteq Directories /\ IsFiniteSet(DOMAIN t)
  /\ t \in [DOMAIN t -> Ids \cup {None}]
  /\ \A p \in DOMAIN t : p # <<>> /\ \A n \in 1 .. Len(p) : SubSeq(p, 1, n) \in DOMAIN t
Once(t) == \A p, q \in DOMAIN t : t[p] = t[q] /\ t[p] # None => p = q

PluginsAssumption ==
  /\ MaxClicks \in Nat
  /\ None \notin Ids
  /\ \A t \in Trees : IsTree(t) /\ Once(t)
  /\ Names \subseteq Directories \ {<<>>}

VARIABLES
  tree,    \* the directories below /external/plugin: the plug-in in each
  merged,  \* the plug-ins merged at the last start, in order
  rows,    \* the page's data: sections plugins0, plugins1, .. by number
  adding,  \* the section of the open dialog "New Plugin"
  queue,   \* commands of the page that wait for an animation frame
  sent,    \* commands on their way or under way; late: another came first
  leaving, \* the page has asked to be loaded again
  asked,   \* ghost: plug-ins the user has removed
  clicks

pluginVars == <<tree, merged, rows, adding, queue, sent, leaving, asked, clicks>>

Marked(name) == Head(name) = Underscore
Disabled(path) == \E i \in DOMAIN path : Marked(path[i])

Earlier(s, t) ==
  \/ IsStrictPrefix(s, t)
  \/ \E i \in DOMAIN s \cap DOMAIN t :
       s[i] < t[i] /\ \A j \in 1 .. i - 1 : s[j] = t[j]

\* Of two lines with a path the earlier one is found where they part; behind
\* each name but the last is a slash.
Written(path, k) == path[k] \o (IF k < Len(path) THEN <<Slash>> ELSE <<>>)
EarlierLine(p, q) ==
  \E k \in DOMAIN p \cap DOMAIN q :
    Earlier(Written(p, k), Written(q, k)) /\ \A j \in 1 .. k - 1 : p[j] = q[j]

Under(path) == {p \in DOMAIN tree : IsPrefix(path, p)}
PluginsOf(paths) == {tree[p] : p \in paths} \ {None}
PathsOf == {p \in DOMAIN tree : tree[p] # None}

TypeOK ==
  /\ IsTree(tree) /\ Once(tree)
  /\ Range(merged) \subseteq Ids /\ asked \subseteq Ids
  /\ \A i \in DOMAIN rows : rows[i].enabled \in BOOLEAN
  /\ clicks \in 0 .. MaxClicks

-----------------------------------------------------------------------------
(* init.sh.                                                                *)

\* merge_plugins: the directories at the top that are not marked, one after
\* the other; below each one, every directory with a Makefile.  The test that
\* is to skip a marked plug-in further down compares with a quoted pattern and
\* never holds.
ToMerge == {p \in PathsOf : ~Marked(p[1])}

\* Faulty variant of MergedBefore: what is nested comes first.
MergedDeepFirst(p, q) == Len(p) > Len(q) \/ (Len(p) = Len(q) /\ EarlierLine(p, q))

\* sort -g, twice: no line starts with a number, so that lines are compared as
\* texts, first those of the directories at the top.
MergedBefore(p, q) == Earlier(p[1], q[1]) \/ (p[1] = q[1] /\ EarlierLine(p, q))
Ahead(p) == {q \in ToMerge : MergedBefore(q, p)}
MergeOrder ==
  [i \in 1 .. Cardinality(ToMerge) |->
     tree[CHOOSE p \in ToMerge : Cardinality(Ahead(p)) = i - 1]]

-----------------------------------------------------------------------------
(* The page's data, a JSONConfig: the rows of a list become sections named *)
(* after their number, a new one is named after how many there are, and an *)
(* id that is taken stays what it is.  The list is what find prints, line  *)
(* by line, sorted.                                                        *)

Line(p) == Append(p, IF tree[p] \in Lower THEN <<SmallEm>> ELSE <<Em>>)
Before(p) == {q \in PathsOf : EarlierLine(Line(q), Line(p))}
Number(p) == Cardinality(Before(p))
JSONConfig(paths) == [i \in {Number(p) : p \in paths} |-> CHOOSE p \in paths : Number(p) = i]

NewId(data) == Cardinality(DOMAIN data)
NewRow == [name |-> None, enabled |-> FALSE, index |-> 0, stands |-> {}]
Added(data, id) == [i \in DOMAIN data \cup {id} |-> IF i \in DOMAIN data THEN data[i] ELSE NewRow]
Removed(data, id) == [i \in DOMAIN data \ {id} |-> data[i]]

-----------------------------------------------------------------------------
(* Commands, run in the container.                                         *)

MakeDir(t, path) ==
  LET new == {SubSeq(path, 1, n) : n \in 1 .. Len(path)} \ DOMAIN t
  IN  [p \in DOMAIN t \cup new |-> IF p \in new THEN None ELSE t[p]]

\* mv: into new where that is a directory; never into itself, nor onto a
\* directory that is not empty.
Moved(t, old, new) ==
  LET dest  == IF new \in DOMAIN t THEN Append(new, Last(old)) ELSE new
      moved == {p \in DOMAIN t : IsPrefix(old, p)}
      to(p) == dest \o SubSeq(p, Len(old) + 1, Len(p))
      from(q) == CHOOSE p \in moved : to(p) = q
      full  == t[dest] # None \/ \E p \in DOMAIN t : IsStrictPrefix(dest, p)
  IN  IF old \notin DOMAIN t \/ IsPrefix(old, dest) \/ (dest \in DOMAIN t /\ full) THEN t
      ELSE [q \in (DOMAIN t \ moved) \cup {to(p) : p \in moved} |->
              IF \E p \in moved : to(p) = q THEN t[from(q)] ELSE t[q]]

\* Faulty variant of Renamed: what is there is removed first (rm -rf).
RenamedOver(old, new) ==
  LET t == MakeDir(tree, Front(new))
      kept == {p \in DOMAIN t : ~IsPrefix(new, p) \/ IsPrefix(old, p)}
  IN  Moved([p \in kept |-> t[p]], old, new)

\* rename: mkdir -p of the directory above, then mv; both go out together.
Renamed(old, new) == Moved(MakeDir(tree, Front(new)), old, new)

Execute(c) ==
  /\ c \in sent
  /\ sent' = {[d EXCEPT !.late = TRUE] : d \in sent \ {c}}
  /\ leaving' = (leaving \/ (c.op = "clone" /\ c.heard))
  /\ \/ /\ c.op = "rename" /\ tree' = Renamed(c.old, c.new)
        /\ UNCHANGED rows
     \/ /\ c.op = "remove" /\ tree' = [p \in DOMAIN tree \ Under(c.old) |-> tree[p]]
        /\ rows' = IF c.heard THEN Removed(rows, c.row) ELSE rows
     \/ /\ c.op = "clone"
        /\ tree' = IF c.new \in DOMAIN tree /\ (tree[c.new] # None \/ Cardinality(Under(c.new)) > 1)
                   THEN tree
                   ELSE [MakeDir(tree, c.new) EXCEPT ![c.new] = c.id]
        /\ UNCHANGED rows
  /\ UNCHANGED <<merged, adding, queue, asked, clicks>>

\* A request that does not arrive.
Lost(c) ==
  /\ c \in sent
  /\ sent' = sent \ {c}
  /\ UNCHANGED <<tree, merged, rows, adding, queue, leaving, asked, clicks>>

-----------------------------------------------------------------------------
(* The page.                                                               *)

\* The name is what comes before "/Makefile": empty where the file is called
\* otherwise.  Only rows that are on have a priority.
Row(p) ==
  [name    |-> IF tree[p] \in Lower THEN <<>> ELSE p,
   enabled |-> ~Disabled(p),
   index   |-> IF Disabled(p) THEN 0 ELSE Cardinality({q \in Before(p) : ~Disabled(q)}) + 1,
   stands  |-> PluginsOf(Under(p))]
Listing == LET data == JSONConfig(PathsOf) IN [i \in DOMAIN data |-> Row(data[i])]

Init ==
  /\ tree \in Trees
  /\ merged = MergeOrder
  /\ rows = Listing
  /\ adding = None
  /\ queue = <<>> /\ sent = {} /\ leaving = FALSE
  /\ asked = {}
  /\ clicks = 0

Click == clicks < MaxClicks /\ clicks' = clicks + 1

\* Loading the page forgets what has not been sent; nobody waits for the rest.
Load ==
  /\ rows' = Listing
  /\ adding' = None
  /\ queue' = <<>> /\ leaving' = FALSE
  /\ sent' = {[c EXCEPT !.heard = FALSE] : c \in sent}
  /\ UNCHANGED <<tree, merged, asked, clicks>>

Frame ==
  /\ queue # <<>>
  /\ sent' = sent \cup Range(queue)
  /\ queue' = <<>>
  /\ UNCHANGED <<tree, merged, rows, adding, leaving, asked, clicks>>

Command(op, old, new) ==
  [op |-> op, old |-> old, new |-> new, id |-> None, row |-> None,
   heard |-> TRUE, late |-> FALSE]

\* A click on a row that has a name, while no dialog is open; a page that is
\* about to be loaded again is not clicked on.
OnRow(i) == Click /\ adding = None /\ ~leaving /\ i \in DOMAIN rows /\ rows[i].name # None

\* Every rename is followed by a reload at once, whatever becomes of it.
Ask(command) ==
  /\ queue' = Append(queue, command)
  /\ leaving' = TRUE
  /\ UNCHANGED <<tree, merged, rows, adding, sent, asked>>

Mark(path) == IF path = <<>> THEN <<<<Underscore>>>>
              ELSE Append(Front(path), <<Underscore>> \o Last(path))
Unmark(path) == [k \in DOMAIN path |-> IF Marked(path[k]) THEN Tail(path[k]) ELSE path[k]]

\* enablePlugin, which switches both ways.
EnablePlugin(i) ==
  /\ OnRow(i)
  /\ Ask(Command("rename", rows[i].name,
                 IF rows[i].enabled THEN Mark(rows[i].name) ELSE Unmark(rows[i].name)))

RenamePlugin(i, new) ==
  /\ OnRow(i)
  /\ new # rows[i].name
  /\ Ask(Command("rename", rows[i].name, new))

RemovePlugin(i) ==
  /\ OnRow(i)
  /\ ~rows[i].enabled
  /\ sent' = sent \cup {[Command("remove", rows[i].name, <<>>) EXCEPT
                        !.row = i,
                        !.late = ~(PluginsOf(Under(rows[i].name)) \subseteq rows[i].stands)]}
  /\ asked' = asked \cup rows[i].stands
  /\ UNCHANGED <<tree, merged, rows, adding, queue, leaving>>

\* newPlugin opens the dialog on a section named after the number of sections.
NewPlugin ==
  /\ Click /\ adding = None /\ ~leaving
  /\ adding' = NewId(rows)
  /\ rows' = Added(rows, NewId(rows))
  /\ UNCHANGED <<tree, merged, queue, sent, leaving, asked>>

Dismiss ==
  /\ adding # None
  /\ rows' = Removed(rows, adding)
  /\ adding' = None
  /\ UNCHANGED <<tree, merged, queue, sent, leaving, asked, clicks>>

\* A plug-in whose name ends like the new one counts as the same.
Clone(p, name) ==
  /\ adding # None
  /\ adding' = None
  /\ queue' = IF \E i \in DOMAIN rows : /\ rows[i].name \notin {None, <<>>}
                                         /\ IsSuffix(name, Last(rows[i].name))
              THEN queue
              ELSE Append(queue, [Command("clone", <<>>, <<name>>) EXCEPT !.id = p])
  /\ UNCHANGED <<tree, merged, rows, sent, leaving, asked, clicks>>

\* The container starts again.
Restart ==
  /\ Click
  /\ merged' = MergeOrder
  /\ sent' = {}
  /\ UNCHANGED <<tree, rows, adding, queue, leaving, asked>>

\* A plug-in is fetched once.
Unknown(p) == /\ p \notin PluginsOf(DOMAIN tree) \cup asked
              /\ \A c \in sent \cup Range(queue) : c.id # p

Next ==
  \/ Load \/ Frame \/ NewPlugin \/ Dismiss \/ Restart
  \/ \E i \in DOMAIN rows : EnablePlugin(i) \/ RemovePlugin(i)
                             \/ \E new \in Names : RenamePlugin(i, new)
  \/ \E p \in Ids, new \in Names : Len(new) = 1 /\ Unknown(p) /\ Clone(p, new[1])
  \/ \E c \in sent : Execute(c) \/ Lost(c)

Spec == Init /\ [][Next]_pluginVars

-----------------------------------------------------------------------------
\* Where the page and init.sh part: a plug-in marked further down is merged; a
\* name that begins like another one, as in "a" and "a-b", sorts differently
\* with a slash behind it; and a plug-in inside another one is listed before it
\* where its directory sorts before the other one's Makefile.
PartWays ==
  \/ \E p \in PathsOf : Disabled(p) /\ ~Marked(p[1])
  \/ \E p, q \in DOMAIN tree : p # q /\ Len(p) = Len(q) /\ Front(p) = Front(q)
                               /\ IsPrefix(Last(p), Last(q))
  \/ \E p, q \in PathsOf : IsStrictPrefix(p, q) /\ EarlierLine(Line(q), Line(p))

\* What the page shows as switched on is what the next start merges, in the
\* order of the priorities it shows, wherever directories were moved to;
\* but for the three cases above.
PageAgreesWithStart ==
  LET list == Listing IN
  PartWays \/
    /\ Len(MergeOrder) = Cardinality({i \in DOMAIN list : list[i].enabled})
    /\ \A n \in DOMAIN MergeOrder : \E p \in PathsOf :
         /\ tree[p] = MergeOrder[n]
         /\ list[Number(p)].enabled /\ list[Number(p)].index = n

\* A plug-in is gone only if the user removed it, or the directory it was in,
\* from a list that showed it there: no rename or clone destroys another one.
\* But a removal that is overtaken, or comes from a list that is out of
\* date, takes what is there, and a row without a name stands for all.
OnlyRemovedIsGone ==
  LET gone == PluginsOf(DOMAIN tree) \ {tree'[p] : p \in DOMAIN tree'}
  IN  \/ gone \subseteq asked
      \/ \E c \in sent : c.op = "remove" /\ (c.late \/ c.old = <<>>)
=============================================================================
