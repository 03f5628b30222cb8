---------------------------- MODULE FileBrowser ----------------------------
(***************************************************************************)
(* UIFileUpload of ui.js over fs.js: widgets that choose a file on the     *)
(* device.  Each has a browser that lists a directory and from which files *)
(* and directories are entered, uploaded, deleted and selected.  Listings, *)
(* removals and uploads are answered in any order, and what an answer does *)
(* depends on what has become of the button that asked for it.             *)
(***************************************************************************)
EXTENDS Naturals

CONSTANTS Widgets,
          Root,     \* the option root_directory
          Dirs,     \* directories below it, one level deep
          Files,
          HeldBy,   \* the directory each of them is in
          None,     \* no value
          MaxClicks \* bound: clicks

VARIABLES
  there,  \* the directories and files on the device
  value,  \* hidden input: the selected file
  place,  \* directory of this.stat, or the root: where the browser starts
  open,   \* class "open" of the browser
  dir,    \* the directory the browser shows
  rows,   \* the entries with links and buttons; none while it says "Loading"
  waits,  \* requests under way, with their results
  clicks

vars == <<there, value, place, open, dir, rows, waits, clicks>>

Entries == Dirs \cup Files
Places == Dirs \cup {Root}
Content(d) == {e \in there : HeldBy[e] = d}
Gone(e) == {e} \cup {f \in Files : HeldBy[f] = e}

\* A request: for which widget, what, of which path, the result, what was
\* listed, and whether the button that was clicked is still in the page.
Requests == [w : Widgets, op : {"browse", "list", "remove", "upload"}, path : Entries \cup {Root},
             result : {"asked", "failed", "ok"}, listed : SUBSET Entries, attached : BOOLEAN]

TypeOK ==
  /\ there \subseteq Entries
  /\ value \in [Widgets -> Files \cup {None}] /\ place \in [Widgets -> Places]
  /\ open \in [Widgets -> BOOLEAN] /\ dir \in [Widgets -> Places]
  /\ rows \in [Widgets -> SUBSET Entries]
  /\ waits \subseteq Requests
  /\ clicks \in 0 .. MaxClicks

\* render: this.stat is set if the file is there.
Init ==
  /\ there = Entries
  /\ value \in [Widgets -> Files \cup {None}]
  /\ place = [w \in Widgets |-> IF value[w] = None THEN Root ELSE HeldBy[value[w]]]
  /\ open = [w \in Widgets |-> FALSE] /\ dir = [w \in Widgets |-> Root]
  /\ rows = [w \in Widgets |-> {}]
  /\ waits = {} /\ clicks = 0

Click == clicks < MaxClicks /\ clicks' = clicks + 1
Request(w, op, path) ==
  [w |-> w, op |-> op, path |-> path, result |-> "asked", listed |-> {}, attached |-> TRUE]

\* Buttons of widget w that leave the page: those in rows, or all of them.
Detach(set, w, ops) ==
  {IF r.w = w /\ r.op \in ops THEN [r EXCEPT !.attached = FALSE] ELSE r : r \in set}

-----------------------------------------------------------------------------
(* What users click.                                                       *)

\* handleFileBrowser, from the button, which is hidden while the browser is
\* open and disabled while its request is under way.
HandleFileBrowser(w) ==
  /\ Click /\ ~open[w]
  /\ ~ \E r \in waits : r.w = w /\ r.op = "browse"
  /\ waits' = waits \cup {Request(w, "browse", place[w])}
  /\ UNCHANGED <<there, value, place, open, dir, rows>>

\* handleSelect of a directory, from its row or from the path above.
Enter(w, d) ==
  /\ Click /\ open[w]
  /\ d \in rows[w] \cup {Root, dir[w]}
  /\ rows' = [rows EXCEPT ![w] = {}]
  /\ waits' = Detach(waits, w, {"remove"}) \cup {Request(w, "list", d)}
  /\ UNCHANGED <<there, value, place, open, dir>>

\* handleSelect of a file.
Select(w, f) ==
  /\ Click /\ open[w]
  /\ f \in rows[w]
  /\ value' = [value EXCEPT ![w] = f]
  /\ place' = [place EXCEPT ![w] = HeldBy[f]]
  /\ open' = [open EXCEPT ![w] = FALSE]
  /\ UNCHANGED <<there, dir, rows, waits>>

\* handleReset and handleCancel.
Reset(w) ==
  /\ Click /\ open[w] /\ value[w] \in rows[w]
  /\ value' = [value EXCEPT ![w] = None]
  /\ open' = [open EXCEPT ![w] = FALSE]
  /\ UNCHANGED <<there, place, dir, rows, waits>>

Cancel(w) ==
  /\ Click /\ open[w]
  /\ open' = [open EXCEPT ![w] = FALSE]
  /\ UNCHANGED <<there, value, place, dir, rows, waits>>

\* handleDelete gives the selection up before the file is gone.
HandleDelete(w, e) ==
  /\ Click /\ open[w]
  /\ e \in rows[w]
  /\ ~ \E r \in waits : r.w = w /\ r.op = "remove" /\ r.path = e /\ r.attached
  /\ value' = IF value[w] = e THEN [value EXCEPT ![w] = None] ELSE value
  /\ waits' = waits \cup {Request(w, "remove", e)}
  /\ UNCHANGED <<there, place, open, dir, rows>>

\* handleUpload to the directory the browser shows.
HandleUpload(w, f) ==
  /\ Click /\ open[w]
  /\ HeldBy[f] = dir[w]
  /\ ~ \E r \in waits : r.w = w /\ r.op = "upload" /\ r.attached
  /\ waits' = waits \cup {Request(w, "upload", f)}
  /\ UNCHANGED <<there, value, place, open, dir, rows>>

-----------------------------------------------------------------------------
(* The device answers; handleRpcReply and handleCgiIoReply turn what is    *)
(* not a success into an error, and an error of list into an empty list.   *)

Answer(r, result) ==
  /\ r.result = "asked"
  /\ result = "ok" => r.path = Root \/ r.path \in there \/ r.op = "upload"
  /\ result = "ok" /\ r.op = "upload" => HeldBy[r.path] \in there \cup {Root}
  /\ there' = IF result = "ok" /\ r.op = "remove" THEN there \ Gone(r.path)
              ELSE IF result = "ok" /\ r.op = "upload" THEN there \cup {r.path}
              ELSE there
  /\ waits' = (waits \ {r}) \cup
                {[r EXCEPT !.result = result,
                           !.listed = IF result = "ok" THEN Content(r.path) ELSE {}]}
  /\ UNCHANGED <<value, place, open, dir, rows, clicks>>

Answered(op) == {r \in waits : r.op = op /\ r.result # "asked"}

\* renderListing replaces the whole browser.
RenderListing(r) ==
  /\ dir' = [dir EXCEPT ![r.w] = r.path]
  /\ rows' = [rows EXCEPT ![r.w] = r.listed]
  /\ waits' = Detach(waits \ {r}, r.w, {"remove", "upload"})

\* Faulty variant of Opens: the others stay open.
OpensToo(w) == [v \in Widgets |-> v = w \/ open[v]]

\* Whatever browser is open is closed.
Opens(w) == [v \in Widgets |-> v = w]

Browsed(r) ==
  /\ r \in Answered("browse")
  /\ open' = Opens(r.w)
  /\ RenderListing(r)
  /\ UNCHANGED <<there, value, place, clicks>>

Listed(r) ==
  /\ r \in Answered("list")
  /\ RenderListing(r)
  /\ UNCHANGED <<there, value, place, open, clicks>>

\* handleSelect of the directory again, from the button that was clicked: if
\* it is no longer in the page, that is an error, which the user is told as
\* if the removal had failed.
Again(r, path) ==
  /\ rows' = [rows EXCEPT ![r.w] = {}]
  /\ waits' = Detach(waits \ {r}, r.w, {"remove"}) \cup {Request(r.w, "list", path)}

Removed(r) ==
  /\ r \in Answered("remove")
  /\ IF r.result = "ok" /\ r.attached
     THEN Again(r, HeldBy[r.path])
     ELSE waits' = waits \ {r} /\ UNCHANGED rows
  /\ UNCHANGED <<there, value, place, open, dir, clicks>>

\* A reply that is no JSON ends it; a failure that the reply tells does not.
Uploaded(r) ==
  /\ r \in Answered("upload")
  /\ IF r.attached
     THEN Again(r, HeldBy[r.path])
     ELSE waits' = waits \ {r} /\ UNCHANGED rows
  /\ UNCHANGED <<there, value, place, open, dir, clicks>>

Next ==
  \/ \E w \in Widgets :
       \/ HandleFileBrowser(w) \/ Reset(w) \/ Cancel(w)
       \/ \E d \in Places : Enter(w, d)
       \/ \E f \in Files : Select(w, f) \/ HandleUpload(w, f)
       \/ \E e \in Entries : HandleDelete(w, e)
  \/ \E r \in waits : \/ \E result \in {"ok", "failed"} : Answer(r, result)
                      \/ Browsed(r) \/ Listed(r) \/ Removed(r) \/ Uploaded(r)

Spec == Init /\ [][Next]_vars

-----------------------------------------------------------------------------
\* One browser is open at most, in whatever order the listings arrive with
\* which several widgets want to open theirs.
OneBrowserOpen == \A v, w \in Widgets : open[v] /\ open[w] => v = w
=============================================================================
