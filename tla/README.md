# A formal model of LuCI-in-docker

LuCI-in-docker runs OpenWrt's web interface in an Alpine container. The original
talks to a set of daemons over ubus; here a few Lua modules ("fake ubus") answer
the same calls from CGI processes, each of which lives for one request. So
there is no server that serialises anything: what the daemons used to guard is
now a number of files that short-lived processes read, rewrite and unlink, a
background script that sleeps, and a browser program that takes what comes
back. This project models that system in TLA+, checks it with TLC and proves
the most important facts with TLAPS.

All paths below are relative to `src/`; `base/` stands for
`luci/luci-base/luasrc/` and `js/` for
`luci/luci-base/htdocs/luci-static/resources/`.

## 1. The system

| Component | State it keeps | Operations | Talks to |
|---|---|---|---|
| Checked apply (`base/model/uci.lua`, `uci_rollback.lua`) | `/etc/config`, the staged deltas in `/tmp/.uci`, per token a backup of both and a confirm file | apply, confirm, rollback; the timer script | services (`luci-reload`), the dialog |
| Apply dialog (`js/ui.js`) | the modal dialog, a deadline, the request under way | apply, confirm, rollback, revert | `base/controller/admin/uci.lua` over HTTP |
| Login sessions (`base/sauth.lua`) | one file per session in `/tmp/luci-sessions` | setup, read, write, kill, reap, access, gen_acls | the dispatcher, every ubus call |
| Fake ubus (`luci/luci-fake-ubus`) | none of its own: the UCI files | `uci`, `file`, `luci`, `session`, `system` objects | `action_ubus`, UCI cursor |
| Dispatcher (`base/dispatcher.lua`) | `/tmp/luci-indexcache`, the request context | createtree, dispatch, check_authentication | sessions, controllers |
| CGI glue (`base/sgi`, `http.lua`, `ltn12.lua`) | the request being read, the response being written | parse, pump, the coroutine that yields the response | web server |
| cgi-io (`src/cgi-io`) | parser state, a temporary file | upload, download, backup, exec | web server |
| Socket forwarder, HTTP client | the rest of the current chunk | chunk readers, receivers | sockets |
| Browser runtime (`js/luci.js`) | the poll queue and timer, the request queue, loaded classes | Poll, Request, require | all views |
| Browser RPC (`js/rpc.js`) | outstanding calls | declare, call, list | `action_ubus` |
| Browser UCI cache (`js/uci.js`) | loaded values, creates, changes, deletes, reorder | load, add, set, remove, move, save, apply | RPC |
| Browser forms (`js/form.js`, `validation.js`, `cbi.js`) | the form tree, the values in the widgets | load, parse, save, render, depend | UCI cache |
| Browser UI (`js/ui.js`, `tools/widgets.js`, the themes' menus) | widgets, tabs in the session storage, one overlay, the indicators | select, browse files, show and hide dialogs, count changes | forms, file access |
| Browser network and firewall models (`js/network.js`, `firewall.js`) | a cache of the state of the network | lookups, rename, add, delete, flush | UCI cache |
| Plug-in manager (`luci-mod-plugin`, `init.sh`) | the directories below `/external/plugin` | list, enable, rename, clone, remove; merge at start | fake ubus (`file`), start-up |
| Server forms (`luci-compat` `cbi.lua`) | a Map and its nodes for one request | parse, save | UCI cursor |
| Server network and firewall models | none | rename, delete, add | UCI cursor |
| Bytecode cache (`base/ccache.lua`) | compiled files | load, write | every Lua process |
| Start-up (`init.sh`) | `/tmp/.luci` (sysroot), installed dependencies | merge, start | all of the above |

The hard behaviours are those of shared files without locks (apply, sessions,
the menu cache), of time (confirm deadlines, the rollback timer, session
expiry), of replies that come late or not at all, of a single-threaded page
whose callbacks change the queue that calls them, and of readers that are fed
their input in pieces. `PROJECT.json` lists them with their lines
under `hazards`.

What makes each part correct:

* a checked apply is either kept or undone, as a whole; a confirmation that was
  accepted stands; services run on the files that are there in the end;
* the dialog tells the truth about what the server did, and a device that can be
  reached is not rolled back;
* a user who keeps coming back stays logged in, and a logout ends the session;
* the poll loop passes no function by, a pause lasts, the header does not lie;
* every call gets its own reply, is carried out at most once and is settled;
* a reader returns the same data however its input is cut;
* a page comes up when its modules can be had, and a module is used when it is
  whole;
* what widgets, tabs, menus and indicators show is what is there, and what they
  give back is what the user put in;
* fields, tables and dependencies settle in what their conditions say;
* a network that was deleted is referred to by nobody, and who asks for the
  state anew gets nothing older;
* the page of the plug-in manager and the start script agree on what is on;
* what a form saves is what it showed, and what the server has afterwards; what
  the user has not touched is left alone.

## 2. The plan

In the order of importance; a tick marks what is there.

1. [x] `CheckedApply` (what an apply promises), `UciApply` (files and
   processes, and how they map to the promise), `UciApplyProofs`.
2. [x] `ApplyDialog`: the browser's side with a clock and a link that breaks.
3. [x] `Session`: session files, logins, logouts, reaping.
4. [x] `Poll`, `RpcBatch`, and `Page`, which composes them.
5. [x] `UciForm`: the browser's cache, the `uci` object of the fake ubus and the
   load/parse/save cycle of a form on top of them; `Depends`, `Grid`, and `Forms`,
   which puts them side by side.
6. [x] `ByteStream` (what a reader promises), `HttpBody` and `Upload`, which
   implement it; `Boot`; `Connection`.
7. [x] The parts of a page: `Options`, `Validation`, `AddressTypes`, `CbiDepends`,
   `Dropdown`, `FileBrowser`, `Tabs`, `Menu`, `Overlay`, `Changes`, `ClassSystem`,
   `Network`, `NetworkState`, `Lookups`, `Prng`; `Toolkit`.
8. [x] `Plugins`: the plug-in manager and the start script; `Gateway`.
9. [x] Proofs, first of what has the most interleavings: the refinement of
   `CheckedApply` step by step, the sessions, every property of `Page`, the
   safety of `Connection`, uploads, the plug-in manager, the saves of a form.
10. [x] Proofs about the parts of a page: the state of the network, deleted networks,
   `super`, the fields of forms, what the file browser, the list of
   changes and the overlay show, tabs, the menu; about the readers of replies, each a refinement
   of `ByteStream`.
11. [ ] The menu tree of the dispatcher and its cache; the access rights of a
   session; download and exec of cgi-io; the parse cycle of `cbi.lua`.

## 3. The modules

### Checked apply: `CheckedApply`, `UciApply`, `UciApplyProofs`

`UciApply` has one action per file operation, because that is the grain at which
CGI processes interleave. `config`, `staged`, `bakConfigs`, `bakChanges` and
`confirmFile` are the files; `pc`, `list`, `todo` the control state of each
`apply` call (uci.lua:383-430): read the list of changes, copy each file, copy
the staging area, create the confirm file, commit file by file, reload the
affected services one by one, fork the timer. `worker` is each run of
`uci_rollback.lua`, forked by the apply ("auto") or started by `rollback`
("manual"). `ConfirmAccess` and `ConfirmRemove` are the two system calls of
`confirm`. `Affected` is the closure under ucitrack that `_affected` computes
recursively. A restart wipes `/tmp` and all processes. The length of the
timeout is abstracted: a sleeping timer may wake at any time, which includes
every real timing.

`CheckedApply` is the promise of `uci.luadoc`: apply, keep and undo are single
steps. The refinement mapping, what of it the files hold, is at the end of `UciApply`.

### Connections: `ApplyDialog`, `Boot`, `Connection`, `ConnectionProofs`

`ApplyDialog` is the browser's side of a checked apply.

Seconds are counted, since everything here is about who gives up first: the
browser (deadline from the reply to `apply`, ui.js:4319-4326) or the timer
(sleeping since the commit). A request or a reply takes up to `Delay` on a good
link, any time on a broken one; a confirm that timed out may still arrive
(`stray`). `HandleApply`, `HandleConfirm` and `HandleQuery` are the controller
actions, `ConfirmCall` is the local function `call` of `confirm`.

`Boot` follows a page from its first script to its view (luci.js:2239-2760): each
class file is fetched once, whoever asks for it is given the promise in the table
`classes`, a file asks for what it depends on, and each arrival, loss and
instantiation is a step. `Reaches(c)`, what c requires directly or not, is the
least set that is closed under requiring. At its end is the page that asks for a
restart and pings until something answers; the restart itself is outside.

`Connection` puts these and `HttpBody` side by side: what must end well
although a connection breaks. A behaviour is of one of them, and the variables of
the others are `Unused`. They share no state that changes, so
that nothing is lost by it; side by side they are one question, one set of
bounds, and one assumption of fairness.

### Login sessions: `Session`

Every request reads its session file and writes it back (sauth.lua:62-83),
a login also reaps all files. `stored` holds, per session, no file, an empty file
(truncated by a writer that has not written yet) or the `atime` in it. An
unlinked file that a writer still has open is written without effect (`linked`).

### Page: `Poll`, `RpcBatch`, `Page`, `PageProofs`

`Poll` is the loop of luci.js:1045-1202 and what acts on it: `request.poll.add`,
the indicator, modal dialogs, the expired session. A step is split at every
entry, since a called function may throw, stop the loop, or add or remove
functions. `tick` keeps the distinction between never started or stopped
(`Undefined`), stopped by removal (0) and stopped inside a step (`NaN`), since
`add` decides by it. `RpcBatch` follows a ubus call from `rpc.declare` through
the request queue, `action_ubus` and back; a denied call makes a probe of its
own. `Page` composes both by `INSTANCE`: a polled function makes one call and
its promise settles with it; JavaScript handles one task at a time.

### Forms: `UciForm`, `Depends`, `Grid`, `Forms`, `FormsProofs`

`UciForm` begins with the methods of `js/uci.js` as operators on a record: the loaded
values and the maps `creates`, `changes`, `deletes` of one configuration; `noted`
says whether any of these maps has an entry, empty or not, because `save` drops
and loads again whatever is mentioned. `CallDelete`, `CallSet` and `Execute` are
what the fake `uci` object makes of the calls of one save, which `RpcBatch`
shows to share a request.

On top of it is one form of a NamedSection and a TypedSection. `cfg` is
what the options have loaded, `shown` what is in the input fields, `save[b]` how
far the save of button b has come: parsed and sent, stored, dropped and
loading, waiting for the access check, drawn. Parsing is synchronous, so it is
one action with the click; each promise that waits for the network is an action
of its own. A second button may save in any of these gaps, which is why a save
can find the configuration unloaded and join a load that is not its own
(`joining`). A check box shows a tick or none whatever the configuration holds;
a dependent option is active while the other one is `On`.

`Depends` has the fields of one section with all their alternatives (`!reverse`
and `!default`; `!contains` is left out), the two rounds of `checkDepends`, default
values that depend on other fields, and what parse writes of fields that share an
option. `Grid` is a table that is sorted: rows are dragged, added in place or in a
dialog, and removed, on top of the order that `uci.js` keeps and sends. A section
that is created gets a number above all others, as `1000 + newidx` is unless there are a
thousand sections; two sections
may have the same number (when a drag renumbers what is not deleted), and are then in
any order. `Forms` composes the three as `Connection` does: it extends `UciForm` and
`Grid` and instantiates `Depends`.

### Parts of a page: `Toolkit`, `ToolkitProofs`, `PartProofs`

`Toolkit` puts fifteen parts side by side, one per module;
each has its own state, taken through every sequence of uses
that its bounds allow:

| Module | Code | State and actions |
|---|---|---|
| `Options` | `form.js`, `tools/widgets.js`, `ui.js` | what each kind of option makes of a stored value and what it gives back; save and draw again |
| `Validation`, `AddressTypes` | `validation.js` | the program a data type is compiled into, run on the register `value`; the meaning of a type is stated beside it, without a register. Types are terms of at most `MaxNesting` levels, so that both are recursive functions |
| `CbiDepends` | `cbi.js` | what each field holds, in its order, and the entries that a pass of `cbi_d_update` has still ahead; one step per entry |
| `Dropdown` | `ui.js:880-2130` | list items, hidden inputs, the dynamic list |
| `FileBrowser` | `ui.js:2470-3010`, `fs.js` | browsers with the buttons that asked, answers under way |
| `Tabs` | `ui.js:3540-3815` | panes, what the session remembers |
| `Menu` | `dispatcher.lua`, `ui.js`, the themes | the tree, the page shown, the entries drawn |
| `Overlay` | `ui.js:3190-3530, 3860` | dialog, tooltip, notifications, indicators |
| `Changes` | `ui.js:3960-4470`, `uci.js` | requests for the list, the indicator, the dialog with its revert |
| `ClassSystem` | `luci.js:40-330` | the stack of calls, the slot of `super` per class |
| `Network` | `network.js`, `firewall.js` | the UCI cache; one action per call, four for `deleteNetwork` |
| `NetworkState` | `network.js:450-560` | the cache, refreshes under way and who waits for them |
| `Lookups` | `network.js` | names of wireless networks, routes |
| `Prng` | `tools/prng.js` | the four words of the generator |

`Values`, `Texts` and the like are members of small sets; where a text has a
structure the code looks at (a data type, an address, a path) it is a sequence of
pieces.

### Readers of streams: `ByteStream`, `HttpBody`, `Upload`

`ByteStream` is the promise of a reader: what it passes on is a prefix of what
was sent, and all of it when it says so. `HttpBody` follows a reply from the
socket to the sink: the line source of `nixio.util` (one action per complete
line and per read), the flush of its buffer, the block source, and the chunk
readers of the socket forwarder and of the HTTP client, with `Missing` being
where they differ. A reply is its body and the places at which a server that sends it in
chunks cuts it (`cuts`; a size line has one digit). A read returns any number of symbols that have arrived
(`Received`), `recvall` what it asked for unless the server closes (`ReceivedAll`).
The server may die at any point. The reader "file" is `request_to_file`, which
can be killed, break off and go on in another attempt with a range.

`Upload` has one action per state of the multipart parser; each takes one
symbol and says whether the current piece ends with it (`last`), so all cuts of
a request are covered. `h` is `struct state` of cgi-io, and the callbacks are
operators that yield the states they may lead to. `pending` is what lies between
`mark` and the current byte; the lookbehind buffer is a prefix of the delimiter,
whose length is `index`. A header value that is cut is searched for its quote one
byte beyond the piece, where anything may be, hence two outcomes. A symbol is a
byte, or a part of a header that the program treats as one; `Bytes` are the symbols
of files. The boundary is one the browser has chosen such that no file holds the
delimiter (`UploadAssumption`).

### The container: `Plugins`, `Gateway`, `GatewayProofs`

`Plugins` has the tree of directories below `/external/plugin`, the list a page has
drawn of it, the commands on their way (a page sends them by `fs.exec` and does not
wait), and what `init.sh` merges when the container starts. A path is a sequence of
names, and a list is put in order by counting: a row is numbered by how many lines of
the list come before its own (`Number`), and a plug-in is merged after as many as come
before it at the start (`MergeOrder`, from `Ahead`). Two lines are compared where their
paths part, with the slash behind a name that is not the last one (`EarlierLine`);
the start script sorts the directories at the top first and what is in each of them
then (`MergedBefore`), the page the whole lines, with the name of the file at the end
(`Line`). Names with two underscores in front, and
the name that is an underscore, are left out (`IsTree`, `Names`): nobody but a user
who marks by hand what is marked comes to them. `Gateway` puts `Session`, `Upload`
and `Plugins` side by side.

## 4. The runs

| Run | Question | Bounds and why they suffice |
|---|---|---|
| `apply_overlap` | Two applies and their timers in any interleaving: are confirmations final, backups complete, services current? | Two files, one of which is affected by a reload of the other, two contents, two tokens, two staging requests: enough for one apply to work inside another. Deeper dependencies are covered by the proof. |
| `apply_faults` | The same with failing commits, a restart and an explicit rollback beside the timer; does every timer decide? | One apply, both workers, all faults at every step. |
| `apply_refines` | Does the file-by-file code implement the atomic promise, one administrator at a time? | Two applies one after the other, three edits. |
| `apply_race` (violation) | Has `confirm` cancelled the timer when it answers true? | One apply. |
| `connection_outage` | Does the dialog end well and tell the truth; does a page come up from modules that can be had, and only whole ones; does the page that waits for a restart come back; is what a reader passes on what was sent, and does it stop? | Rollback 9 s, hold-off 2 s, request time-out 3 s: the proportions of the defaults (90, 4 and 5 s) with room for several retries; two outages of any length. One class of each sort (core, preload, view) with any dependencies, one lost file. Replies of up to two chunks, whose data look like a size line or a line end, plain and chunked; three attempts of a download. |
| `dialog_false_applied` (violation) | Is "applied" only shown for what was kept? | as above |
| `forms_saves` | Is what was saved what was shown, is the rest left alone, do form, cache and server agree afterwards; do fields settle; is the order of a table the one that was dragged? | Two sections, three options (plain, dependent, check box), two buttons; four events (inputs, clicks, failures, another tab's saves), so a save, a second one in the middle of it, a failure and an input can meet. Four fields in five shapes of dependencies, forwards, backwards, shared and with defaults; two edits. Three rows, one new and one foreign section, three acts. |
| `form_reset` (violation) | Does Reset take back everything that was not saved? | One section, one button, five events. |
| `page_busy` | (`Page` itself.) Does the page keep its promises while functions come, go, throw and stop the loop, calls are denied, fail or are lost, and the session ends? | Two functions and calls (one batch can hold both), six outside events in any order, one dialog. |
| `gateway_parts` | Are regular users served; does an upload come through as a whole, whatever pieces it comes in; do page and start agree on the plug-ins, and goes only what was removed? | Two processes, two sessions, an expiry of three ticks, four ticks. All files of up to three hyphens, CR and LF, and some with most of a delimiter; every cut of every request, every failure of a callback. Three names, trees with a directory inside a directory, plug-ins inside plug-ins, marked and unmarked, three clicks. |
| `session_logout` (violation) | Is a logout final? | as above |
| `toolkit_parts` | Does each part of a page show what is there, compute what it means, keep what was put in? | Two to five uses of each part, chosen such that a use, an answer that is late and a second use can meet; two or three of everything. Data types nested up to three deep, with one basic type for each way of treating the register; addresses of up to five pieces; all thirteen kinds of options and every stored value; words of two bits, which carry like those of sixteen. |

Deadlock checking is off in all runs: users need not act, the number of edits,
events and seconds is bounded, and each of these bounds lets a behaviour stop.

Fairness: `UciApply!FairSpec` and `Connection!FairSpec` assume weak fairness of the
steps of processes that have been started (the kernel schedules them), of the
browser's timers and of the requests of a page that comes up, of the container
once it restarts, of the repair of the link; that a reader takes what has arrived,
and that a server that was asked to close the connection does so after its reply.
Nobody is assumed to confirm, stage or roll back. The other runs assume none, and
their properties are safety properties.

The properties `PartsShowWhatIs` and `ComputedRightly` of `Toolkit` and
`SessionsHold` of `Gateway` are conjunctions of one property per part
(`IndicatorCounts`, `ShownIsListed` and so on); each part's own is stated and
commented in its module. The type invariant of a part that is composed is a
conjunct of the property of the composition that is about the part (`SessionsHold`,
`UploadIsWhole`, `PageAgreesWithStart`, `OnlyWhole`, `GoodLinkTellsTheTruth`,
`PagesComeUp`, `ResponseInOrder`).

Four runs show a disagreement between the code and what is said of it:

* `apply_race`: `confirm` looks for the confirm file and then removes it
  (uci.lua:434); between the two the timer may find it and roll back, while
  `confirm` answers true.
* `dialog_false_applied`: a confirm that reaches the server after the timer gets
  204 ("No data"), which the dialog takes for success (ui.js:4247).
* `session_logout`: a request that has read the session file before a logout
  unlinked it writes the file back (sauth.lua:78).
* `form_reset`: when one option does not validate or a request fails, what the
  others have parsed stays in the change set; Reset draws the old values, parse
  finds the fields unchanged and writes nothing over it, and the next save stores
  the input that was reverted (form.js:643, 2004).

## 5. The proofs

A run answers for a small instance, a theorem for every value of the constants
that satisfies the assumptions of its module. Each proof has the same frame: an
invariant that the initial states have and every step keeps, one lemma per kind
of step, and the property as a consequence of it; the last step of a theorem
puts these together. What follows names the invariants and says why the property
alone is not inductive.

### `UciApplyProofs`

For every choice of files, contents, dependencies, tokens, workers and bounds:

* `TypeCorrect`: `Spec => []TypeOK`; every action by itself, with the lemma that
  the closure `Affected` of a set of files is a set of files.
* `ConfirmationStands`: `Spec => []ConfirmStands`. The property speaks of the
  past: `ConfirmInv` adds that a token whose confirmation was answered while its
  timer slept has no confirm file any more and that nobody creates it again, so
  the timer can only clean up.
* `ServicesStayCurrent`: `Spec => []ServicesCurrent`. `OrderInv` relates the
  control state of a request to its file list; `ServiceInv` says that whenever a
  service does not run on the committed files, some apply or some rollback still
  *owes* it a reload: it will reload an affected set that contains the service.
  The step from files to services uses that `Affected` is monotone.
* `BackupStaysComplete`: `Spec => []BackupComplete`. `BackupInv` follows the backup
  while it is made (it holds what the loop has behind it) and says who may remove
  it: a worker that has found no confirm file.
* `ApplyIsAtomic`: `OneAtATime => (Spec => ImplementsCheckedApply)`. Under the
  conditions of the run `apply_refines` (applies do not overlap, no commit fails,
  no restart, no explicit rollback) the steps of `UciApply` are steps of
  `CheckedApply` or leave its state alone. The conditions are needed: two open
  applies have no single state to go back to, and the other three leave an apply
  half done (section 6). `RefInv` says that at most one request is active and how
  files, lists and progress of it hang together; on top of it one lemma per kind
  of step shows which step of the abstract specification it is. The apply takes
  effect when the confirm file is there, the rollback when the timer has found it.

### `GatewayProofs`

* `SessionsStayAlive`: `Spec => []SessionsHold`, for any number of processes and
  sessions and any bound on a request that is below half of the session time
  (`TimesAssumption`; the code has an hour and requests of seconds). `SessionInv`
  says for each request what it has done whatever came in between, for each
  session what its file says of the last visit, and of a writer whose file has
  been unlinked that it took its time before whoever created the new one.
* `UploadsArriveInOrder`: `Spec => UploadInOrder`, a refinement of `ByteStream`, and
  `UploadsAreWhole`: `Spec => []UploadIsWhole`; for any files over any `Bytes`, in
  whatever pieces the request comes. The parser copies nothing: what it hands on is
  cut out of the request by positions, and a byte that might begin the delimiter is
  kept back and handed on later from another place. `UploadInv` says where in the
  request each state of the parser is, and that what it takes for the beginning of a
  delimiter has been one so far (`PlaceInv`); that what waits to be handed on is the
  run of symbols before the current one, and the temporary file all before that
  (`PendingInv`); and what the callbacks have made of what they got (`CallbackInv`).
  That the parser leaves the file at its end and not before uses that the file does
  not hold the delimiter (`DelimiterIsTheEnd`). `UncutInv` says of a request of which no name, session or
  path was cut that each part has been recognised as what it is, so that the part
  with the file is stored and answered.
* `NothingElseIsRemoved`: `Spec => OnlyRemovedIsGone`, for any trees and names. A
  rename moves a directory with everything below it to a path that was typed or
  derived while the tree was another one; that it overwrites nothing rests on the
  tree holding, with a directory, those it lies in (`MoveIs`): then nothing is
  below a free path. `PluginInv` says of each removal on its way that, unless another
  command came first, it takes what its row stood for. That is where the exception in
  the property comes from.
* `PageAndStartAgree`: `Spec => []PageAgreesWithStart`, for any trees and names. The
  page and the start script order different lines by different rules; `SameOrder` shows
  that outside the three cases of `PartWays` two plug-ins come in the same order for
  both. It compares where two paths part (`LineAtPart`): there neither name begins like
  the other, and what stands behind them does not count (`BehindDoesNotCount`); or one
  plug-in lies inside the other, which the start merges later (`BeginningIsEarlier`).
  That a number of lines before a plug-in is the place it has, without gaps or doubles,
  is a fact about any finite set with a strict order (`PlacesAreTaken`, by
  `LeastOf`), and gives both the rows (`RowsAre`) and the order of merging
  (`MergeOrderIs`). `FetchInv` says that a plug-in on its way is not there yet and not
  on its way twice, so that it is in one directory afterwards; `Arises` that a rename
  doubles nothing.

### `PageProofs`

All six properties of `page_busy`, for any functions, intervals, access rights and
numbers of events:

* `IndicatorIsRight`: `Spec => []IndicatorTruthful`, by `LoopInv`.
* `PauseStays`: `MaxDialogs <= 1 => (Spec => []StopSticks)`. `HeldInv` says that only a
  dialog that found the loop running starts a paused one. With two dialogs the
  property is false (section 6), so the hypothesis stays.
* `EachCallIsMadeOnce` and `ExpiryHasAReason`: `Spec => []EachCallOnce`,
  `Spec => []ExpiryIsReal`. `RpcInv` has one part per thing that could go wrong: the
  replies of a request belong to its first calls and say what became of them
  (`RequestInv`), a call waits where its state says and only there (`CallInv`), a
  call asks exactly while its probe is on its way (`ProbeInv`), no call is in two
  requests (`Apart`). `PendingInv` joins the two halves of the page: an entry that
  the loop takes for pending has a call. The denied calls of a reply ask again in
  its order, all of them and each once (`InOrder`): that a finite set of numbers
  can be enumerated is shown by its least counterexample.
* `NoFunctionIsPassedBy`: `Spec => NobodyPassedBy`. `PassInv`: what a step has gone
  past is not due any more, unless an entry was cut out before it.
* `ExpiredPagesAreQuiet`: `Spec => ExpiredPageIsQuiet`. `NewPageInv`: a page whose
  loop has never started has nothing under way.

### `ConnectionProofs`

* `ClassesAreWhole`: `FairSpec => []OnlyWhole`, for any class files and dependencies.
  A class requires others through others, which no bounded argument covers.
  `WholeInv` says it without recursion: in every set of classes that are there, one
  requires no other of the set (the one that came first).
* `ReachableDevicesAreKept`: `FairSpec => ReachableIsKept`, for any times of which a
  time-out is longer than the way there and back, and any number of outages.
  `ClockInv` bounds how long everything has been under way, `PendingInv` says which
  confirm it is that is under way while the apply is pending.
* `GoodLinksTellTheTruth`:
  `Holdoff + 2 * Delay < RollbackTime => (FairSpec => []GoodLinkTellsTheTruth)`. The
  defaults are 4 and 90 seconds. Without the hypothesis the first confirm comes
  after the timer has gone off and is answered like a success (with a rollback
  time of 2, a hold-off of 1, a delay of 1 and a time-out of 3 TLC finds it).
  `GoodInv` lists the stages of an apply on a link that has not failed, with when
  each message was sent.
* `RepliesArriveInOrder`: `FairSpec => ResponseInOrder`, the readers of replies as a
  refinement of `ByteStream`: for any bodies, cut into any chunks of up to nine symbols
  (a size line of one digit) and received in any pieces, any size of the buffer that
  holds a header line, any number of attempts (`RepliesAssumption`). `Passed` is the
  property; `FlowInv` adds, per phase of a reader, which part of the reply the buffer
  and the connection still hold: a place behind the header (`HeaderInv`), all of what
  comes behind it (`SourceInv`), what follows the symbols passed on (`BlockInv`), the
  beginning of the chunk that is due (`ChunkInv`). A reply that breaks off in its header
  leaves what cannot be a size line, on a closed connection (`LeakInv`), which is why
  nothing is claimed of it later.

### `FormsProofs`

Of the form in `forms_saves`, for any sections, options,
dependencies and check boxes, any number of buttons that save at the same time, and
any number of events:

* `DifferencesNeverContradict`: `Spec => []CacheAgrees`. `CacheOK` adds that the three
  difference maps are empty while none is noted. A save parses all options at
  once; `ParseEffect` reduces it to what `set` does to each (`SetEffect`).
* `QuietFormsAreCurrent`: `Spec => []QuietFormIsCurrent`. `RestIsCurrent` follows what
  was fetched into the cache (`FetchedIsCurrent`) and from there to the form
  (`FormIsLoaded`): each holds from the moment on at which the last failure and the last
  save that crossed are left behind. `NotedIsDue` says whose a difference in the cache
  is: it is being sent, or a save has failed since the cache was dropped.
* `SavesStoreWhatIsShown`: `Spec => SaveStoresWhatIsShown`, and `SavesLeaveTheRest`:
  `Spec => SaveLeavesUntouched`. What a save will do to an option is settled when it is
  pressed (`SaveAims`), while the request is carried out later; `SentIsMeant` carries
  it over what the user types, the form redraws and others store in between.

The proof showed what the run is too small for (it needs five events): a save
that fails while another one loads leaves its differences in the cache, the load
does not take them away, and the next save sends them. That no save has failed since
the configuration was loaded is not enough, therefore, for the last three properties:
`failed` asks since when the cache was dropped.

Of the fields that depend on each other, for any number of fields in any order, with any
dependencies, default values and shared options (`DependsAssumption` asks that no field
stands twice in the order, `ShapeOK` that dependencies are on fields of the section):

* `FieldsAreSettled`: `Spec => []FieldsSettle`. `FieldInv` is the property with the type of
  a page, so the steps are simple; the work is in what two rounds do. A round is a fold
  over the fields; `FoldExists` and `FoldRuns` make a run of pages of it, in which
  `Between` says what one field has read: of fields before it the new page, of the others
  the old one (`Round`). `RoundDecides` follows for a form in which nothing is read before it is decided;
  `ChainStays`, by induction along the run (`Upward`), says that a set of fields
  which read nothing but each other, and nothing too early, is not changed by the second
  round, and `TwoRoundsDecide` puts both together. The proof refuted an earlier
  definition of `TwoRoundsDo`, which let a field depend on itself: one that is shown
  unless it has a value never settles, as hidden fields have none. No shape of the run had
  such a field; TLC confirms it on one that has.
* `SharedOptionsAreKept`: `Spec => SharedIsKept`. `SaveIs` says what a save makes of an
  option: along the run of `Parsed`, the fields of an option that are hidden do nothing
  to it as long as the one that is shown declares it (`HiddenParse`), and the shown one
  writes what it means (`ShownParse`).

Of the table, for any sections of any types (finitely many), any names of new sections,
and whether libuci counts places from 0 or from 1:

* `TablesAreInOrder`: `Spec => []TableOrderHolds`. `TableInv` says how the three orders
  at hand are related, that of the rows, that of the numbers in the cache and that of the
  server, and for how long. Rows and numbers agree unless a row was dragged where the cache
  would not follow (`RowsAreInOrder`). While no save has failed and none is under way that
  will load everything again, the table hides no section (`NothingIsHidden`), and what the server
  has, or is about to be sent, is in the order of the numbers unless that order is marked
  as changed (`OrderIsKept`). The list that is sent contains all the server has (`ListIsWhole`).
  The lemmas say what the operators on sequences do to which section stands before
  which (`Before`): `WithoutRow`, `Inserted`, `PlacedIs`, `ByIndexSorts`; two sequences of the same
  sections with the same order are the same (`SameRow`). `CallOrderSorts` is why
  numbers that are sent one after the other bring about the order, although every
  section that is moved shifts others, and although the list has new sections in it that
  the server does not know: after i steps the first i of the list are in its order, and
  none of them stands behind its place (`InPlace`), so that the next one, put at its place,
  comes to stand behind them all.

The proof changed the model in two places: sorting had resolved equal numbers in a
way that the code does not promise, and a new section's number was one more than the
number of sections, which is taken when a created section has been removed before.

### `ToolkitProofs` and `PartProofs`

Each part of `Toolkit` keeps its own constants and assumptions, and a behaviour is of
one part (`PartStays`). The lemmas about the two parts that `Toolkit` extends, `Menu` and
`ClassSystem`, are in `PartProofs`.

* `FlushesAreFresh`: `Spec => FlushIsFresh`, for any number of callers, refreshes and
  changes of the router. `Awaited` says of each caller that the refresh it waits for has
  been served after the call, if it has been served, although others flush in between.
* `DeletedNetworksAreForgotten`: `Spec => []DeletedIsForgotten`, for any names, sections
  and zones. A network is deleted in steps between which other calls come:
  `DeletionInv` says that a deletion that has come to the zones has left nothing
  elsewhere unless the network was named again. `ConnectInv` adds, for the forwardings,
  that zones have names of their own.
* `SuperReachesTheNext`: `Spec => []SuperClimbs`, for any classes and any nesting of
  calls and errors. The slot of a class is shared by all calls on objects of that
  class. `ClassInv` gives each call that came by `super` the height at which the slot
  stood then: along the stack heights rise, and without errors the slot has exactly one
  entry per height. The heights are not in the code; each step says which to take.
* `ShownFieldsAreMet`: `Spec => []OnlyMetAreShown`, for any pages and tables, fields that
  depend on each other in a circle included (an update that ends is right; that it ends
  needs their absence, and is only checked). `CbiInv`: as long as a pass has moved nothing, what it has
  gone by is settled. That a field is in the document is the existence of a chain of
  parents (`InDocument`), so that no induction over the tree is needed.
* `WhatIsShownIsSo`: `Spec => []PartsShowWhatIs`. `FilesInv` is inductive by itself; `ChangesInv` says
  that the last answer under way will be right (`Counts`); `OverlayInv` says of the
  dialog whose it is (`Answerable`), of notifications that newer ones stand above
  older ones, and of the indicators that they stand in the order of their names.
* `TabsAreRemembered`: `Spec => [][part = "tabs" => TabMenu!TabIsRemembered]_vars`.
  `TabsInv`: the session data hold what was last chosen in each group, unless another group
  with the same path has written over it.
* `MenusLead`: `Spec => []MenuLeads`, for any finite tree whose names are numbers, and any
  marking of its nodes. The inductive part, `MenuInv`, is small: the menu is the tree as
  scrubbed, and the page at hand can be shown. The work is in what the recursive functions
  of the tree mean. That each satisfies its equation follows from its existence (`SentOn`
  for a function that sends its argument on to another node, `ScrubbedIs` for the scrubbed
  tree, a greatest fixed point; `Repeated` for the clicks); what it returns follows from the
  deepest node for which it would not (`DeepestNode`), as the tree is finite. No theorem on
  induction is needed. `WayDown` and `TabsGoOn` then follow the user down the tree, a
  click for each level.

### What stays with TLC

* Liveness (`TimerDecides`, `GoodLinkApplies`, `PagesComeUp`, `ReaderStops`,
  `CompleteIsPassedOn`): it rests on fairness, hence on ENABLED, which the proof
  system does not reason about.
* What is computed by recursion over data, or by the recursive operators of the
  community modules: the programs of `Validation`,
  `Lookups`, the generator `Prng`. The theorems on induction in the
  library take an operator as a parameter, which the provers at hand cannot
  instantiate; `MenusLead` shows the way round it for functions over a finite tree, and
  `FieldsAreSettled` and `TablesAreInOrder` for folds over a sequence, and
  `PageAndStartAgree` for sorting, as counting what comes before. What remains is
  `ComputedRightly`.
* The half of `InputIsKept` that is about `Options`: what a kind of option makes of a
  text is a computation of that sort. Its other half is `TabsAreRemembered`.

## 6. What else the models show

These are consequences of the code that no run states as a property, because no
document or comment promises otherwise, or because the failing promise is too
vague to state:

* A commit that fails half-way leaves the files before it committed; the restore
  that should follow uses variables `fs` and `uci` that do not exist
  (uci.lua:365-375, 424), so the request dies, without a timer (`CommitFails`).
* A restart of the container during a checked apply loses timer and backups: the
  apply is neither confirmed nor undone, and stays (`Restart`).
* `uci_rollback.lua:45` tests an undefined variable, so an explicit rollback waits
  and decides like the timer does (`Rollback` starts a worker that sleeps).
* An apply that is still open is rolled back together with a later, confirmed
  one, as far as both changed the same files.
* After an outage the dialog can say "rolled back" of a kept change (`QueryReply`
  does not look at what the server did), and it hangs when the reply to `apply`
  is lost (`Unhandled`).
* A request that reads a session file which another has just truncated dies
  (`LoadFails`).
* `Poll.step` walks the queue by index while its functions may cut entries out
  (luci.js:1178), so the entry after a removed one is passed by: `NobodyPassedBy`
  excludes exactly that. A function that throws is never called again (`Dead`),
  and in the first step it also keeps `poll-start` from being dispatched.
* `add` does not start a loop that was never started or was stopped, contrary to
  the comment at luci.js:1055; a `stop` from inside a step leaves `NaN`, after
  which `add` does start it.
* `was_polling` (ui.js:4166) is never reset: from the second dialog on the loop
  is not suspended, and closing it starts a loop the user had paused. `StopSticks`
  therefore is checked with `MaxDialogs = 1`; it fails with 2.
* "Session expired" is shown for any failed probe (luci.js:2709), also after a
  lost request: `ExpiryIsReal` excludes behaviours with such a failure.
* `uci.js` sends a new section with an argument `values`, which the fake `uci`
  object calls `value`, and the deletion of a section without options, which the
  object ignores: new sections vanish at the reload that follows, removed ones
  come back (`CallDelete`, `Execute`).
* Two buttons can save at once. A form drawn while the other save has dropped the
  cache shows no sections, and a third save in the moment between that load and
  the next redraw removes every option that is not shown. `QuietFormIsCurrent`, `SaveStoresWhatIsShown` and
  `SaveLeavesUntouched` therefore speak of saves that do not cross (`crossed`).
* A save that fails while another one loads the configuration leaves its
  differences behind: `Fetched` brings new values, the differences stay on top of
  them, and the next save sends them although it follows a load that went well
  (uci.js:226-234, 871-887).
* A save after a failed one may compare fields that were drawn with values that
  were loaded later, and removes empty fields that another tab has filled;
  `SaveLeavesUntouched` excludes it (`failed`).
* Check boxes are always written and overwrite another tab's change; what is typed
  during a save is lost when the form is drawn again (`Drawn`).
* A load that failed is remembered: every later load of the configuration fails
  until a save drops it (`broken`).
* One error in one call of a batch answers 500 for the whole batch
  (dispatcher.lua:1016): calls that were carried out are rejected.
* A request to cgi-io that is cut inside a header or part name loses that part
  (multipart_parser.c:181, main.c:285): the file is dropped without an answer. If
  the cut is inside the session id or the path, the last piece replaces the
  whole (main.c:350-357): access is denied, or the file goes to another path.
  `UploadIsWhole` excludes such a cut, which takes a
  read that returns before the 4096 bytes of a block are there.
* A chunked reply that breaks off makes both chunk readers ask a closed socket for
  ever (socket_forwarder:44, httpclient.lua:25); `ReaderStops` excludes it.
* A reply that breaks off inside its header block is ended like by an empty line
  by the forwarder, which sends the rest of the block as the body (`leaked`).
* A plain body that breaks off is reported as complete, since nobody looks at
  `Content-Length`: `claimed` leaves that out for plain bodies.
* `httpclient.lua:52` counts on a buffer it has just emptied and would skip the
  next bytes of the stream. It does no harm, because `request_raw` has read
  everything up to the end of the connection before (httpclient.lua:387).
* For the same reason `request_to_file` writes a chunked body with its framing to
  the file and then asks a closed socket for ever (receiver.lua:223, 267): the
  reader "file" is modelled for plain bodies only. It also ignores the result of
  writing the buffer (receiver.lua:223), and a body that changes between two
  attempts is not noticed; neither is in the model.

Forms and tables:

* `checkDepends` makes two rounds (form.js:748). Fields that depend on each other
  against the order they are drawn in need one round each: `FieldsSettle` excludes
  chains on which there is more than one such step, and fields that depend on
  themselves (`TwoRoundsDo`).
* A field that is inactive removes its option only when no active sibling writes
  it; the test looks at `ucioption` (form.js:2070), which siblings that are named
  like the option do not have. The model gives it to them.
* A dialog whose save failed forgets that it had added its section
  (form.js:3016-3019), so a later dismiss does not take the section back.
* What an option shows is not always what is stored: a list choice that is not
  offered becomes the first one at the next save (ui.js:786), and the network
  select shows of a list what exists (widgets.js:366-382). `InputIsKept` excludes
  what cannot be shown.
* Dependencies that form a cycle make `cbi_d_update` call itself for ever
  (cbi.js:216) if nothing they can show agrees with them: `UpdateEnds` is about fields that
  do not depend on themselves.

Parts of a page:

* The register of a validator is left as the last alternative wrote it
  (validation.js:41, 491, 504). `MarkedRightly` and `AlternativesSeeTheText` say where it
  does no harm; an address of seven groups and a double colon at its end is refused
  (validation.js:202).
* `super` keeps its place in a slot per class: a method that throws leaves it there,
  and the next call starts from it (luci.js:299); a method that is inherited and
  calls `super` runs twice (278). `SuperClimbs` leaves out a class in which an error
  has cut a call short.
* A class file that is lost stays lost: its rejected promise remains in the table
  (luci.js:2546), and an address for ubus calls that was fallen back on is kept.
* The tabs of two groups with the same place on their pages share what is remembered
  (ui.js:3603).
* `find_subnode` enters nodes whose dependencies are not met (dispatcher.lua:662),
  and the menus sort by a comparison that answers true or false where a number is
  expected (ui.js:3117).
* All dialogs share one overlay: an upload that is under way when another dialog is
  opened writes into that one, and a reply that is no JSON leaves the dialog of an
  upload for ever (ui.js:3866). The dialog of a revert whose answer is lost stays,
  too (ui.js:4363).
* Lists of changes are taken in the order they arrive (ui.js:3977): an older one that
  comes last makes the indicator wrong until the next load. `IndicatorCounts`
  excludes it.
* A colour may come out with seven digits (prng.js:105).

Networks:

* A refresh of the state that was asked for early may end after a later one, and the
  older state is what everybody sees from then on (network.js:523, 541).
  `FlushIsFresh` speaks of what its caller is given.
* A network that was deleted but is in the state can be "added": `addNetwork` returns
  it without a section (network.js:942), although its comment promises null or a new
  network (915-927).
* `renameNetwork` leaves the networks of the firewall zones alone (network.js:1076),
  and deleting a wireless network by a name with `@` in it deletes nothing.
* A name that a wireless network has of its own hides the place of another one, and
  the other way round (network.js:149, 1431, 1500, 1705): `WifiIsFound` speaks of
  names that are unambiguous.

The container:

* The page of the plug-in manager and the start script have different rules for
  directories that are switched off inside others, and order "a" and "a-b"
  differently (init.sh:113). A plug-in that lies inside another one is merged after
  it, but the page, which compares with the `Makefile` of the outer one, lists it
  first when its directory sorts before that name (plugin.js:163).
  `PageAgreesWithStart` excludes these three (`PartWays`).
* A removal is sent with the path in the list the page has drawn; when a rename came
  first it removes what is there now, which `OnlyRemovedIsGone` excludes. A plug-in
  whose file is called `makefile` is listed without a name.
* After asking for a restart the page may find the server that has not stopped yet
  and is loaded from it (ui.js:3955).

## 7. Not modelled

`PROJECT.json` lists every component with its status and what is left out of it.
Left out:

* the bytecode cache, which is off by default in this container;
* the HTTP protocol utilities (comparisons of dates and tags, no state), the JSON
  library (a sequential parser), the time zone tables, templates and translation,
  the shell libraries (wrappers of the uci command);
* the rpcd plug-in, which the fake ubus replaces in this container;
* the forms and the network and firewall models of the server (`luci-compat`): one
  request is one sequential pass; their browser side is `CbiDepends`;
* rendering, keyboard focus, the layout of widgets, and views other than the plug-in
  manager and the reboot page;
* the building of the dispatcher's tree from files and its cache, and the access
  rights of a session, which appear as a verdict per call: see the plan;
* download, backup and exec of cgi-io, each a loop from a pipe to the standard output.
