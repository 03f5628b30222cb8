------------------------------ MODULE Toolkit -------------------------------
(***************************************************************************)
(* What the pages in the browser are built from, side by side.  A          *)
(* behaviour is of one of the parts, as in Forms.                          *)
(*                                                                         *)
(*   choice   the drop-down list and the dynamic list: Dropdown            *)
(*   files    the file browser: FileBrowser                                *)
(*   tabs     the tab menus and what the session remembers: Tabs           *)
(*   types    the validators of data types: Validation                     *)
(*   address  the data types of addresses and ports: AddressTypes          *)
(*   overlay  dialog, tooltip, notifications and indicators: Overlay       *)
(*   options  what an option makes of a stored value, and back: Options    *)
(*   legacy   dependencies in forms that the server draws: CbiDepends      *)
(*   menu     the menu and where its entries lead: Menu                    *)
(*   classes  methods that call what they override: ClassSystem            *)
(*   colours  the pseudo-random colours of zones: Prng                     *)
(*   network  networks, interfaces and zones in the cache: Network         *)
(*   lookups  wireless networks and the ways to the outside: Lookups       *)
(*   state    the state of the network, which all classes share:           *)
(*            NetworkState                                                 *)
(*   changes  the indicator of unsaved changes and its dialog: Changes     *)
(***************************************************************************)
EXTENDS Menu, ClassSystem, Integers, SequencesExt

CONSTANTS None,
          Keys, Empty, Placeholder, MaxUses,
          Widgets, Root, Dirs, Files, HeldBy, MaxClicks,
          Groups, Views, PathOf, Panes, NoPane, MaxMoves,
          Types, Contents, MaxNesting, Addresses, Words,
          Unknown, Glued, Kinds, MaxSaves,
          Shapes, Top, Values, MaxInputs,
          W, Half, Multipliers,
          Names, Devs, Refs, Radio, ZoneIds, ZoneNames, Fwds, MaxCalls,
          Ports, Bridges, Callers, Unset, MaxChanges, MaxRefreshes,
          Unread, MaxAsked, MaxStaged, MaxTries,
          Texts, Radios, Given, Made, Ifnames, Faces, Metrics, MaxEdits,
          Uploads, Targets, Ids, Somebody, MaxActs

VARIABLES
  part,
  kind, optional, create, ul, hidden, open, items, cleared, uses,
  there, value, place, browsing, dir, rows, waits, clicks,
  page, empty, active, marked, stored, chosen, crossed, moves,
  type, frames, program, content, valid, seen, address,
  opt, option, shown, touched, saves,
  cbiPage, children, inputs, cbiAhead, moved, passes, entered,
  multiplier, seed, drawn,
  iface, ref, wifi, zone, fwd, fw, running, ifaces, del, retired, calls,
  router, vlans, cache, refresh, current, call, used,
  written, wanted, verdict,
  saved, wireless, radios, routes, edits,
  overlaid, dialog, uploads, attached, disturbed, tooltip, messages, raised, dismissed, indicators, acts,
  staged, asked, indicator, list, box, excused, tries

Choice == INSTANCE Dropdown WITH list <- items
Browser == INSTANCE FileBrowser WITH open <- browsing
TabMenu == INSTANCE Tabs
Checks == INSTANCE Validation
Option == INSTANCE Options WITH stored <- option
Legacy == INSTANCE CbiDepends WITH page <- cbiPage, ahead <- cbiAhead, value <- inputs, inputs <- entered
Random == INSTANCE Prng WITH by <- multiplier, s <- seed, out <- drawn
Networks == INSTANCE Network
State == INSTANCE NetworkState
Address == INSTANCE AddressTypes WITH entered <- written, kind <- wanted
Lookup == INSTANCE Lookups
Layer == INSTANCE Overlay WITH active <- overlaid, chosen <- attached
Changed == INSTANCE Changes

ASSUME ToolkitAssumption ==
  /\ TabMenu!TabsAssumption /\ Checks!ValidationAssumption
  /\ Legacy!CbiAssumption /\ Random!PrngAssumption
  /\ Networks!NetworkAssumption /\ State!StateAssumption
  /\ Layer!OverlayAssumption /\ Changed!ChangesAssumption

choiceVars == <<kind, optional, create, ul, hidden, open, items, cleared, uses>>
fileVars == <<there, value, place, browsing, dir, rows, waits, clicks>>
tabVars == <<page, empty, active, marked, stored, chosen, crossed, moves>>
typeVars == <<type, frames, program, content, valid, seen, address>>
optionVars == <<opt, option, shown, touched, saves>>
legacyVars == <<cbiPage, children, inputs, cbiAhead, moved, passes, entered>>
colourVars == <<multiplier, seed, drawn>>
networkVars == <<iface, ref, wifi, zone, fwd, fw, running, ifaces, del, retired, calls>>
stateVars == <<router, vlans, cache, refresh, current, call, used>>
addressVars == <<written, wanted, verdict>>
lookupVars == <<saved, wireless, radios, routes, edits>>
overlayVars == <<overlaid, dialog, uploads, attached, disturbed, tooltip, messages, raised, dismissed, indicators, acts>>
changeVars == <<staged, asked, indicator, list, box, excused, tries>>
vars == <<part, choiceVars, fileVars, tabVars, typeVars, optionVars, legacyVars,
          menuVars, classVars, colourVars, networkVars, stateVars, addressVars,
          lookupVars, overlayVars, changeVars>>

ChoiceOff ==
  /\ kind = 0 /\ optional = 0 /\ create = 0 /\ ul = 0 /\ hidden = 0 /\ open = 0 /\ items = 0
  /\ cleared = 0 /\ uses = 0
FileOff ==
  /\ there = 0 /\ value = 0 /\ place = 0 /\ browsing = 0 /\ dir = 0 /\ rows = 0 /\ waits = 0
  /\ clicks = 0
TabOff ==
  /\ page = 0 /\ empty = 0 /\ active = 0 /\ marked = 0 /\ stored = 0 /\ chosen = 0 /\ crossed = 0
  /\ moves = 0
TypeOff ==
  /\ type = 0 /\ frames = 0 /\ program = 0 /\ content = 0 /\ valid = 0 /\ seen = 0 /\ address = 0
OptionOff == opt = 0 /\ option = 0 /\ shown = 0 /\ touched = 0 /\ saves = 0
LegacyOff ==
  /\ cbiPage = 0 /\ children = 0 /\ inputs = 0 /\ cbiAhead = 0 /\ moved = 0 /\ passes = 0
  /\ entered = 0
MenuOff ==
  /\ action = 0 /\ first = 0 /\ untitled = 0 /\ unmet = 0 /\ menu = 0 /\ at = 0
ClassOff ==
  /\ defines = 0 /\ stack = 0 /\ context = 0 /\ pending = 0 /\ soiled = 0 /\ sends = 0
ColourOff == multiplier = 0 /\ seed = 0 /\ drawn = 0
NetworkOff ==
  /\ iface = 0 /\ ref = 0 /\ wifi = 0 /\ zone = 0 /\ fwd = 0 /\ fw = 0 /\ running = 0 /\ ifaces = 0
  /\ del = 0 /\ retired = 0 /\ calls = 0
StateOff ==
  /\ router = 0 /\ vlans = 0 /\ cache = 0 /\ refresh = 0 /\ current = 0 /\ call = 0 /\ used = 0
AddressOff == written = 0 /\ wanted = 0 /\ verdict = 0
LookupOff == saved = 0 /\ wireless = 0 /\ radios = 0 /\ routes = 0 /\ edits = 0
OverlayOff ==
  /\ overlaid = 0 /\ dialog = 0 /\ uploads = 0 /\ attached = 0 /\ disturbed = 0 /\ tooltip = 0
  /\ messages = 0 /\ raised = 0 /\ dismissed = 0 /\ indicators = 0 /\ acts = 0
ChangeOff ==
  /\ staged = 0 /\ asked = 0 /\ indicator = 0 /\ list = 0 /\ box = 0 /\ excused = 0 /\ tries = 0

Init ==
  /\ part \in {"choice", "files", "tabs", "types", "options", "legacy", "menu", "classes", "colours", "network", "state", "address", "lookups", "overlay", "changes"}
  /\ IF part = "choice" THEN Choice!Init ELSE ChoiceOff
  /\ IF part = "files" THEN Browser!Init ELSE FileOff
  /\ IF part = "tabs" THEN TabMenu!TabsInit ELSE TabOff
  /\ IF part = "types" THEN Checks!Init ELSE TypeOff
  /\ IF part = "options" THEN Option!Init ELSE OptionOff
  /\ IF part = "legacy" THEN Legacy!Init ELSE LegacyOff
  /\ IF part = "menu" THEN MenuInit ELSE MenuOff
  /\ IF part = "classes" THEN ClassInit ELSE ClassOff
  /\ IF part = "colours" THEN Random!PrngInit ELSE ColourOff
  /\ IF part = "network" THEN Networks!Init ELSE NetworkOff
  /\ IF part = "state" THEN State!NetInit ELSE StateOff
  /\ IF part = "address" THEN Address!AddressInit ELSE AddressOff
  /\ IF part = "lookups" THEN Lookup!LookupsInit ELSE LookupOff
  /\ IF part = "overlay" THEN Layer!OverlayInit ELSE OverlayOff
  /\ IF part = "changes" THEN Changed!ChangesInit ELSE ChangeOff

Next ==
  \/ part = "choice" /\ Choice!Next
       /\ UNCHANGED <<part, fileVars, tabVars, typeVars, optionVars, legacyVars,
                      menuVars, classVars, colourVars, networkVars, stateVars,
                      addressVars, lookupVars, overlayVars, changeVars>>
  \/ part = "files" /\ Browser!Next
       /\ UNCHANGED <<part, choiceVars, tabVars, typeVars, optionVars, legacyVars,
                      menuVars, classVars, colourVars, networkVars, stateVars,
                      addressVars, lookupVars, overlayVars, changeVars>>
  \/ part = "tabs" /\ TabMenu!TabsNext
       /\ UNCHANGED <<part, choiceVars, fileVars, typeVars, optionVars, legacyVars,
                      menuVars, classVars, colourVars, networkVars, stateVars,
                      addressVars, lookupVars, overlayVars, changeVars>>
  \/ part = "types" /\ Checks!Next
       /\ UNCHANGED <<part, choiceVars, fileVars, tabVars, optionVars, legacyVars,
                      menuVars, classVars, colourVars, networkVars, stateVars,
                      addressVars, lookupVars, overlayVars, changeVars>>
  \/ part = "options" /\ Option!Next
       /\ UNCHANGED <<part, choiceVars, fileVars, tabVars, typeVars, legacyVars,
                      menuVars, classVars, colourVars, networkVars, stateVars,
                      addressVars, lookupVars, overlayVars, changeVars>>
  \/ part = "legacy" /\ Legacy!Next
       /\ UNCHANGED <<part, choiceVars, fileVars, tabVars, typeVars, optionVars,
                      menuVars, classVars, colourVars, networkVars, stateVars,
                      addressVars, lookupVars, overlayVars, changeVars>>
  \/ part = "menu" /\ MenuNext
       /\ UNCHANGED <<part, choiceVars, fileVars, tabVars, typeVars, optionVars,
                      legacyVars, classVars, colourVars, networkVars, stateVars,
                      addressVars, lookupVars, overlayVars, changeVars>>
  \/ part = "classes" /\ ClassNext
       /\ UNCHANGED <<part, choiceVars, fileVars, tabVars, typeVars, optionVars,
                      legacyVars, menuVars, colourVars, networkVars, stateVars,
                      addressVars, lookupVars, overlayVars, changeVars>>
  \/ part = "colours" /\ Random!PrngNext
       /\ UNCHANGED <<part, choiceVars, fileVars, tabVars, typeVars, optionVars,
                      legacyVars, menuVars, classVars, networkVars, stateVars,
                      addressVars, lookupVars, overlayVars, changeVars>>
  \/ part = "network" /\ Networks!Next
       /\ UNCHANGED <<part, choiceVars, fileVars, tabVars, typeVars, optionVars,
                      legacyVars, menuVars, classVars, colourVars, stateVars,
                      addressVars, lookupVars, overlayVars, changeVars>>
  \/ part = "state" /\ State!NetNext
       /\ UNCHANGED <<part, choiceVars, fileVars, tabVars, typeVars, optionVars,
                      legacyVars, menuVars, classVars, colourVars, networkVars,
                      addressVars, lookupVars, overlayVars, changeVars>>
  \/ part = "address" /\ Address!AddressNext
       /\ UNCHANGED <<part, choiceVars, fileVars, tabVars, typeVars, optionVars,
                      legacyVars, menuVars, classVars, colourVars, networkVars,
                      stateVars, lookupVars, overlayVars, changeVars>>
  \/ part = "lookups" /\ Lookup!LookupsNext
       /\ UNCHANGED <<part, choiceVars, fileVars, tabVars, typeVars, optionVars,
                      legacyVars, menuVars, classVars, colourVars, networkVars,
                      stateVars, addressVars, overlayVars, changeVars>>
  \/ part = "overlay" /\ Layer!OverlayNext
       /\ UNCHANGED <<part, choiceVars, fileVars, tabVars, typeVars, optionVars,
                      legacyVars, menuVars, classVars, colourVars, networkVars,
                      stateVars, addressVars, lookupVars, changeVars>>
  \/ part = "changes" /\ Changed!ChangesNext
       /\ UNCHANGED <<part, choiceVars, fileVars, tabVars, typeVars, optionVars,
                      legacyVars, menuVars, classVars, colourVars, networkVars,
                      stateVars, addressVars, lookupVars, overlayVars>>

Spec == Init /\ [][Next]_vars

-----------------------------------------------------------------------------
TypeOK ==
  /\ part = "choice" => Choice!TypeOK
  /\ part = "files" => Browser!TypeOK
  /\ part = "tabs" => TabMenu!TabsTypeOK
  /\ part = "types" => Checks!ValidationTypeOK
  /\ part = "options" => Option!OptionsTypeOK
  /\ part = "legacy" => Legacy!CbiTypeOK
  /\ part = "menu" => MenuTypeOK
  /\ part = "classes" => ClassTypeOK
  /\ part = "network" => Networks!TypeOK
  /\ part = "state" => State!NetTypeOK
  /\ part = "changes" => Changed!ChangesTypeOK
  /\ part = "address" => Address!AddressTypeOK
  /\ part = "overlay" => Layer!OverlayTypeOK
  /\ part = "lookups" => Lookup!LookupsTypeOK

\* What is shown is so, of whatever is built from the parts: one file browser
\* is open at most (FileBrowser); the indicator in the menu counts the changes
\* that are staged (Changes); an upload can be answered, and what is laid over
\* the page stays where and as long as it should (Overlay).
PartsShowWhatIs ==
  /\ part = "files" => Browser!OneBrowserOpen
  /\ part = "changes" => Changed!IndicatorCounts
  /\ part = "overlay" => Layer!UploadIsAnswerable /\ Layer!TooltipStays /\ Layer!ShownInOrder

\* What is computed is right, and has its type: the value of a list is what is
\* selected in it and what its kind allows, and values without a choice stay
\* in it (Dropdown); a validator is compiled from a data type as it
\* was written, and accepts what the data type describes (Validation); colours
\* are the same for the same zone on every page, being drawn from a
\* congruential generator, and neither nearly black nor white (Prng); an update
\* of a form that the server draws comes to its end (CbiDepends).
ComputedRightly ==
  /\ TypeOK
  /\ part = "choice" => Choice!ValueIsSelection /\ Choice!SelectionIsLegal /\ Choice!LockedIsListed
  /\ part = "types" => Checks!CompileIsInverse /\ Checks!MarkedRightly /\ Checks!AddressIsRight
  /\ part = "address" => Address!AlternativesSeeTheText
  /\ part = "lookups" => Lookup!WifiIsFound /\ Lookup!WanNetworksOrdered
  /\ part = "colours" => Random!IsCongruential /\ Random!ColoursAreSoft
  /\ part = "legacy" => Legacy!UpdateEnds

\* What the user leaves alone means the same after a save, and what was
\* entered is shown again (Options); a group shows the tab that was last
\* chosen in it (Tabs).
InputIsKept ==
  [][/\ part = "options" => Option!UntouchedIsKept /\ Option!EnteredIsShown
     /\ part = "tabs" => TabMenu!TabIsRemembered]_vars

\* In forms that the server draws a field is shown only if it has an
\* alternative that is met, and stands in its place (CbiDepends).
OnlyMetAreShown == part = "legacy" => Legacy!OnlyMetAreShown

\* Entries of the menu lead to pages, and the pages are found by clicking (Menu).
MenuLeads == part = "menu" => LinksLead /\ PagesAreFound

\* A method that calls what it overrides reaches the nearest ancestor that has
\* it, and leaves no trace (ClassSystem).
SuperClimbs == part = "classes" => SuperReaches /\ NothingIsLeft

\* Nothing refers to a network that was deleted, and forwardings connect zones
\* (Network).
DeletedIsForgotten ==
  part = "network" => Networks!DeletedIsForgotten /\ Networks!ForwardingsConnectZones

\* Whoever asks for the state of the network afresh gets what was so when he
\* asked, or later (NetworkState).
FlushIsFresh == [][part = "state" => State!FlushIsFresh]_vars
=============================================================================
