------------------------------ MODULE Overlay ------------------------------
(***************************************************************************)
(* What ui.js lays over a page: the one modal dialog that everybody shows  *)
(* his own in, with the dialog that uploads a file; the one tooltip;       *)
(* notifications; and the indicators in the menu.                          *)
(***************************************************************************)
EXTENDS Naturals, SequencesExt

CONSTANTS Uploads,    \* calls of uploadFile
          Targets,    \* elements with a tooltip
          Ids,        \* indicators: numbers, ordered like their names
          Somebody,   \* another dialog of the page, or the session's end
          MaxActs     \* bound: what the user and the page do

OverlayAssumption ==
  Ids \subseteq Nat /\ Somebody \notin Uploads \X {"choosing", "sending"} /\ MaxActs \in Nat

VARIABLES
  active,     \* is the overlay shown?
  dialog,     \* what the dialog holds
  uploads,    \* where each upload stands
  chosen,     \* the uploads whose user has chosen a file
  disturbed,  \* has another dialog been shown while an upload was on?
  tooltip,    \* whose text it has, whether it is opaque, its timer
  messages,   \* the notifications, the first on top, and whether they fade
  raised,     \* how many notifications there have been
  dismissed,  \* those whose button has been pressed
  indicators, \* from left to right: id and style, and whether it is clickable
  acts

overlayVars == <<active, dialog, uploads, chosen, disturbed, tooltip, messages, raised, dismissed, indicators, acts>>

Act == acts < MaxActs /\ acts' = acts + 1

-----------------------------------------------------------------------------
(* The dialog.                                                             *)

ShowModal(what) == dialog' = what /\ active' = TRUE
HideModal == active' = FALSE /\ UNCHANGED dialog

Settle(u, how) == uploads' = [uploads EXCEPT ![u] = how]
OnTop(u) == active /\ dialog = <<u, uploads[u]>>

\* uploadFile, from a button of the page, which the overlay covers.
UploadFile(u) ==
  /\ Act /\ ~active /\ uploads[u] = "none"
  /\ ShowModal(<<u, "choosing">>) /\ Settle(u, "choosing")
  /\ UNCHANGED <<chosen, disturbed>>

ChooseFile(u) ==
  /\ OnTop(u) /\ uploads[u] = "choosing"
  /\ chosen' = chosen \cup {u}
  /\ UNCHANGED <<active, dialog, uploads, disturbed, acts>>

CancelUpload(u) ==
  /\ OnTop(u) /\ uploads[u] = "choosing"
  /\ HideModal /\ Settle(u, "rejected")
  /\ UNCHANGED <<chosen, disturbed, acts>>

\* Upload: the progress takes the place of the dialog with the buttons.
SendFile(u) ==
  /\ OnTop(u) /\ uploads[u] = "choosing" /\ u \in chosen
  /\ ShowModal(<<u, "sending">>) /\ Settle(u, "sending")
  /\ UNCHANGED <<chosen, disturbed, acts>>

\* The reply is an object, with a failure or without; or there is none.
\* Whichever dialog is shown goes.
Replied(u, how) ==
  /\ uploads[u] = "sending"
  /\ HideModal /\ Settle(u, how)
  /\ UNCHANGED <<chosen, disturbed>>
Failed(u) == Act /\ Replied(u, "rejected")
Done(u) == Replied(u, "resolved") /\ UNCHANGED acts

\* It is not an object: json throws before anything is hidden, and nobody
\* settles the promise.
Garbled(u) ==
  /\ Act /\ uploads[u] = "sending"
  /\ Settle(u, "lost")
  /\ UNCHANGED <<active, dialog, chosen, disturbed>>

Disturb ==
  /\ Act /\ ShowModal(Somebody)
  /\ disturbed' = (disturbed \/ \E u \in Uploads : uploads[u] \in {"choosing", "sending"})
  /\ UNCHANGED <<uploads, chosen>>
Dismiss ==
  /\ active /\ dialog = Somebody
  /\ HideModal
  /\ UNCHANGED <<uploads, chosen, disturbed, acts>>

Dialogs ==
  \/ \E u \in Uploads : \/ UploadFile(u) \/ ChooseFile(u) \/ CancelUpload(u) \/ SendFile(u)
                        \/ Failed(u) \/ Done(u) \/ Garbled(u)
  \/ Disturb \/ Dismiss

-----------------------------------------------------------------------------
(* The tooltip.  Its timer takes the style away when it has faded.         *)

\* mouseover and focus, on an element with or without a text.
ShowTooltip(t) ==
  /\ Act
  /\ tooltip' = [of |-> t, opaque |-> TRUE, placed |-> TRUE, timer |-> FALSE]

\* mouseout and blur, to or from the tooltip or elsewhere.
HideTooltip ==
  /\ Act
  /\ tooltip' = [tooltip EXCEPT !.opaque = FALSE, !.timer = TRUE]

TooltipTimeout ==
  /\ tooltip.timer
  /\ tooltip' = [tooltip EXCEPT !.placed = FALSE, !.timer = FALSE] /\ UNCHANGED acts

-----------------------------------------------------------------------------
(* Notifications and indicators.                                           *)

AddNotification ==
  /\ Act
  /\ raised' = raised + 1
  /\ messages' = <<[id |-> raised', fades |-> FALSE]>> \o messages
  /\ UNCHANGED dismissed
FadeOut(i) ==
  /\ Act
  /\ messages' = [messages EXCEPT ![i].fades = TRUE]
  /\ dismissed' = dismissed \cup {messages[i].id}
  /\ UNCHANGED raised
\* transitionend comes after fading in, too.
Transitionend(i) ==
  /\ messages' = IF messages[i].fades THEN RemoveAt(messages, i) ELSE messages
  /\ UNCHANGED <<raised, dismissed, acts>>

\* A new one goes before the first with a greater name; only then the handler
\* is set.
Place(id) == Min({i \in DOMAIN indicators : indicators[i].id > id} \cup {Len(indicators) + 1})
Shown(id) == {i \in DOMAIN indicators : indicators[i].id = id}
ShowIndicator(id, handler, style) ==
  /\ Act
  /\ indicators' =
       IF Shown(id) = {} THEN InsertAt(indicators, Place(id), [id |-> id, style |-> style, clickable |-> handler])
       ELSE [i \in DOMAIN indicators |-> IF i \in Shown(id) THEN [indicators[i] EXCEPT !.style = style] ELSE indicators[i]]
HideIndicator(id) ==
  /\ Act
  /\ indicators' = IF Shown(id) = {} THEN indicators ELSE RemoveAt(indicators, Min(Shown(id)))

-----------------------------------------------------------------------------
OverlayInit ==
  /\ active = FALSE /\ dialog = Somebody
  /\ uploads = [u \in Uploads |-> "none"] /\ chosen = {} /\ disturbed = FALSE
  /\ tooltip \in [of : Targets, opaque : {FALSE}, placed : {FALSE}, timer : {FALSE}]
  /\ messages = <<>> /\ raised = 0 /\ dismissed = {} /\ indicators = <<>> /\ acts = 0

dialogVars == <<active, dialog, uploads, chosen, disturbed>>
OverlayNext ==
  \/ Dialogs /\ UNCHANGED <<tooltip, messages, raised, dismissed, indicators>>
  \/ /\ \/ \E t \in Targets : ShowTooltip(t)
        \/ HideTooltip \/ TooltipTimeout
     /\ UNCHANGED <<dialogVars, messages, raised, dismissed, indicators>>
  \/ /\ \/ AddNotification
        \/ \E i \in DOMAIN messages : FadeOut(i) \/ Transitionend(i)
     /\ UNCHANGED <<dialogVars, tooltip, indicators>>
  \/ /\ \E id \in Ids : \/ HideIndicator(id)
                        \/ \E handler \in BOOLEAN, style \in {"active", "inactive"} :
                             ShowIndicator(id, handler, style)
     /\ UNCHANGED <<dialogVars, tooltip, messages, raised, dismissed>>

-----------------------------------------------------------------------------
OverlayTypeOK ==
  /\ active \in BOOLEAN /\ disturbed \in BOOLEAN /\ chosen \subseteq Uploads
  /\ uploads \in [Uploads -> {"none", "choosing", "sending", "resolved", "rejected", "lost"}]
  /\ tooltip \in [of : Targets, opaque : BOOLEAN, placed : BOOLEAN, timer : BOOLEAN]
  /\ raised \in 0 .. MaxActs /\ dismissed \subseteq 1 .. raised /\ acts \in 0 .. MaxActs

\* As long as nobody else shows a dialog, the user can answer the dialog of
\* each upload that waits for him and see the progress of each that is sent,
\* and the overlay goes with the upload; but a reply that is not an object
\* leaves it there for ever (ui.js:3866).  Refers to uploadFile (ui.js).
UploadIsAnswerable ==
  ~disturbed =>
    /\ \A u \in Uploads : uploads[u] \in {"choosing", "sending"} => OnTop(u)
    /\ active /\ dialog # Somebody => uploads[dialog[1]] \in {"choosing", "sending", "lost"}

\* A tooltip that is shown keeps its place: the timer of the one before has
\* been stopped.  Refers to showTooltip, hideTooltip (ui.js).
TooltipStays == tooltip.opaque => tooltip.placed /\ ~tooltip.timer

\* Notifications are shown from the newest to the oldest, each until it is
\* dismissed; there is one indicator of a name, in the order of names.
\* Refers to addNotification, showIndicator, hideIndicator (ui.js).
ShownInOrder ==
  /\ \A i, j \in DOMAIN messages : i < j => messages[i].id > messages[j].id
  /\ (1 .. raised) \ dismissed \subseteq {messages[i].id : i \in DOMAIN messages}
  /\ \A i, j \in DOMAIN indicators : i < j => indicators[i].id < indicators[j].id
=============================================================================
