------------------------------ MODULE Gateway -------------------------------
(***************************************************************************)
(* What the container itself runs, side by side.  A behaviour is of one of *)
(* the parts, as in Forms; a part that is not used is left at rest.        *)
(*                                                                         *)
(*   sessions  login sessions, which every CGI process reads and writes:   *)
(*             Session                                                     *)
(*   upload    an upload through cgi-io: Upload                            *)
(*   plugins   the plug-in manager and what a start merges: Plugins        *)
(***************************************************************************)
EXTENDS Session, Integers, SequencesExt

CONSTANTS Bytes, Files, Ids, None, Lower, Trees, Names, MaxClicks

VARIABLES
  part,
  file, valid, pos, st, index, pending, h, cut,
  tree, merged, rows, adding, queue, sent, leaving, asked, clicks

Multipart == INSTANCE Upload
Manager == INSTANCE Plugins

ASSUME GatewayAssumption ==
  Multipart!UploadAssumption /\ Manager!PluginsAssumption

uploadVars == <<file, valid, pos, st, index, pending, h, cut>>
pluginVars == <<tree, merged, rows, adding, queue, sent, leaving, asked, clicks>>
vars == <<part, sessionVars, uploadVars, pluginVars>>

SessionOff ==
  /\ now = 0 /\ stored = 0 /\ request = 0 /\ used = 0 /\ known = 0 /\ refused = 0 /\ ended = 0
  /\ lastUse = 0 /\ lapsed = 0
UploadOff == Multipart!Unused
PluginOff ==
  /\ tree = 0 /\ merged = 0 /\ rows = 0 /\ adding = 0 /\ queue = 0 /\ sent = 0 /\ leaving = 0
  /\ asked = 0 /\ clicks = 0

Init ==
  /\ part \in {"sessions", "upload", "plugins"}
  /\ IF part = "sessions" THEN SessionInit ELSE SessionOff
  /\ IF part = "upload" THEN Multipart!Init ELSE UploadOff
  /\ IF part = "plugins" THEN Manager!Init ELSE PluginOff

Next ==
  \/ part = "sessions" /\ SessionNext
       /\ UNCHANGED <<part, uploadVars, pluginVars>>
  \/ part = "upload" /\ Multipart!Next
       /\ UNCHANGED <<part, sessionVars, pluginVars>>
  \/ part = "plugins" /\ Manager!Next
       /\ UNCHANGED <<part, sessionVars, uploadVars>>

Spec == Init /\ [][Next]_vars

-----------------------------------------------------------------------------
\* Regular users stay logged in, session files are written completely, and no
\* visit is undone by a slower one (Session).
SessionsHold ==
  part = "sessions" => /\ SessionTypeOK
                       /\ RegularUseIsServed
                       /\ WrittenFilesComplete
                       /\ VisitsCount

\* A file is stored whole or not at all, and the browser is told which (Upload).
UploadIsWhole ==
  part = "upload" => /\ Multipart!UploadTypeOK
                     /\ Multipart!TargetIntact
                     /\ Multipart!WholeUploadIsAnswered
\* What is stored is a reading of the byte stream that was sent (Upload).
UploadInOrder == Multipart!UploadInOrder

\* The page of the plug-in manager and the next start agree, and nothing is
\* lost that the user has not removed (Plugins).
PageAgreesWithStart ==
  part = "plugins" => Manager!TypeOK /\ Manager!PageAgreesWithStart
OnlyRemovedIsGone == [][part = "plugins" => Manager!OnlyRemovedIsGone]_vars
=============================================================================
