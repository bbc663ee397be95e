------------------------------- MODULE Tracks -------------------------------
(***************************************************************************)
(* The page's microphone, camera and screen: the preview of the pre-call   *)
(* screen, the local stream of the call, the shared screen, and the two    *)
(* senders of the peer connection.  getUserMedia and getDisplayMedia take  *)
(* as long as a user takes to answer a prompt; every handler that awaits   *)
(* one is a step that asks and a step that goes on with the answer, and    *)
(* any other handler may run in between.                                   *)
(*                                                                         *)
(* A stream is the set of its tracks, {} when there is none.  Hanging up   *)
(* leaves the page, which ends every track, and is left out.               *)
(***************************************************************************)
EXTENDS Naturals, FiniteSets

CONSTANT MaxRequests   \* bound: requests for media

ASSUMPTION MaxRequestsAssumption == MaxRequests \in Nat

VARIABLES
  phase,     \* "precall", "config" or "media" (startSession awaits), or "call"
  chosen,    \* state.micEnabled and state.camEnabled
  preview,   \* state.previewStream
  local,     \* state.localStream
  screen,    \* state.screenStream
  sharing,   \* state.isSharingScreen
  sender,    \* the track of the audio and of the video sender
  live,      \* tracks that are running
  on,        \* tracks that are enabled
  pending,   \* requests not answered
  asked,     \* requests made
  grants,    \* requests granted
  wants,     \* what the user last chose of microphone and camera
  mishaps,   \* what happened, for the properties
  refused    \* kinds whose last request for a replacement was refused

page == <<phase, chosen, preview, local, screen, sharing, sender, live, on>>
vars == <<page, pending, asked, grants, wants, mishaps, refused>>

Kinds == {"audio", "video"}
NoTrack == [grant |-> 0, kind |-> "none"]
NoSender == [k \in Kinds |-> NoTrack]

\* A granted request is a track of each kind it asked for.
New(r) == [grant : {grants + 1}, kind : r.kinds]

\* getAudioTracks()[0], getVideoTracks()[0]: a track joins its stream as it is
\* granted, so that a stream has its tracks in the order of the grants.
First(stream, k) ==
  LET of == {t \in stream : t.kind = k}
  IN IF of = {} THEN NoTrack ELSE CHOOSE t \in of : \A u \in of : t.grant <= u.grant

Init ==
  /\ phase = "precall"
  /\ chosen = [k \in Kinds |-> TRUE]
  /\ preview = {} /\ local = {} /\ screen = {} /\ sharing = FALSE
  /\ sender = NoSender
  /\ live = {} /\ on = {} /\ pending = {} /\ asked = 0 /\ grants = 0
  /\ wants = [k \in Kinds |-> TRUE]
  /\ mishaps = {} /\ refused = {}

-----------------------------------------------------------------------------
(* Asking *)

Overlap == IF pending = {} THEN {} ELSE {"overlap"}

\* A handler reaches its getUserMedia or getDisplayMedia; old is the track it
\* will replace.
Ask(use, kinds, old, also) ==
  /\ asked < MaxRequests
  /\ asked' = asked + 1
  /\ pending' = pending \cup {[id |-> asked + 1, use |-> use, kinds |-> kinds, old |-> old]}
  /\ mishaps' = mishaps \cup also \cup Overlap

Chosen == {k \in Kinds : chosen[k]}

\* startPreviewMedia: when a room is made, joined or called, when the history
\* brings one back (in a call as well), and when a camera is picked pre-call.
StartPreview ==
  /\ preview' = {}
  /\ live' = live \ preview
  /\ IF Chosen = {}
     THEN mishaps' = mishaps \cup Overlap /\ UNCHANGED <<pending, asked>>
     ELSE Ask("preview", Chosen, NoTrack, {})
  /\ UNCHANGED <<phase, chosen, local, screen, sharing, sender, on, wants>>

\* togglePrecallNoise, and switchAudioInput before the call.
SwapPreviewMic ==
  /\ preview # {}
  /\ Ask("swap", {"audio"}, First(preview, "audio"), {})
  /\ UNCHANGED <<page, wants>>

\* switchAudioInput, switchVideoInput and switchCamera in a call: the old
\* track is stopped first.
SwitchInput(k) ==
  LET old == First(local, k) IN
  /\ phase = "call"
  /\ live' = live \ {old}
  /\ Ask("switch", {k}, old,
         IF old = NoTrack THEN {"nothing to replace"} ELSE {})
  /\ UNCHANGED <<phase, chosen, preview, local, screen, sharing, sender, on, wants>>

\* startSession: the preview is stopped, the config fetched, and the media
\* asked for as chosen by then.
StartSession ==
  /\ phase = "precall"
  /\ phase' = "config"
  /\ preview' = {}
  /\ live' = live \ preview
  /\ mishaps' = mishaps \cup Overlap
  /\ UNCHANGED <<chosen, local, screen, sharing, sender, on, pending, asked, wants>>

AskForSession ==
  /\ phase = "config"
  /\ Chosen # {}
  /\ phase' = "media"
  /\ Ask("session", Chosen, NoTrack, {})
  /\ UNCHANGED <<chosen, preview, local, screen, sharing, sender, live, on, wants>>

\* closeLocalResources, when startSession fails: no config, no media, or
\* neither microphone nor camera chosen.
CloseResources ==
  /\ phase' = "precall"
  /\ live' = live \ (preview \cup local \cup screen)
  /\ preview' = {} /\ local' = {} /\ screen' = {} /\ sender' = NoSender
  /\ UNCHANGED <<chosen, sharing, on, wants>>

SessionFails ==
  /\ phase = "config"
  /\ CloseResources
  /\ mishaps' = mishaps \cup Overlap
  /\ UNCHANGED <<pending, asked>>

\* toggleScreenShare, both ways; the browser's own button ends the share too.
Share ==
  /\ phase = "call"
  /\ ~sharing
  /\ Ask("share", {"screen"}, NoTrack, {})
  /\ UNCHANGED <<page, wants>>

Unshare ==
  /\ phase = "call"
  /\ sharing
  /\ sharing' = FALSE
  /\ live' = live \ screen
  /\ screen' = {}
  /\ Ask("unshare", {"video"}, NoTrack, {"share ended"})
  /\ UNCHANGED <<phase, chosen, preview, local, sender, on, wants>>

-----------------------------------------------------------------------------
(* Toggles *)

\* togglePrecallMic, togglePrecallCam: their screen is shown until the call
\* starts, and again when the history goes back to it.
TogglePrecall(k) ==
  /\ chosen' = [chosen EXCEPT ![k] = ~@]
  /\ wants' = [wants EXCEPT ![k] = ~chosen[k]]
  /\ LET tracks == {t \in preview : t.kind = k}
     IN on' = IF chosen[k] THEN on \ tracks ELSE on \cup tracks
  /\ mishaps' = mishaps \cup IF phase = "precall" THEN {} ELSE {"pre-call toggle after start"}
  /\ UNCHANGED <<phase, preview, local, screen, sharing, sender, live, pending, asked>>

\* MUTANT: a muted stream is silenced by its first track, whatever its kind.
ToggleAnyTrack(k) ==
  LET t == First(local, IF First(local, "video") = NoTrack THEN "audio" ELSE "video")
  IN
  /\ phase = "call"
  /\ t # NoTrack
  /\ on' = (on \ {t}) \cup ({t} \ on)
  /\ wants' = [wants EXCEPT ![k] = t \notin on]
  /\ UNCHANGED <<phase, chosen, preview, local, screen, sharing, sender, live, pending, asked, mishaps>>

\* toggleMute, toggleCamera.  A click changes what the user wants whether or
\* not the local stream has a track to toggle; without one nothing else is done.
ToggleTrack(k) ==
  LET t == First(local, k)
      wanted == IF t = NoTrack THEN ~wants[k] ELSE t \notin on
  IN
  /\ phase = "call"
  /\ on' = IF t = NoTrack THEN on ELSE (on \ {t}) \cup ({t} \ on)
  /\ wants' = [wants EXCEPT ![k] = wanted]
  /\ mishaps' = mishaps \cup IF t = NoTrack THEN {"clicked in vain"} ELSE {}
  /\ UNCHANGED <<phase, chosen, preview, local, screen, sharing, sender, live, pending, asked>>

-----------------------------------------------------------------------------
(* Going on with the answer *)

\* A sender with a track takes the new one (replaceTrack); one is not made.
Replace(k, t) == IF sender[k] = NoTrack THEN sender ELSE [sender EXCEPT ![k] = t]

PreviewGranted(r) ==
  /\ r.use = "preview"
  /\ preview' = New(r)
  /\ live' = live \cup New(r)
  /\ on' = on \cup New(r)
  /\ UNCHANGED <<phase, chosen, local, screen, sharing, sender, mishaps>>

\* MUTANT: the track that is replaced goes on running.
SwapGrantedKeepsOld(r) ==
  /\ r.use = "swap"
  /\ on' = IF chosen["audio"] THEN on \cup New(r) ELSE on
  /\ preview' = IF preview = {} THEN {} ELSE (preview \ {r.old}) \cup New(r)
  /\ live' = live \cup New(r)
  /\ UNCHANGED <<phase, chosen, local, screen, sharing, sender, mishaps>>

\* A preview that has ended meanwhile takes no track: the exception is caught.
SwapGranted(r) ==
  /\ r.use = "swap"
  /\ on' = IF chosen["audio"] THEN on \cup New(r) ELSE on
  /\ preview' = IF preview = {} THEN {} ELSE (preview \ {r.old}) \cup New(r)
  /\ live' = (live \ {r.old}) \cup New(r)
  /\ UNCHANGED <<phase, chosen, local, screen, sharing, sender, mishaps>>

\* Every new track is enabled.
Enabled(r, k) ==
  /\ on' = on \cup New(r)
  /\ live' = live \cup New(r)
  /\ mishaps' = mishaps \cup IF wants[k] THEN {} ELSE {"replaced while off"}

\* A request whose answer takes the place of a track that was stopped for it.
Replaces(r, k) ==
  \/ r.use = "switch" /\ k \in r.kinds /\ r.old # NoTrack
  \/ r.use = "unshare" /\ k = "video"

\* MUTANT: the new track joins the local stream, and the sender is forgotten.
SwitchGrantedUnsent(r) ==
  /\ r.use = "switch"
  /\ \E t \in New(r) :
       /\ Enabled(r, t.kind)
       /\ local' = IF r.old = NoTrack THEN local ELSE (local \ {r.old}) \cup {t}
  /\ UNCHANGED <<phase, chosen, preview, screen, sharing, sender>>

\* removeTrack throws when there is no old track, before anything is replaced.
SwitchGranted(r) ==
  /\ r.use = "switch"
  /\ \E t \in New(r) :
       /\ Enabled(r, t.kind)
       /\ IF r.old = NoTrack THEN UNCHANGED <<local, sender>>
          ELSE local' = (local \ {r.old}) \cup {t} /\ sender' = Replace(t.kind, t)
  /\ UNCHANGED <<phase, chosen, preview, screen, sharing>>

\* createPeerConnection makes a sender for each track of the local stream.
SessionGranted(r) ==
  /\ r.use = "session"
  /\ phase' = "call"
  /\ local' = New(r)
  /\ sender' = [k \in Kinds |-> First(New(r), k)]
  /\ live' = live \cup New(r)
  /\ on' = on \cup New(r)
  /\ UNCHANGED <<chosen, preview, screen, sharing, mishaps>>

ShareGranted(r) ==
  /\ r.use = "share"
  /\ screen' = New(r)
  /\ sharing' = TRUE
  /\ sender' = Replace("video", First(New(r), "screen"))
  /\ live' = live \cup New(r)
  /\ on' = on \cup New(r)
  /\ UNCHANGED <<phase, chosen, preview, local, mishaps>>

\* The stream of the camera takes the place of the local one, microphone included.
UnshareGranted(r) ==
  /\ r.use = "unshare"
  /\ Enabled(r, "video")
  /\ local' = New(r)
  /\ sender' = Replace("video", First(New(r), "video"))
  /\ UNCHANGED <<phase, chosen, preview, screen, sharing>>

Granted(r) ==
  /\ PreviewGranted(r) \/ SwapGranted(r) \/ SwitchGranted(r) \/ SessionGranted(r)
       \/ ShareGranted(r) \/ UnshareGranted(r)
  /\ grants' = grants + 1
  /\ refused' = refused \ {k \in Kinds : Replaces(r, k)}
  /\ UNCHANGED wants

\* Denied, or the device is gone: only startSession does something about it.
\* What was stopped for the request stays stopped, and in its sender.
Refused(r) ==
  /\ IF r.use = "session" THEN CloseResources ELSE UNCHANGED <<page, wants>>
  /\ refused' = refused \cup {k \in Kinds : Replaces(r, k)}
  /\ UNCHANGED <<grants, mishaps>>

Answer ==
  \E r \in pending :
    /\ pending' = pending \ {r}
    /\ Granted(r) \/ Refused(r)
    /\ UNCHANGED asked

Handler ==
  \/ StartPreview \/ SwapPreviewMic \/ StartSession \/ AskForSession \/ SessionFails
  \/ Share \/ Unshare
  \/ \E k \in Kinds : SwitchInput(k) \/ TogglePrecall(k) \/ ToggleTrack(k)

Next == (Handler /\ UNCHANGED <<grants, refused>>) \/ Answer

Spec == Init /\ [][Next]_vars

-----------------------------------------------------------------------------
(* Properties *)

Unless(causes) == mishaps \cap causes # {}

\* Every running track is in a stream that closeLocalResources, or the next
\* preview, will stop: the camera light goes out.  Unless two requests
\* overlapped, a share ended (its camera stream takes the place of the local
\* one), or an input was switched that the call did not have.
NothingLeftRunning ==
  \/ live \subseteq preview \cup local \cup screen
  \/ Unless({"overlap", "share ended", "nothing to replace"})

\* Who last switched the microphone or the camera off, by a click that found
\* a track or by one that did not, sends nothing from it, the shared screen
\* aside.  Unless the track was replaced while it was off, the toggle of the
\* pre-call screen was used after startSession had begun, or requests
\* overlapped; and for the microphone, unless a share has ended and the button
\* was clicked in vain: the stream of the camera has become the local one, and
\* the microphone goes on without a button that reaches it.
OffMeansOff ==
  \A k \in Kinds :
    ~wants[k] =>
      \/ sender[k] \notin live \cap on
      \/ sender[k].kind = "screen"
      \/ Unless({"replaced while off", "pre-call toggle after start", "overlap"})
      \/ k = "audio" /\ Unless({"share ended"}) /\ Unless({"clicked in vain"})

\* The peer is not left with a track that has ended: the handlers that stop
\* the track of a sender before they ask for another put the other in its
\* place, however their requests overlap with one another and with a share.
\* Until then the request is on its way, unless the last one was refused.
SentIsAlive ==
  \A k \in Kinds :
    \/ sender[k] \in live \cup {NoTrack}
    \/ \E r \in pending : Replaces(r, k)
    \/ k \in refused

\* The button of the microphone mutes the microphone that is sent, requests
\* that overlapped aside: it is titled so.  It does not once a share has ended.
MuteMutes ==
  sender["audio"] \in live \cap on =>
    First(local, "audio") = sender["audio"] \/ Unless({"overlap"})

Track == [grant : 1..grants, kind : Kinds \cup {"screen"}]

Request ==
  [id : 1..asked, use : {"preview", "session", "swap", "switch", "share", "unshare"},
   kinds : SUBSET (Kinds \cup {"screen"}), old : Track \cup {NoTrack}]

Mishaps == {"overlap", "share ended", "nothing to replace", "replaced while off",
            "pre-call toggle after start", "clicked in vain"}

TypeOK ==
  /\ phase \in {"precall", "config", "media", "call"}
  /\ chosen \in [Kinds -> BOOLEAN] /\ wants \in [Kinds -> BOOLEAN]
  /\ preview \subseteq Track /\ local \subseteq Track /\ screen \subseteq Track
  /\ live \subseteq Track /\ on \subseteq Track
  /\ sharing \in BOOLEAN
  /\ sender \in [Kinds -> Track \cup {NoTrack}]
  /\ asked \in Nat /\ grants \in Nat
  /\ pending \subseteq Request
  /\ mishaps \subseteq Mishaps /\ refused \subseteq Kinds
=============================================================================
