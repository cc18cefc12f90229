------------------------------ MODULE AdbScreen ------------------------------
(***************************************************************************)
(* gateway/adb.go and the screen preview of gateway/gateway.go: how one    *)
(* connection watches the screen of an Android device, by a WebRTC peer    *)
(* (adbWebRTCBridge) or by a preview of single pictures (startADBStream).  *)
(*                                                                         *)
(* A peer and a preview are both a "screen": the field that holds the      *)
(* current one is taken under a lock, what was taken is closed after it,   *)
(* and the goroutines of a screen that was stopped find out later.  The    *)
(* steps of Stop and stopADBStream belong to whoever calls them: the       *)
(* connection's goroutine waits for its own, the callbacks of a peer and   *)
(* the goroutines of a screen do not look back.                            *)
(***************************************************************************)
EXTENDS Integers, Sequences

CONSTANTS MaxScreens    \* bound: peers and previews

ASSUME AdbAssumption == MaxScreens \in Nat

VARIABLES
  screens,      \* the kinds of the screens so far: "peer", "preview"
  current,      \* b.peer with b.cancel, adbCancel: the screen, or 0
  unclosed,     \* screens whose context is not cancelled
  takenOff,     \* screens that a stop has taken and not yet closed
  todo,         \* what the connection's goroutine has still to do for its action
  awaited,      \* the screen it is closing, or 0
  negotiated,   \* peers whose answer has been sent
  told,         \* <<p, state>>: peer p's callback has run for "failed", "closed"
  video,        \* video[n]: where the screen's goroutine is
  tokenOf,      \* tokenOf[n]: the token of its latest H264 stream
  streamToken,  \* b.streamToken
  streamCancel, \* b.streamCancel: the peer whose stream it cancels, or 0
  latecomer     \* history: since the current peer's stream began, the goroutine of
                \* an earlier one has put its own in, or had the same token

adbVars == <<screens, current, unclosed, takenOff, todo, awaited, negotiated, told,
             video, tokenOf, streamToken, streamCancel, latecomer>>

Screens == 1 .. MaxScreens

AdbInit ==
  /\ screens = <<>> /\ current = [peer |-> 0, preview |-> 0]
  /\ unclosed = {} /\ takenOff = {} /\ todo = <<>> /\ awaited = 0
  /\ negotiated = {} /\ told = {}
  /\ video = [n \in Screens |-> "none"] /\ tokenOf = [n \in Screens |-> 0]
  /\ streamToken = 0 /\ streamCancel = 0 /\ latecomer = FALSE

-----------------------------------------------------------------------------
(* Stop, stopADBStream.                                                    *)

\* The critical section: the screen that is current, if any, is the caller's.
TakesOff(k) ==
  /\ current' = [current EXCEPT ![k] = 0]
  /\ takenOff' = takenOff \cup ({current[k]} \ {0})
  /\ IF k = "peer" THEN streamToken' = 0 /\ streamCancel' = 0 ELSE UNCHANGED <<streamToken, streamCancel>>

\* After it: the context is cancelled, the peer closed.
Closes(n) ==
  /\ n \in takenOff
  /\ takenOff' = takenOff \ {n} /\ unclosed' = unclosed \ {n}
  /\ awaited' = IF awaited = n THEN 0 ELSE awaited
  /\ UNCHANGED <<screens, current, todo, negotiated, told, video, tokenOf, streamToken, streamCancel, latecomer>>

-----------------------------------------------------------------------------
(* The connection's goroutine: adb_stream_start, adb_webrtc_offer,         *)
(* adb_stream_stop, adb_webrtc_stop.                                       *)

\* Fault: an offer leaves the preview alone.
AdbActionsOverPreview ==
  {<<"peer", "preview", "new preview">>, <<"peer", "new peer", "answer">>, <<"preview", "peer">>, <<"peer">>}

AdbActions ==
  {<<"peer", "preview", "new preview">>, <<"preview", "peer", "new peer", "answer">>,
   <<"preview", "peer">>, <<"peer">>}

AdbAction ==
  /\ todo = <<>> /\ awaited = 0
  /\ todo' \in {a \in AdbActions : a[Len(a)] \in {"answer", "new preview"} => Len(screens) < MaxScreens}
  /\ UNCHANGED <<screens, current, unclosed, takenOff, awaited, negotiated, told, video, tokenOf, streamToken, streamCancel, latecomer>>

ConnStops ==
  /\ todo # <<>> /\ Head(todo) \in {"peer", "preview"} /\ awaited = 0
  /\ TakesOff(Head(todo))
  /\ awaited' = current[Head(todo)]
  /\ todo' = Tail(todo)
  /\ UNCHANGED <<screens, unclosed, negotiated, told, video, tokenOf, latecomer>>

\* The preview's goroutine is started at once, the peer's when it is connected.
ConnStarts ==
  LET n == Len(screens) + 1
      k == IF Head(todo) = "new peer" THEN "peer" ELSE "preview"
  IN /\ todo # <<>> /\ Head(todo) \in {"new peer", "new preview"} /\ awaited = 0
     /\ screens' = Append(screens, k)
     /\ current' = [current EXCEPT ![k] = n]
     /\ unclosed' = unclosed \cup {n}
     /\ video' = [video EXCEPT ![n] = IF k = "preview" THEN "capture" ELSE "none"]
     /\ todo' = Tail(todo)
     /\ UNCHANGED <<takenOff, awaited, negotiated, told, tokenOf, streamToken, streamCancel, latecomer>>

\* HandleOffer finds no offer, no device, or cannot make a peer.
OfferFails ==
  /\ todo # <<>> /\ todo[Len(todo)] = "answer" /\ Head(todo) # "answer" /\ awaited = 0
  /\ Head(todo) # "preview"
  /\ todo' = <<>>
  /\ UNCHANGED <<screens, current, unclosed, takenOff, awaited, negotiated, told, video, tokenOf, streamToken, streamCancel, latecomer>>

\* The descriptions are exchanged, the candidates gathered, the answer is sent;
\* or one of these fails, and what is current is stopped.
ConnAnswers ==
  /\ todo # <<>> /\ Head(todo) = "answer"
  /\ \/ negotiated' = negotiated \cup {Len(screens)} /\ todo' = <<>>
     \/ todo' = <<"peer">> /\ UNCHANGED negotiated
  /\ UNCHANGED <<screens, current, unclosed, takenOff, awaited, told, video, tokenOf, streamToken, streamCancel, latecomer>>

-----------------------------------------------------------------------------
(* The peer's callbacks, each on a goroutine of its own.                   *)

PeerConnects(p) ==
  /\ p \in negotiated /\ video[p] = "none"
  /\ video' = [video EXCEPT ![p] = "check"]
  /\ UNCHANGED <<screens, current, unclosed, takenOff, todo, awaited, negotiated, told, tokenOf, streamToken, streamCancel, latecomer>>

\* Failed, of a peer that is open, or closed: what is current is stopped, if it
\* is this peer or not.
PeerEnds(p, state) ==
  /\ p \in DOMAIN screens /\ screens[p] = "peer"
  /\ IF state = "failed" THEN p \in unclosed \cap negotiated ELSE p \notin unclosed
  /\ <<p, state>> \notin told
  /\ told' = told \cup {<<p, state>>}
  /\ TakesOff("peer")
  /\ UNCHANGED <<screens, unclosed, todo, awaited, negotiated, video, tokenOf, latecomer>>

-----------------------------------------------------------------------------
(* streamVideo: one H264 stream after the other.                           *)

VideoChecks(p) ==
  /\ video[p] = "check"
  /\ video' = [video EXCEPT ![p] = IF p \in unclosed THEN "begin" ELSE "done"]
  /\ UNCHANGED <<screens, current, unclosed, takenOff, todo, awaited, negotiated, told, tokenOf, streamToken, streamCancel, latecomer>>

\* Two streams tell equal tokens from different ones; the count stops there.
VideoBegins(p) ==
  /\ video[p] = "begin" /\ streamToken < 2
  /\ streamToken' = streamToken + 1
  /\ tokenOf' = [tokenOf EXCEPT ![p] = streamToken']
  /\ streamCancel' = p
  /\ latecomer' = (p # current.peer)
  /\ video' = [video EXCEPT ![p] = "stream"]
  /\ UNCHANGED <<screens, current, unclosed, takenOff, todo, awaited, negotiated, told>>

\* The recording ends: its time is over, its context is cancelled, by
\* requestKeyframe too; or it breaks; or it could not even be started, which
\* is not told from a stop that got in the way.
VideoEnds(p) ==
  /\ video[p] = "stream"
  /\ \E outcome \in {"over", "broken", "unstarted"} : video' = [video EXCEPT ![p] = outcome]
  /\ UNCHANGED <<screens, current, unclosed, takenOff, todo, awaited, negotiated, told, tokenOf, streamToken, streamCancel, latecomer>>

\* requestKeyframe: the stream that can be cancelled is started anew.
KeyframeRequested ==
  /\ streamCancel # 0 /\ video[streamCancel] = "stream"
  /\ video' = [video EXCEPT ![streamCancel] = "over"]
  /\ UNCHANGED <<screens, current, unclosed, takenOff, todo, awaited, negotiated, told, tokenOf, streamToken, streamCancel, latecomer>>

\* Fault: whoever is done clears the field.
ClearStreamCancelAny(p) == streamCancel' = 0

\* Only who put it in, as far as the tokens tell.
ClearStreamCancel(p) == streamCancel' = IF streamToken = tokenOf[p] THEN 0 ELSE streamCancel

VideoClears(p) ==
  /\ video[p] \in {"over", "broken", "unstarted"}
  /\ ClearStreamCancel(p)
  /\ latecomer' = (latecomer \/ (streamToken = tokenOf[p] /\ streamCancel \notin {0, p}))
  /\ video' = [video EXCEPT ![p] = IF @ = "over" THEN "check"
                                   ELSE IF @ = "unstarted" \/ p \in unclosed THEN "stop"
                                   ELSE "done"]
  /\ UNCHANGED <<screens, current, unclosed, takenOff, todo, awaited, negotiated, told, tokenOf, streamToken>>

\* The bridge is stopped, whichever peer it has by now.
VideoStops(p) ==
  /\ video[p] = "stop" /\ screens[p] = "peer"
  /\ TakesOff("peer")
  /\ video' = [video EXCEPT ![p] = "done"]
  /\ UNCHANGED <<screens, unclosed, todo, awaited, negotiated, told, tokenOf, latecomer>>

-----------------------------------------------------------------------------
(* The preview's goroutine: it asks for one picture after the other.  One  *)
(* that could not be had stops the preview unless the context is cancelled *)
(* by now; a device that could not be found only ends the goroutine.       *)

PreviewFails(n) ==
  /\ video[n] = "capture"
  /\ \/ video' = [video EXCEPT ![n] = "done"]
     \/ n \in unclosed /\ video' = [video EXCEPT ![n] = "stop"]
  /\ UNCHANGED <<screens, current, unclosed, takenOff, todo, awaited, negotiated, told, tokenOf, streamToken, streamCancel, latecomer>>

PreviewStops(n) ==
  /\ video[n] = "stop" /\ screens[n] = "preview"
  /\ TakesOff("preview")
  /\ video' = [video EXCEPT ![n] = "done"]
  /\ UNCHANGED <<screens, unclosed, todo, awaited, negotiated, told, tokenOf, latecomer>>

AdbNext ==
  \/ AdbAction \/ ConnStops \/ ConnStarts \/ OfferFails \/ ConnAnswers \/ KeyframeRequested
  \/ \E n \in Screens :
       \/ Closes(n) \/ PeerConnects(n) \/ \E s \in {"failed", "closed"} : PeerEnds(n, s)
       \/ VideoChecks(n) \/ VideoBegins(n) \/ VideoEnds(n) \/ VideoClears(n) \/ VideoStops(n)
       \/ PreviewFails(n) \/ PreviewStops(n)

AdbSpec == AdbInit /\ [][AdbNext]_adbVars

-----------------------------------------------------------------------------
(* Properties.                                                             *)

AdbTypeOK ==
  /\ \A k \in {"peer", "preview"} : current[k] # 0 => current[k] \in DOMAIN screens /\ screens[current[k]] = k
  /\ takenOff \subseteq DOMAIN screens /\ unclosed \subseteq DOMAIN screens

\* Whoever stops whatever in whatever order, the stale callbacks and goroutines
\* of earlier screens included: a screen that is still being recorded is the
\* current one, or somebody has taken it and is about to close it; and the device
\* is never watched in both ways at a time.
ScreenHasOneOwner ==
  /\ unclosed \subseteq takenOff \cup {current.peer, current.preview}
  /\ current.peer = 0 \/ current.preview = 0

\* While the current peer is sent a stream, a request for a keyframe restarts
\* that stream. What may be in the way is the goroutine of an earlier peer that
\* put itself in late, or whose token was given again after the reset by Stop.
KeyframeReachesStream ==
  (current.peer # 0 /\ video[current.peer] = "stream" /\ ~latecomer) => streamCancel = current.peer
=============================================================================
