-------------------------------- MODULE Room --------------------------------
(***************************************************************************)
(* The LiveKit room of a call (pkg/sip/room.go, room_video.go) and its     *)
(* compositor: the subscription to the participants' tracks, the goroutine *)
(* that pumps each track into the mixer or into a tile, and the closing of *)
(* all that while callbacks and pumps run.                                 *)
(*                                                                         *)
(* Threads: the owner (the call: Connect, EnableVideo, Subscribe), the     *)
(* callbacks of the LiveKit SDK, one goroutine per subscribed track, and   *)
(* the closer (CloseWithReason).  The SDK and the room's server are        *)
(* external.  A participant is named after its one track, or is a SIP call *)
(* that has not published anything yet; it appears with one callback,      *)
(* OnTrackPublished or OnParticipantConnected.                             *)
(* Critical sections of videoMu do not block and are part of a step.       *)
(***************************************************************************)
EXTENDS Compositor

CONSTANTS
    Audio,      \* the IDs of audio tracks
    SipPeers,   \* participants that are SIP calls themselves
    MaxFaults,  \* bound: how many participants leave, and operations on tracks fail
    LateVideo,  \* EnableVideo may run after Subscribe (a re-INVITE)
    EarlyClose  \* Connect and EnableVideo may run after the room was closed (Server.Stop)

Tracks == Audio \cup Video
Peers == Tracks \cup SipPeers

ASSUME PeersAssumption ==
    /\ Audio \cap Video = {} /\ SipPeers \cap Tracks = {}
    /\ MaxFaults \in Nat
    /\ {LateVideo, EarlyClose} \subseteq BOOLEAN

VARIABLES
    (* the server and the SDK *)
    peer,       \* where each participant is
    sdk,        \* the SDK is connected and calls us back
    events,     \* participants whose callback has not run yet
    track,      \* each track: "wanted" after SetSubscribed(true), then read from
    (* Room *)
    room,       \* r.room # nil
    stopped,    \* the stopped fuse
    subscribe,  \* the subscribe flag
    subscribed, \* the subscribed fuse
    comp,       \* r.comp # nil
    inputs,     \* the keys of r.videoInputs
    inputsNil,  \* r.videoInputs = nil
    (* threads *)
    own,        \* the owner: Connect, then Subscribe
    todo,       \* the participants Subscribe still has to go through
    pump,       \* the goroutine of OnTrackSubscribed, for each track
    unsub,      \* OnTrackUnsubscribed, for each track
    cl,         \* CloseWithReason
    crashed,    \* a goroutine panicked
    (* history *)
    failed,     \* tracks an error has cost us
    faults      \* how many participants left, operations failed

sdkVars == <<peer, sdk, events>>
subVars == <<subscribe, subscribed, own, todo>>
videoVars == <<comp, inputs, inputsNil>>
connVars == <<room, stopped>>
pumpVars == <<track, pump, unsub>>
faultVars == <<failed, faults>>
vars == <<compVars, sdkVars, subVars, videoVars, connVars, pumpVars, cl, crashed, faultVars>>

TypeOK ==
    /\ pipeline \in {"none", "open", "closed"}
    /\ DOMAIN pads \subseteq Video
    /\ peer \in [Peers -> {"absent", "here", "gone"}]
    /\ {events, todo} \subseteq SUBSET Peers
    /\ failed \subseteq Tracks
    /\ faults \in 0..MaxFaults
    /\ inputs \subseteq Video
    /\ track \in [Tracks -> {"none", "wanted", "live", "ended"}]
    /\ pump \in [Tracks -> {"none", "start", "add", "register", "loop", "remove", "close", "done"}]
    /\ unsub \in [Tracks -> {"none", "pending", "close", "done"}]
    /\ {sdk, room, stopped, subscribe, subscribed, comp, inputsNil, crashed} \subseteq BOOLEAN
    /\ own \in {"new", "failed", "joined", "list", "iterate", "done"}
    /\ cl \in {"idle", "comp", "room", "done"}

\* NewRoom has returned; participants may be in the room already.
Init ==
    /\ CompInit
    /\ peer = [t \in Peers |-> "absent"] /\ sdk = FALSE /\ events = {}
    /\ subscribe = FALSE /\ subscribed = FALSE /\ own = "new" /\ todo = {}
    /\ comp = FALSE /\ inputs = {} /\ inputsNil = TRUE
    /\ room = FALSE /\ stopped = FALSE
    /\ track = [t \in Tracks |-> "none"] /\ pump = [t \in Tracks |-> "none"]
    /\ unsub = [t \in Tracks |-> "none"]
    /\ cl = "idle" /\ crashed = FALSE
    /\ failed = {} /\ faults = 0

Fault == faults < MaxFaults /\ faults' = faults + 1

\* An operation for track t fails, and is not repeated.
Fails(t) == Fault /\ failed' = failed \cup {t}

-----------------------------------------------------------------------------
(* The owner *)

\* JoinWithContextAndToken, after which the SDK calls back; r.room is set and
\* ready broken.  Callbacks in between are skipped, for want of subscribe.
Connect ==
    /\ own = "new"
    /\ EarlyClose \/ cl = "idle"
    /\ \/ own' = "joined" /\ sdk' = TRUE /\ room' = TRUE
       \/ own' = "failed" /\ UNCHANGED <<sdk, room>>
    /\ UNCHANGED <<compVars, peer, events, subscribe, subscribed, todo, videoVars, stopped,
                   pumpVars, cl, crashed, faultVars>>

\* EnableVideo: once, unless a call is without video or no pipeline is built.
\* An inbound call enables it with its media, before Connect; an outbound one
\* after that.
EnableVideo ==
    /\ ~comp
    /\ pipeline # "open"
    /\ own \in {"new", "joined"} \/ (LateVideo /\ own = "done")
    /\ EarlyClose \/ LateVideo \/ cl = "idle"
    /\ NewCompositor
    /\ comp' = TRUE
    /\ inputs' = {} /\ inputsNil' = FALSE
    /\ UNCHANGED <<sdkVars, subVars, connVars, pumpVars, cl, crashed, faultVars>>

\* participantJoin: another SIP call will not publish before we do, so it
\* counts as a subscription.  subscribeTo: audio always, video once there is a
\* compositor; SetSubscribed may fail.
SubscribeTo(t) ==
    \/ /\ t \in SipPeers
       /\ subscribed' = TRUE
       /\ UNCHANGED <<track, faultVars>>
    \/ /\ t \in Audio \/ (t \in Video /\ comp)
       /\ track' = [track EXCEPT ![t] = IF @ = "none" /\ peer[t] = "here" THEN "wanted" ELSE @]
       /\ subscribed' = (subscribed \/ t \in Audio)
       /\ UNCHANGED faultVars
    \/ /\ t \in Audio \/ (t \in Video /\ comp)
       /\ Fails(t)
       /\ UNCHANGED <<track, subscribed>>
    \/ /\ t \in Video /\ ~comp
       /\ UNCHANGED <<track, subscribed, faultVars>>

SubscribeUnchanged ==
    UNCHANGED <<compVars, peer, sdk, videoVars, connVars, pump, unsub, cl>>

InRoom == {t \in Peers : peer[t] = "here"}

\* GetRemoteParticipants; no list, no loop.
Listed(step) == todo' = InRoom /\ own' = IF InRoom = {} THEN "done" ELSE step

\* Mutant: the participants are listed before the flag is set.
ListFirst ==
    \/ own = "joined" /\ todo' = InRoom /\ own' = "list" /\ UNCHANGED subscribe
    \/ own = "list" /\ subscribe' = TRUE /\ own' = "iterate" /\ UNCHANGED todo

\* The flag first, then the list.
FlagFirst ==
    \/ own = "joined" /\ subscribe' = TRUE /\ own' = "list" /\ UNCHANGED todo
    \/ own = "list" /\ Listed("iterate") /\ UNCHANGED subscribe

\* Subscribe does nothing without a room.
SubscribeBegins ==
    /\ room
    /\ FlagFirst
    /\ SubscribeUnchanged
    /\ UNCHANGED <<events, track, subscribed, crashed, faultVars>>

\* The room is read again for the list, and CloseWithReason may have cleared it
\* in between.
SubscribePanics ==
    /\ own = "list"
    /\ ~room
    /\ crashed' = TRUE
    /\ SubscribeUnchanged
    /\ UNCHANGED <<events, track, subVars, faultVars>>

\* participantJoin and subscribeTo for a participant of the list.
SubscribeTakes(t) ==
    /\ own = "iterate"
    /\ t \in todo
    /\ todo' = todo \ {t}
    /\ own' = IF todo = {t} THEN "done" ELSE own
    /\ SubscribeTo(t)
    /\ SubscribeUnchanged
    /\ UNCHANGED <<events, subscribe, crashed>>

-----------------------------------------------------------------------------
(* The room and the callbacks of the SDK *)

SdkUnchanged == UNCHANGED <<compVars, sdk, subVars, videoVars, connVars, cl, crashed>>

\* Once it is connected, the SDK keeps its list and calls back afterwards.
PeerAppears(t) ==
    /\ peer[t] = "absent"
    /\ peer' = [peer EXCEPT ![t] = "here"]
    /\ events' = IF sdk THEN events \cup {t} ELSE events
    /\ SdkUnchanged
    /\ UNCHANGED <<pumpVars, faultVars>>

\* Reading ends, and OnTrackUnsubscribed will run.
PeerLeaves(t) ==
    /\ peer[t] = "here"
    /\ peer' = [peer EXCEPT ![t] = "gone"]
    /\ track' = [u \in Tracks |-> IF u = t /\ track[u] \in {"wanted", "live"} THEN "ended" ELSE track[u]]
    /\ unsub' = [u \in Tracks |-> IF u = t /\ track[u] = "live" THEN "pending" ELSE unsub[u]]
    /\ Fault
    /\ SdkUnchanged
    /\ UNCHANGED <<events, pump, failed>>

AllEnded == [t \in Tracks |-> IF track[t] \in {"wanted", "live"} THEN "ended" ELSE track[t]]

\* The connection is lost: OnDisconnected, and reading ends.
RoomDisconnects ==
    /\ sdk
    /\ sdk' = FALSE
    /\ stopped' = TRUE
    /\ track' = AllEnded
    /\ UNCHANGED <<compVars, peer, events, subVars, videoVars, room, pump, unsub, cl, crashed,
                   faultVars>>

\* OnParticipantConnected or OnTrackPublished, skipped before Subscribe.
Callback(t) ==
    /\ t \in events
    /\ events' = events \ {t}
    /\ IF subscribe THEN SubscribeTo(t) ELSE UNCHANGED <<track, subscribed, faultVars>>
    /\ SubscribeUnchanged
    /\ UNCHANGED <<subscribe, own, todo, crashed>>

\* OnTrackSubscribed starts a goroutine.
OnTrackSubscribed(t) ==
    /\ track[t] = "wanted"
    /\ track' = [track EXCEPT ![t] = "live"]
    /\ pump' = [pump EXCEPT ![t] = "start"]
    /\ SdkUnchanged
    /\ UNCHANGED <<peer, events, unsub, faultVars>>

-----------------------------------------------------------------------------
(* removeVideoInput: under videoMu, then in.Close() *)

PumpUnchanged == UNCHANGED <<sdkVars, subVars, comp, inputsNil, connVars, track, cl>>

\* Mutant: the entry goes, the tile stays.
DeleteOnly(id) == UNCHANGED compVars

\* The tile goes with the entry.
CloseInput(id) == RemoveInput(id)

OnTrackUnsubscribed(t) ==
    /\ \/ /\ unsub[t] = "pending"
          /\ unsub' = [unsub EXCEPT ![t] = IF t \in inputs THEN "close" ELSE "done"]
          /\ inputs' = inputs \ {t}
          /\ UNCHANGED compVars
       \/ /\ unsub[t] = "close"
          /\ unsub' = [unsub EXCEPT ![t] = "done"]
          /\ CloseInput(t)
          /\ UNCHANGED inputs
    /\ PumpUnchanged
    /\ UNCHANGED <<pump, crashed, faultVars>>

-----------------------------------------------------------------------------
(* The goroutine of a track *)

PumpTo(t, step) == pump' = [pump EXCEPT ![t] = step]

\* Audio gets an input of the mixer (none once it is stopped) and a decoder,
\* which may fail.
AudioStarts(t) ==
    /\ pump[t] = "start"
    /\ t \in Audio
    /\ \/ cl # "done" /\ PumpTo(t, "loop") /\ UNCHANGED faultVars
       \/ cl = "done" /\ PumpTo(t, "done") /\ UNCHANGED faultVars
       \/ PumpTo(t, "done") /\ Fails(t)
    /\ PumpUnchanged
    /\ UNCHANGED <<compVars, inputs, unsub, crashed>>

AudioEnds(t) ==
    /\ pump[t] = "loop"
    /\ t \in Audio
    /\ track[t] = "ended"
    /\ PumpTo(t, "done")
    /\ PumpUnchanged
    /\ UNCHANGED <<compVars, inputs, unsub, crashed, faultVars>>

\* handleVideoTrack reads r.comp under videoMu; a codec may be unknown.
VideoStarts(t) ==
    /\ pump[t] = "start"
    /\ t \in Video
    /\ \/ comp /\ PumpTo(t, "add") /\ UNCHANGED faultVars
       \/ ~comp /\ PumpTo(t, "done") /\ UNCHANGED faultVars
       \/ PumpTo(t, "done") /\ Fails(t)
    /\ PumpUnchanged
    /\ UNCHANGED <<compVars, inputs, unsub, crashed>>

\* comp.AddInput, with the compositor read before.
VideoAdds(t) ==
    /\ pump[t] = "add"
    /\ \/ /\ AddInput(t)
          /\ PumpTo(t, "register")
          /\ UNCHANGED faultVars
       \/ /\ PumpTo(t, "done")
          /\ (AddInputFails(t) /\ UNCHANGED faultVars) \/ Fails(t)
          /\ UNCHANGED compVars
    /\ PumpUnchanged
    /\ UNCHANGED <<inputs, unsub, crashed>>

\* r.videoInputs[id] = in, a panic when closeVideo has cleared the map.
VideoRegisters(t) ==
    /\ pump[t] = "register"
    /\ IF inputsNil
       THEN crashed' = TRUE /\ UNCHANGED <<inputs, pump>>
       ELSE inputs' = inputs \cup {t} /\ PumpTo(t, "loop") /\ UNCHANGED crashed
    /\ PumpUnchanged
    /\ UNCHANGED <<compVars, unsub, faultVars>>

\* The read loop ends with the track, or after ten failed writes.
VideoEnds(t) ==
    /\ pump[t] = "loop"
    /\ t \in Video
    /\ \/ track[t] = "ended" /\ UNCHANGED faultVars
       \/ track[t] = "live" /\ Fails(t)
    /\ PumpTo(t, "remove")
    /\ PumpUnchanged
    /\ UNCHANGED <<compVars, inputs, unsub, crashed>>

\* The deferred removeVideoInput.
VideoRemoves(t) ==
    /\ \/ /\ pump[t] = "remove"
          /\ PumpTo(t, IF t \in inputs THEN "close" ELSE "done")
          /\ inputs' = inputs \ {t}
          /\ UNCHANGED compVars
       \/ /\ pump[t] = "close"
          /\ PumpTo(t, "done")
          /\ CloseInput(t)
          /\ UNCHANGED inputs
    /\ PumpUnchanged
    /\ UNCHANGED <<unsub, crashed, faultVars>>

Pump(t) ==
    \/ AudioStarts(t) \/ AudioEnds(t)
    \/ VideoStarts(t) \/ VideoAdds(t) \/ VideoRegisters(t) \/ VideoRemoves(t)
    \/ track[t] = "ended" /\ VideoEnds(t)

-----------------------------------------------------------------------------
(* CloseWithReason, once *)

CloseUnchanged == UNCHANGED <<peer, events, subscribed, own, todo, stopped, pump, unsub,
                              crashed, faultVars>>

\* At any time: also a room that was never connected, when the caller hangs up
\* at the PIN prompt or Connect fails.  The subscribe flag and the outputs;
\* closeVideo takes compositor and inputs under videoMu, ...
CloseBegins ==
    /\ cl = "idle"
    /\ cl' = IF comp THEN "comp" ELSE "room"
    /\ subscribe' = FALSE
    /\ comp' = FALSE /\ inputs' = {} /\ inputsNil' = TRUE
    /\ CloseUnchanged
    /\ UNCHANGED <<compVars, sdk, room, track>>

\* Mutant: the compositor is left running.
CompositorForgotten == UNCHANGED compVars

CompositorClosed == CloseCompositor

\* ... and closes them, the compositor last: an input that is added in between
\* goes with it.
CloseComp ==
    /\ cl = "comp"
    /\ cl' = "room"
    /\ CompositorClosed
    /\ CloseUnchanged
    /\ UNCHANGED <<sdk, subscribe, videoVars, room, track>>

\* DisconnectWithReason ends the tracks; then r.room = nil and mix.Stop.
CloseRoom ==
    /\ cl = "room"
    /\ cl' = "done"
    /\ room' = FALSE
    /\ sdk' = (sdk /\ ~room)
    /\ track' = IF room THEN AllEnded ELSE track
    /\ CloseUnchanged
    /\ UNCHANGED <<compVars, subscribe, videoVars>>

Close == CloseComp \/ CloseRoom

-----------------------------------------------------------------------------

Next ==
    /\ ~crashed
    /\ \/ Connect \/ EnableVideo \/ SubscribeBegins \/ SubscribePanics \/ RoomDisconnects \/ CloseBegins \/ Close
       \/ \E t \in Peers : SubscribeTakes(t) \/ PeerAppears(t) \/ Callback(t)
       \/ \E t \in Tracks : PeerLeaves(t) \/ OnTrackSubscribed(t) \/ OnTrackUnsubscribed(t) \/ Pump(t) \/ VideoEnds(t)

\* Goroutines run, the SDK delivers its callbacks, and the server grants a
\* subscription.  Nobody has to join, leave or close.
Fairness ==
    /\ WF_vars(~crashed /\ own = "list" /\ SubscribeBegins)
    /\ \A t \in Peers : WF_vars(~crashed /\ SubscribeTakes(t)) /\ WF_vars(~crashed /\ Callback(t))
    /\ \A t \in Tracks :
          /\ WF_vars(~crashed /\ OnTrackSubscribed(t))
          /\ WF_vars(~crashed /\ OnTrackUnsubscribed(t))
          /\ WF_vars(~crashed /\ Pump(t))
    /\ WF_vars(~crashed /\ Close)

Spec == Init /\ [][Next]_vars /\ Fairness

-----------------------------------------------------------------------------
(* Properties *)

Ending == cl # "idle" \/ stopped \/ crashed

\* Its audio is mixed, its video has a tile; a SIP call has unblocked ours.
Playing(t) ==
    CASE t \in Audio    -> pump[t] = "loop"
      [] t \in Video    -> t \in DOMAIN pads
      [] t \in SipPeers -> subscribed

\* "will subscribe later": a participant that appears while the callbacks skip
\* events is found by Subscribe, one that appears after that by its callback.
\* Whatever the order, a track ends up in the mixer or on the canvas and a SIP
\* call unblocks ours, unless it goes, the room ends or an error was logged.
Rendered ==
    \A t \in Peers :
        peer[t] = "here" /\ subscribe /\ (t \in Video => comp)
            ~> Playing(t) \/ peer[t] = "gone" \/ t \in failed \/ Ending

\* Somebody is about to remove this track's tile, or will when its track ends.
Removing(t) ==
    \/ cl = "comp"
    \/ unsub[t] = "close"
    \/ pump[t] \in {"register", "close"}
    \/ pump[t] \in {"loop", "remove"} /\ t \in inputs

\* No tile outlives its track: in whatever order OnTrackUnsubscribed, the
\* pump's own deferred removal, a late AddInput and closeVideo come, a tile
\* has somebody who will remove it; and a closed room leaves no compositor
\* running, no tile and no connection.
NoGhosts ==
    /\ \A t \in DOMAIN pads : Removing(t)
    /\ cl = "done" => pipeline # "open" /\ DOMAIN pads = {} /\ ~room /\ ~sdk
=============================================================================
