# TLA+ specifications of livekit-sip

livekit-sip bridges SIP calls into LiveKit rooms. This directory holds TLA+
modules that model its call handling, TLC configurations that check them on
small instances, and TLAPS proofs of their main properties. `PROJECT.json` maps
every definition to the lines it models and lists runs, mutants, hazards,
findings and theorems.

## Running

    tlc -workers 2 -config InboundCall_udp.cfg InboundCall   # a run
    tlapm InboundCallProofs.tla                              # the proofs

## Inventory

All paths are below `src/pkg`.

| Component | State | Operations | Hard behaviour | Correct when |
|---|---|---|---|---|
| Inbound call (`sip/inbound.go`) | INVITE transaction, dialog, `done`, contexts, media port, room, registration | `handleInvite`, `Accept`, `StartRinging`, `close`, `Bye`, `Shutdown` | handler, ringing goroutine, BYE/ACK/CANCEL handlers and Stop run at once; waits under `c.mu` | one final response, at most one BYE, caller always told, end reported once, everything released |
| INVITE processing and digest (`sip/inbound.go`, `sip/server.go`) | `inProgressInvites`, `authResolved`, `provisionalInvites`, `rejectedInvites`, `byLocalTag` | `processInvite`, `getInvite`, `handleInviteAuth`, challenge timer | a timer races a retry, a bounded list evicts, a cache expires | only fresh credentials pass, a live call is never recorded as failed, every record is finalized |
| Call transfer (`sip/service.go`, `sip/protocol.go`, `sip/inbound.go`, `sip/analytics.go`) | `pendingTransfers`, `Done` channels, `referCseq`, `referDone`, room output | `TransferSIPParticipant`, REFER, NOTIFY | repeated requests, late NOTIFYs, hang-ups in between, no answer | one transfer at a time, its own result, audio comes back |
| Media timeout (`sip/media_port.go`) | start, windows, last packet, kick channel, timer | `EnableTimeout`, `SetTimeout`, `timeoutLoop`, `Close` | values stored and loaded one by one | silence noticed in time, nobody cut off |
| Outbound call and client (`sip/outbound.go`, `sip/client.go`) | dialog, room, `activeCalls`, status | `createSIPParticipant`, `Dial`, `Invite`, `close`, `Stop` | dialing under the call's mutex, asynchronous dial against a deferred status update, at most five authentication rounds | as for the inbound call, and the reported status never goes back |
| Room (`sip/room.go`, `sip/room_video.go`) | connection, fuses, `subscribe` flag, compositor, `videoInputs` | `Connect`, `EnableVideo`, `Subscribe`, SDK callbacks, a goroutine per track, `CloseWithReason` | callbacks and track goroutines against `Subscribe` and close | everything published is played, no tile outlives its track |
| Video compositor (`media/video/gst.go`) | inputs and their pads | `AddInput`, `RemoveInput`, `relayoutLocked`, `Close` | cameras and screen shares come and go | visible tiles on the canvas and apart, cameras back after a screen share |
| Call state (`sip/analytics.go`) | record, dirty flag, transfers | `Update`, `DeferUpdate`, `Flush`, `StartTransfer`, `EndTransfer` | failed flush | the last state is reported |
| Process, service, server (`cmd/livekit-sip/main.go`, `service/service.go`, `sip/service.go`, `sip/server.go`, `stats/monitor.go`) | signals, fuses, kill flag, registries, health | `runService`, `Start`, `Run`, `Stop`, `ActiveCalls` | signals at any time, counting calls that come and go, graceful against forced stop | calls are spared or stopped as the signal says, the process ends |
| Silence filler (`sip/silence_filler.go`) | last sequence number and timestamp | `HandleRTP` | wrap-around, loss, reordering | silence inserted for real pauses only, no drift |
| Other audio, SIP video, configuration, statistics, TLS, test tools | | | I/O, text and samples | |

They interact as follows. `onInvite` runs `processInvite` in its own goroutine;
after authentication it creates an `inboundCall`, enters it in `byLocalTag` and
runs `handleInvite` to the end of the call. `onBye`, `onAck` and `onNotify`
find the call in `byLocalTag`. The call owns a `MediaPort`, whose `timeoutLoop`
closes a channel the handler selects on, and a `Room`, whose disconnect closes
another one. A transfer request comes through the RPC bus, is found by the same
tag, and sends REFER in the call's dialog. A call subscribes its `Room` to the
participants' tracks; video goes through the room's compositor. Signals reach
`Service.Run`, which waits for the calls or not and then stops `Client` and
`Server`: `Server.Stop` calls `Shutdown` on every call. Each call reports through
`CallState`.

## Modules

**`InboundCall`** is one inbound call. `pc` is the place of the handler in
`handleInvite`; `cl[t]` the place of each of the two threads that run `close()`
(the handler and `Server.Stop`); `bye[b]` that of each `onBye`; `ringer` that of
the ringing goroutine. `tx`, `invite` and `inviteOk` stand for the three pointers
of `sipInbound`; `mu` for its mutex where it is held over several steps (by
`Accept`, which retransmits, and by `sendBye`, which waits for an answer). `resp`
and `byesSent` are what the caller has seen. `port`, `roomConn`, `registered`,
`xferTopic` are what the call must give back. Content of messages, SDP, DTMF and
headers are left out; every outcome of a call into the room SDK, the media port,
the dispatch service or the network is a nondeterministic choice.

**`InviteAuth`** is `processInvite` for several INVITEs of several dialogs, from
the lookup of the tag to the call. INVITEs are numbered, and the number doubles
as CSeq and as fresh tag. A challenge is an entry of `inProgress` with its
`resolved` flag; entries live on when they are evicted, since timers still refer
to them. Credentials are a pair of a quality and a nonce number: the digest is
abstracted to whether it was computed from the right password and from which
challenge. The challenge timer is two steps, the CAS on `authResolved` (`TimerFires`)
and the update of the record (`TimerFinalizes`); a retry may come between them.
`PromptRetry` lets a caller send an INVITE while its predecessor is still being
processed, which UDP and a fast peer allow.

**`Transfer`** is `TransferSIPParticipant` for one inbound call: requests, the
worker goroutine each first request starts (`worker[p]`, named by that request),
the channel `Done` with its one slot, the REFER and the NOTIFYs. `NotifyHasId`
says whether the peer puts the id of the REFER into the Event header. `taken[p]` is
what a worker got from `SwapOutput`, which may be nothing after an earlier transfer,
and what it gives back. `EndReported` is the report of the end, which is lost when the
transfer's context has expired or the RPC fails. The end of
the call is two steps, `ByeArrives` (the context ends) and `CallCloses`
(the call leaves `byLocalTag`).

**`MediaTimeout`** is the timeout of a `MediaPort` in discrete time: every atomic
load of `timeoutLoop` and every atomic store of `enableTimeout` is a step; time
advances only when nobody can move at this instant. `heard`, `armed` and `lowest` are
history: the last packet, the start and the least general window as the instant found
them, and `lowest` also through the instant. `MCMediaTimeout` gives it small windows.

**`OutboundCall`** is one outbound call and the `Client` that creates it. `create`
is the place of `createSIPParticipant`, `dial` that of the goroutine that runs
`Dial` and `waitClose`; `cl[t]` is how far each thread is in closing the call: the
creator, the dialer, every `onBye`, the timer that hangs up after a transfer, and
`Client.Stop`. `mu` is the call's mutex, which `connectSIP` holds while it dials;
the dialog's mutex needs no variable (`CcLocked`). `callee` is how far the callee is
with our INVITE: its final response (`CalleeResponds`), our reading of it
(`SipResponse`) and our giving up (`GiveUp`) are steps of their own, so that a 200 may
stay unread. A BYE of the callee is answered (`RespondBye`) before it drops the dialog
under its mutex (`AcceptBye`). `dialog` stands for `invite` and
`inviteOk`, which are set together; `record` and `recErr` are what `CallState`
reports. Two constants switch on nil dereferences that the properties would only
repeat: `PortsRunOut` (`newCall` closes a call whose media port could not be
opened, and `close()` uses the nil port) and `StopRaces` (`Client.Stop` drops
`sipCli` while a new call has not yet taken its mutex, or while a REFER is built
but not sent). Both are off in the runs, which ask about everything else.

**`CallLeg`** is the abstract specification of the signalling of a call, whichever
side sent the INVITE: `answer` is the last response, `byeOut` the number of our
BYEs, `byeIn` how far the peer's BYE is, `closing` whether our side shuts down. The
peer's BYE is accepted when the 200 for it is sent, and drops the dialog a step later:
both `AcceptBye` functions respond before they take the dialog's lock, so that a
response or a BYE of ours can cross it, and silence is promised from the drop on.
`InboundCall` and `OutboundCall` instantiate it (`Leg`) and state
`ImplementsCallLeg == Leg!Spec`. Inbound, `answer` is `resp`, and `closing` is
constantly false, so a second BYE is never allowed. Outbound, `answer` is 200 as soon as
the callee has sent it, and `closing` is the client's fuse: `sendBye`
does not wait for the answer then and keeps the dialog, so that `close()` may
repeat the BYE that `sipSignal` has sent.

**`Compositor`** is the set of inputs of the grid compositor with the rectangles
that `layoutGrid` sets, as functions of the IDs; its operations run under one mutex
and are one action each. GStreamer is external. **`Room`** extends it and interleaves
those operations with the room's threads: the owner of the room (`own`), the SDK's
callbacks (`events`, `unsub`), the goroutine of each track (`pump`), and
`CloseWithReason` (`cl`). `removeVideoInput` and `handleVideoTrack` are split where
they release `videoMu`. A participant has one track, or is a SIP call that has not
published yet. `crashed` is a panic, after which nothing moves. Video is enabled before
`Connect` (an inbound call does so with its media) or after it (an outbound one), and
the room may be closed at any time, also before it connected, as the inbound handler
does when the media, the pin or `Connect` fails. `LateVideo` lets `EnableVideo` run after
`Subscribe`; `EarlyClose` lets the owner connect a room, or enable its video, after
somebody else has closed it, which needs `Server.Stop`.

**`ServiceShutdown`** is the process: `main` is the place of `runService` and `Run`,
`stop` that of `Service.Stop` (its three stores are three steps), `handled` the one
signal that main's goroutine takes. A call is reduced to its registration and its
end; `late` remembers the calls that registered after their map was last counted.

**`SilenceFiller`** is `HandleRTP` with the widths of sequence number and timestamp
as constants. A packet is its number and the frame it was spoken in; the filler sees
only the wrapped header fields. The network loses, delays and repeats packets, but
not by a whole period of the sequence number (`InWindow`). Peers that reset their
timestamps are not modelled: such a reset, if it is small and the sequence number
goes on, cannot be told from silence.

**`InboundCallProofs`**, **`OutboundCallProofs`**, **`InviteAuthProofs`**,
**`TransferProofs`**, **`MediaTimeoutProofs`**, **`RoomProofs`** (of `Room` and of
`Compositor`), **`ServiceShutdownProofs`** and **`SilenceFillerProofs`** hold the
theorems.

In every module `TypeOK` says which values the variables take; `TypeCorrect`,
`OutboundTypeCorrect`, `InviteTypeCorrect` and `TimeoutTypeCorrect` prove it for
`InboundCall`, `OutboundCall`, `InviteAuth` and `MediaTimeout`.

## Runs

| Run | Shows | Bounds |
|---|---|---|
| `inbound_udp` | implements `CallLeg`, caller told, resources released; a BYE ends the call, ringing ends, CANCEL is answered | UDP, one BYE, one retransmission |
| `inbound_shutdown` | end reported once although two threads close; with InboundWaitACK only an acknowledged call becomes active; Stop returns | reliable transport, one BYE, one retransmission, which may fail |
| `auth_retry` | calls can be found, only the last challenge of a Call-ID lets a caller in, with evictions in between, records are finalized | three INVITEs, two dialogs, list limit 1, trunks without authentication or with a password |
| `auth_prompt` | (violation) a challenge timer spares a live call | two overlapping INVITEs of one dialog |
| `transfer_notify` | one transfer at a time, own result, audio given back; requests answered and transfers ended, reported or not | two requests, two targets |
| `transfer_repeated` | (violation) a request that waits for another's transfer reports its failure | two requests |
| `media_timeout` | punctual, no false timeout, quiet when disabled; goroutine ends | 6 instants, an initial window of 3 and a general one of 1, both changed to 2 or to the defaults |
| `outbound_dial` | implements `CallLeg`, a callee whose 200 was read is told, BYE sent while room and media exist, resources released, SIP client there when used; a BYE, the end of the room and Stop end the call | two INVITEs, a callee that answers at any time, one BYE, one transfer, Stop after the dialer has its mutex |
| `room_tracks` | no tile without somebody who will remove it, nothing left after close; whatever is published gets played | an audio track, a camera, a SIP call; video before or after `Connect`, a close at any time; one departure or error |
| `compositor_grid` | tiles on the canvas and apart, cameras parked exactly while a screen is shared | five cameras, three screen shares, a canvas of 13 by 7 |
| `service_signals` | a graceful stop spares the calls it could count and ends with them; a kill ends | two calls in each direction, every signal, failing starts |
| `silence_wrap` | no drift in an orderly stream; loss, reordering and copies are not filled | six packets, pauses of up to 7 frames, sequence numbers modulo 4, timestamps modulo 12, two faults |

Why the bounds are enough: a call reacts to a second BYE as to one that finds no
call or a dropped transaction, which one BYE reaches by being late;
one retransmission already separates the first transmission, a repeated one and
the last. Three INVITEs are a challenge, an answer and a duplicate or a re-INVITE;
an eviction needs two dialogs and a limit of one. Every
trunk may also drop or reject, and the credentials may be unavailable. `auth_retry` leaves
out the trunk that asks for nothing ("accept"), whose INVITE goes straight to the call
without `inProgressInvites`; an "open" one reaches the call, too, and adds an entry to
that list on its way. Two transfer requests are enough
for a repeated one, a conflicting one and one that follows a finished transfer.
Two INVITEs of an outbound call are one challenge and its answer; the five closers
of `OutboundCall` meet in every order.
Six instants hold an initial window, a packet, a general window and a re-arming.
One camera suffices in `room_tracks`, since the goroutines of two tracks meet only in
the compositor and in `videoInputs`, under mutexes, and by ID; one fault is a
departure, a failed subscription, decoder or tile. Five cameras reach a grid of three
columns with an incomplete row, and 13 and 7 are divided by none of the grids. Two calls
of each kind let one end while another registers between the two counts. Six packets
wrap both counters more than once, and pauses cover none, short, the longest that is
filled, longer, and a whole period of the timestamp and more.

`CHECK_DEADLOCK FALSE` is set everywhere because all models end: calls end, the
number of INVITEs and requests and the clock are bounded.

### Known deviations

Two runs are marked `violation` in `PROJECT.json`; each contradicts a comment of the
source.

* `transfer_repeated`: of two requests that wait for one transfer the second reads nil
  from the closed channel and reports success for a failed transfer.
* `auth_prompt`: `scheduleAuthChallengeTimeout` clears `authResolved` after the 407 was
  sent. A retry that comes in between has set it, its call is live, and the timer
  records that call as failed.

The following behaviours are in the models too. They have no run of their own;
each is found by TLC when the named constant or property is put into a cfg.

* `InboundCall` with `RetransmitMayFail`, `OkMeansAccepted`: a failed retransmission
  of 200 leaves the answered INVITE pending, so the caller gets an error response
  rather than a BYE, whereas `inbound.go:2102` says "Other side likely thinks it's
  accepted, so update our state accordingly, even if no ACK follows."
* `InboundCall` with `Shutdown`, `Released`: Shutdown closes a call whose handler is
  still acquiring things, and what is acquired later is never released, because the
  handler's own `close()` finds `done` set. `NoNilDeref` fails as well: Shutdown drops
  the INVITE transaction of a call whose handler is about to start ringing.
* `InviteAuth` with `PromptRetry`, `Finalized`: a retry that is looked up before
  `provisionalInvites` knows the tag gets a tag of its own and disarms the timer, and
  the first record stays INCOMING. With four INVITEs and a list limit of one,
  `TimerSparesCalls` fails without `PromptRetry`, too: an INVITE whose entry was evicted
  gets a new one and no longer supersedes the pending timer. And whenever the caller
  answers, a retry that comes between the timer's CAS and its update can make a call
  that the update then records as failed; `TimerSparesCalls` speaks of the CAS.
* `Transfer` without `NotifyHasId`, `ResultIsOwn`: a late NOTIFY without id decides
  the next transfer.
* `Transfer`: the end of a transfer for which no NOTIFY came is reported with a context
  that has expired (`inbound.go:2329`, `analytics.go:124`); the error is ignored and the
  transfer stays ONGOING for the IO service. `TransferEnds` allows for a lost report.
* `MediaTimeout`: a `SetTimeout` that shortens the initial window stores the window
  before the start, so that a loop that reads in between combines the old start with
  the new window and may fire at once, whereas `media_port_test.go:619` says the timeout is
  measured from the call of `SetTimeout`. `NoFalseTimeout` takes the start that the
  instant found and the window that is stored.
* `OutboundCall`: when the ringing timeout, the room or the closing client ends
  `sipResponse` while a 200 is queued or under way, nobody reads it: the callee gets
  neither ACK nor BYE. `CalleeIsTold` exempts that 200 and no other.
* `OutboundCall`, `EndRecorded`: a call dialed in its own goroutine can fail and be
  recorded before `createSIPParticipant` returns; the deferred update then leaves it
  as PARTICIPANT_JOINED.
* `Room`, `~crashed`: a room that is closed while a video track starts panics in
  `r.videoInputs[id] = in` (nil map, `room_video.go:130`); one that is closed while
  `Subscribe` runs panics in `GetRemoteParticipants` (nil room, `room.go:530`).
  `Rendered` and `NoGhosts` are about the other outcomes.
* `Room` with `EarlyClose`: a room that connects after `Server.Stop` closed it stays
  connected, since `CloseWithReason` runs once (`NoGhosts`), and video that is enabled
  then is never closed. With `LateVideo`, video
  tracks that were published before `EnableVideo` are not subscribed to afterwards.
* `ServiceShutdown`: neither health nor shutdown is looked at for INVITEs, so a
  graceful stop cuts a call that registers after the last count (`Graceful` exempts
  it by `late`). Only one signal is handled: SIGINT after SIGTERM does nothing, and
  the process waits for its calls (`KillStops` speaks of the signal that was handled).

Comments that differ from the code without consequences: `gst.go:419` says of six
cameras "last cell empty", but six fill a grid of 3 by 2; `gst.go:576` says the cropper
is "nil for screenshares", but every input has one.

## Fairness

The specifications assume weak fairness of goroutines that can move, of timers,
and of calls into the network or an SDK, which all have timeouts; never of the
peer. In `InboundCall` the two selects without a timer of their own
(`pinPrompt` and `waitForCallEnd`) are fair only once the call's context is done.
Nothing makes a caller hang up, acknowledge, retry or send a NOTIFY. Waits for
`c.mu` need no strong fairness, because the lock is held over several steps at
most twice per call. In `OutboundCall` nothing obliges the media to time out; the
dialer's waits end because the ringing timeout, the end of the room and the closing
client all end `sipResponse`, and the wait for the answer to a BYE is bounded too.
In `Room` the SDK delivers the callbacks it owes and the server grants a
subscription, but no participant has to join, leave or publish and nobody has to
close. In `ServiceShutdown` the threads of the process run; no signal has to come and
no call has to end (`DrainEnds` assumes it where it needs it). `MediaTimeout` assumes strong fairness of the case of
`timeoutLoop`'s select that sees the closed fuse: Go chooses at random among
ready cases.

## Proofs

Every safety property that a passing run checks is also a theorem. Where a theorem
assumes something of the constants that switch behaviours on, the property is false
without it, for the reason that the known deviations or the description of the module
give; the runs set the constants the same way.

`InboundCallProofs`, for every set of BYEs, every retry limit and every
combination of flags:

* `TypeCorrect`: `TypeOK` is inductive by itself; one lemma per part.
* `TerminateOnce`: `EmittedOnce` follows from `IInv`, which adds to the types who
  holds `c.mu` (`LockInv`), which pointers of the dialog can be set together
  (`DialogInv`), what `Accept` relies on (`AcceptInv`, `EarlyInv`), and that a
  thread past the CAS implies `done` (`StageInv`, `EmitInv`). The last is what makes
  it inductive: that the handler returns only after its `close()`.
* `ByeOnce`, `NoByeCrossing` and `CallerAlwaysTold` use `TalkInv`: only `Accept` sends
  a 200 (`OkInv`); a BYE, ours or the caller's, leaves neither `tx` nor `inviteOk`
  (`ByeInv`); a dropped leg means the caller knows (`ToldInv`); and after `done` some
  closer is about to run `CloseWithStatus`, or nothing is left (`CloseInv`).
* `InboundImplementsCallLeg` and `FinalResponseOnce` assume
  `~RetransmitMayFail` and use that a pending INVITE then has no final response unless
  `Accept` is sending its 200s (`AnswerInv`). The refinement maps every step to
  a step of `CallLeg` or a stutter: under `AInv`, a response goes out only while the
  INVITE is pending, a BYE only when the dialog was answered and nobody has dropped it,
  and `onBye` alone moves `byeIn`, through accepted to dropped (`PhaseStep`). The assumption is needed: see the first of the known deviations.
* `AllReleased` assumes `~Shutdown` and uses `HoldInv`: only
  the handler closes the call (`AloneInv`); before `StartRinging` the INVITE cannot
  have been dropped, since the caller has no dialog to end, and the room is not closed
  under the handler (`ReadyInv`); and what a step of `close()` has released nobody
  takes again (`ReleaseInv`). With `Shutdown` it is false, as the known deviations
  say.
* `ActiveAfterAck`, for every combination of flags: with InboundWaitACK, `Accept`
  returns without an error only after an ACK, and every way to ACTIVE leads through
  `Accept` (`AckInv`).

`OutboundCallProofs`, for every set of BYEs, every number of INVITEs and a dialing
that is synchronous or not:

* `OutboundImplementsCallLeg` assumes nothing: `LegInv` adds to the types that nothing
  precedes the callee's 200 (`AcceptInv`), how far the callee is at each place of the
  dialer, and that no BYE of its is processed while `Invite` holds the dialog
  (`CalleeInv`), and that a dialog we still hold is one whose 200 we read and that nobody
  has dropped or `sendBye` kept because the client is closing (`WireInv`). The call's
  mutex is not needed for it, and so it holds when Stop races and when ports run out.
* `OutboundReleased` and `OutboundTypeCorrect` assume nothing either. `BInv` says how
  creator, dialer and closing depend on each other (`NewInv`, `StageInv`), that one
  thread at a time dials or is in `close()`, and none is in `close()` once the call is
  stopped (`MutexInv`), that what a step of `close()` released stays so (`ReleaseInv`), and
  that only a malformed answer and `close()` send a BYE, so that there are two at most
  (`CountInv`).
* `CalleeAlwaysTold` and `AttrsAtBye` assume `~StopRaces`, `ClientOutlivesCall` also
  `~PortsRunOut`. Then no call is dialed after Stop has closed it (`PromptInv`), and Stop
  drops the SIP client after the call is closed (`StopInv`); until `sipOutbound.Close` has
  run there is a dialog to tell a callee in whose 200 we read (`ToldInv`), and port and room are held
  until their step of `close()` (`HoldInv`). With `StopRaces` the three are false: the
  dialer takes `c.mu` of a call that is closed already, dials, and nobody closes it again.

`InviteAuthProofs`, for any number of INVITEs, any Call-IDs and any `digestLimit`:

* `CallFindable`, also with `PromptRetry`: past the lookup of its tag an INVITE is alone
  with its Call-ID (`AloneInv`), because the caller sends the next one only after an
  answer (`OrderInv`, `AnswerInv`), and an INVITE that comes during a call is taken for
  a re-INVITE of it (`FollowInv`). Tags of different Call-IDs differ (`TagInv`).
* `OnlyFreshCredentials`, also with `PromptRetry`: the list holds one entry for a Call-ID
  at most (`ListInv`), and an entry that `getInvite` finds has no nonce or the last one
  that its Call-ID was sent (`NonceInv`). An eviction loses the entry and its nonce together.
* `InviteTypeCorrect` includes that the list never outgrows `digestLimit`.

`TransferProofs`, for any number of requests and targets:

* `SharedTransfer`: a worker that runs is the one `pendingTransfers` names
  (`PendingInv`).
* `OwnResult`, assuming `NotifyHasId`: while a worker waits, `referCseq` is its own
  REFER (`AwaitInv`), and a NOTIFY blocked on `referDone` belongs to the current
  REFER because it holds `c.mu` (`BlockedInv`). The assumption is needed: see the
  known deviations.
* `AudioAlwaysReturns`, with or without `NotifyHasId`: somebody answers for an output
  that is not the room's, be it a worker that will restore it, a timer that will hang up
  or the end of the call, and there is no output while a worker holds the one it took
  (`OutputInv`); the dial tone plays only while its worker can
  take it back (`ToneInv`); a worker that ends has a result (`ResultInv`), and a request
  starts one worker at most (`FreshInv`).

`MediaTimeoutProofs`, for all windows, any length of time and any number of changes:

* `TimeoutPunctual`, `NobodyCutOff`, `DisabledStaysQuiet` and `TimeoutTypeCorrect` follow
  from `TimeoutInv`: nothing is stored in the future (`PastInv`); what the loop misses
  while it reads (`ReadInv`) or has yet to be woken for (`KickInv`) is of this instant;
  and otherwise it works with the stored values and its timer is early enough, also
  for a packet that comes while it sleeps and so ends the initial window (`FreshInv`).
  The last is what makes it inductive: the timer is never more than the general
  window away. `NobodyCutOff` adds `InstantInv`: what the loop has read is, piece by
  piece, as old as what the instant found or of the instant itself, whichever of the
  stores it has missed.

`RoomProofs`, for every canvas and every finite set of cameras and screen shares, and
in the room for any number of participants and faults:

* `CompositorTilesLegal`: the inductive invariant `LaidOut` adds to `TilesLegal` that
  only tracks of the room have pads, so that the next layout sorts finitely many IDs.
  Every operation lays out anew or leaves nothing, so that the theorem rests on
  `RelayoutLegal`: an index below `n` has a column below `Cols(n)` and a row below
  `Rows(n)`, different IDs have different indices and so different cells, different
  cells are apart by at least a tile, and `Cols(n)` tiles of a rounded-down width fit.
* `TilesRemoved`, assuming `~LateVideo` and `~EarlyClose` (video before or after
  `Connect`, a close at any time, nothing enabled or connected after it): only video tracks get as far
  as the compositor (`TrackInv`), and a track is subscribed to and unsubscribed once
  (`OnceInv`), so that a tile still has its goroutine, a callback or `closeVideo` to
  remove it (`TileInv`); the compositor lives from `EnableVideo` to `closeVideo`
  (`ClosingInv`), and the SDK is connected while `r.room` is set (`ConnInv`).
* `RoomImplementsCompositor`, under the same assumptions: every step of the room's
  threads is a step of `Compositor` or leaves it alone, `NewCompositor` and `Close` come once
  and in this order.
* `RoomTilesLegal` needs no assumption: in the room, too, every step that touches the
  tiles lays them out, with IDs of video tracks only (`TrackInv`).

`ServiceShutdownProofs`, for any finite sets of calls:

* `StopIsGraceful`: `ShutdownInv` ties the place of `Run` to what the last counts
  saw: after the client's map was counted empty its active calls are in `late`, and
  after both counts all active calls are; before the first count every active call
  is, which covers a start that fails; the kill flag is set only for SIGINT.

`SilenceFillerProofs`, for every width, frame size, gap limit and start of the counters:

* `FillerInSync` and `FillerSilenceIsReal`: `FillerInv` says that `lastSeq` and
  `lastTS` are the header of `last` (`Remembers`), and that of the packets sent, handled
  or under way a later one was spoken later (`Ordered`). No gap modulo the width then
  means consecutive packets (because of `InWindow`), and the timestamp difference is the
  pause exactly while that is below the width, and never more than the pause otherwise.
  The assumption `MaxGap * Frame < TsMod` is needed for the former.

Left to TLC: the liveness properties (`RingingEnds`, `ByeEndsCall`, `CancelAnswered`,
`StopReturns`, `Finalized`, `RequestAnswered`, `TransferEnds`, `LoopStops`,
`RoomEndsCall`, `Rendered`, `KillStops`, `DrainEnds`), since TLAPS reasons neither
about `ENABLED` nor about fairness, and the deviations, which are counterexamples.

## Not modelled

* SDP, codecs, DTMF, headers and attributes, INFO, the H.264 packetizer, the RTP
  pipeline of `media_port.go` and `media/`: text, samples and I/O without protocol
  state.
* GStreamer, the LiveKit SDK and sipgo: external; their outcomes are choices.
* `CallState`'s dirty flag: a failed `Update` leaves it set and the next one sends the
  record; nothing reads it back. (`EndTransfer` reports apart from it and only once,
  which `Transfer` models.)
* Load affinity (`MaxActiveCalls` is only looked at there), configuration, TLS,
  metrics, HTTP endpoints, listeners beyond their success or failure.
* Re-INVITEs for outbound calls, and the dial tone and the result of a transfer of
  one. A track that is published again under its old ID.

## Plan

1. Done: `InboundCall`, `InviteAuth`, `Transfer`, `MediaTimeout`, `OutboundCall`,
   `CallLeg` and its refinements, `Compositor`, `Room`, `ServiceShutdown`,
   `SilenceFiller`, and the theorems above.
2. Done: theorems of `OutboundCall`, `InviteAuth`, `MediaTimeout` and `Room`.
3. Theorems: the types of `Transfer`, `Room`, `ServiceShutdown`; what of `NoGhosts`
   and `Released` holds when `Server.Stop` interferes.
