---------------------------- MODULE InboundCall ----------------------------
(***************************************************************************)
(* One inbound SIP call (pkg/sip/inbound.go): the signalling leg           *)
(* (sipInbound) and the call object (inboundCall) that owns it, from the   *)
(* moment newInboundCall has put the call into Server.byLocalTag until     *)
(* processInvite returns.                                                  *)
(*                                                                         *)
(* Threads: the handler (processInvite -> handleInvite), the ringing       *)
(* goroutine of StartRinging, one onBye per BYE request, onAck, and        *)
(* Server.Stop, which calls Shutdown on the calls it finds.  The handler   *)
(* and Stop are the two threads that run close().                          *)
(*                                                                         *)
(* c.mu is a lock with a holder; the critical sections of the ringing      *)
(* goroutine and of onBye do not block and are single steps, Accept and    *)
(* sendBye wait while they hold it and are several.                        *)
(***************************************************************************)
EXTENDS Naturals

CONSTANTS
    Byes,               \* the BYE requests the caller may send
    MaxRetries,         \* maxRetries in Accept
    Reliable,           \* the leg's transport is not UDP
    WaitACK,            \* conf.Experimental.InboundWaitACK
    RetransmitMayFail,  \* inviteTx.Respond may fail on a retransmitted 200
    Shutdown            \* Server.Stop may run during the call

ASSUME MaxRetriesAssumption == MaxRetries \in Nat
ASSUME FlagsAssumption == {Reliable, WaitACK, RetransmitMayFail, Shutdown} \subseteq BOOLEAN

VARIABLES
    (* sipInbound *)
    tx,          \* inviteTx # nil
    invite,      \* invite # nil
    inviteOk,    \* inviteOk # nil
    ringing,     \* ringing # nil: the stop channel of the ringing goroutine is open
    cancelled,   \* the cancelled channel is closed
    acked,       \* the acked fuse is broken
    txAck,       \* an ACK is waiting in inviteTx.Acks()
    mu,          \* the holder of c.mu between steps
    ringer,      \* the goroutine started by StartRinging
    (* history: what the caller saw *)
    resp,        \* the last response to the INVITE
    byesSent,    \* how many BYE requests we sent
    (* the handler *)
    pc,          \* where it is
    try,         \* try in Accept
    pin,         \* pinPrompt
    watch,       \* ackReceived # nil
    failed,      \* the error it will return is not nil
    (* close() *)
    cl,          \* how far each closer is
    why,         \* the termination reason each closer passes
    (* inboundCall *)
    done,        \* done
    ctxDone,     \* ctx is cancelled
    deadline,    \* MaxCallDuration has passed
    emits,       \* how many times CallTerminate was called
    term,        \* its reason
    registered,  \* the call is in byLocalTag
    xferTopic,   \* the transfer topic is registered
    roomConn,    \* lkRoom.room # nil
    roomClosed,  \* lkRoom.closed is broken
    roomStopped, \* lkRoom.stopped is broken
    port,        \* the media port
    mediaTimer,  \* its timeout is enabled
    status,      \* CallState: CallStatus
    infoErr,     \* CallState: Error # ""
    bye          \* progress of onBye for each BYE request

dialogVars  == <<tx, invite, inviteOk, ringing>>
eventVars   == <<cancelled, acked, txAck>>
wireVars    == <<resp, byesSent>>
handlerVars == <<pc, try, pin, watch, failed>>
closeVars   == <<cl, why>>
callVars    == <<done, ctxDone, deadline, emits, term>>
regVars     == <<registered, xferTopic>>
roomVars    == <<roomConn, roomClosed, roomStopped>>
mediaVars   == <<port, mediaTimer>>
infoVars    == <<status, infoErr>>

vars == <<dialogVars, eventVars, mu, ringer, wireVars, handlerVars, closeVars,
          callVars, regVars, roomVars, mediaVars, infoVars, bye>>

-----------------------------------------------------------------------------

Closers   == {"handler", "stop"}
Resps     == {"none", "100", "180", "200", "fail"}
Final     == {"200", "fail"}
CloseStep == {"idle", "cas", "signal", "byewait", "room", "media", "registry", "cancel", "done"}
HandlerPC == {"ring", "dispatch", "media", "accept", "send", "ackwait", "waitmedia",
              "pin", "join", "connect", "publish", "waitsub", "active", "waitend",
              "closing", "return", "ended", "crashed"}
Reasons   == {"none", "rejected", "flood", "media-failed", "no-ack", "accept-failed",
              "hangup", "cancelled", "media-timeout", "cannot-subscribe", "wrong-pin",
              "dispatch-error", "participant-failed", "publish-failed", "room-closed",
              "other", "shutdown"}
Statuses  == {"INCOMING", "ACTIVE", "DISCONNECTED", "ERROR"}
ByeStep   == {"unsent", "drop", "cancel", "done", "unknown"}

LegFlags ==
    /\ tx \in BOOLEAN /\ invite \in BOOLEAN /\ inviteOk \in BOOLEAN /\ ringing \in BOOLEAN
    /\ cancelled \in BOOLEAN /\ acked \in BOOLEAN /\ txAck \in BOOLEAN

CallFlags ==
    /\ pin \in BOOLEAN /\ watch \in BOOLEAN /\ failed \in BOOLEAN
    /\ done \in BOOLEAN /\ ctxDone \in BOOLEAN /\ deadline \in BOOLEAN

HeldFlags ==
    /\ registered \in BOOLEAN /\ xferTopic \in BOOLEAN
    /\ roomConn \in BOOLEAN /\ roomClosed \in BOOLEAN /\ roomStopped \in BOOLEAN

InfoFlags == mediaTimer \in BOOLEAN /\ infoErr \in BOOLEAN

SignalTypes ==
    /\ mu \in {"free", "handler", "stop"}
    /\ ringer \in {"none", "loop", "tick", "done"}
    /\ resp \in Resps

CallTypes ==
    /\ pc \in HandlerPC
    /\ port \in {"none", "open", "closed"}
    /\ status \in Statuses
    /\ bye \in [Byes -> ByeStep]

CloseTypes ==
    /\ cl \in [Closers -> CloseStep]
    /\ why \in [Closers -> Reasons]
    /\ term \in Reasons

Counters == byesSent \in Nat /\ try \in Nat /\ emits \in Nat

\* Every variable holds a value the Go fields can hold.
TypeOK ==
    /\ LegFlags /\ CallFlags /\ HeldFlags /\ InfoFlags
    /\ SignalTypes /\ CallTypes /\ CloseTypes /\ Counters

\* newInboundCall has returned: the INVITE transaction is open, nothing but
\* possibly a 100 (Processing, not sent with HideInboundPort) has been sent.
Init ==
    /\ tx = TRUE /\ invite = TRUE /\ inviteOk = FALSE /\ ringing = FALSE
    /\ cancelled = FALSE /\ acked = FALSE /\ txAck = FALSE
    /\ mu = "free"
    /\ ringer = "none"
    /\ resp \in {"none", "100"} /\ byesSent = 0
    /\ pc = "ring" /\ try = 0 /\ pin = FALSE /\ watch = FALSE /\ failed = FALSE
    /\ cl = [t \in Closers |-> "idle"] /\ why = [t \in Closers |-> "none"]
    /\ done = FALSE /\ ctxDone = FALSE /\ deadline = FALSE /\ emits = 0 /\ term = "none"
    /\ registered = TRUE /\ xferTopic = FALSE
    /\ roomConn = FALSE /\ roomClosed = FALSE /\ roomStopped = FALSE
    /\ port = "none" /\ mediaTimer = FALSE
    /\ status = "INCOMING" /\ infoErr = FALSE
    /\ bye = [b \in Byes |-> "unsent"]

-----------------------------------------------------------------------------
(* Helpers of sipInbound *)

\* Mutants of Drop: the 200 is kept; the ringing goroutine is not stopped.
DropKeepsOk ==
    tx' = FALSE /\ invite' = FALSE /\ ringing' = FALSE /\ UNCHANGED inviteOk

DropKeepsRinging ==
    tx' = FALSE /\ invite' = FALSE /\ inviteOk' = FALSE /\ UNCHANGED ringing

\* drop(): stopRinging, and forget the transaction, the INVITE and the 200.
Drop ==
    /\ tx' = FALSE
    /\ invite' = FALSE
    /\ inviteOk' = FALSE
    /\ ringing' = FALSE

\* Mutant: no check of the transaction.
RespondUnchecked(r) == resp' = r

\* respond(): a nil transaction sends nothing.
Respond(r) == resp' = IF tx THEN r ELSE resp

\* Mutant: the response is forgotten.
DropWithoutResponse ==
    mu = "free" /\ Drop /\ UNCHANGED wireVars

\* RespondAndDrop(): the error response and drop(), under c.mu.
RespondAndDrop ==
    /\ mu = "free"
    /\ Respond("fail")
    /\ Drop
    /\ UNCHANGED byesSent

\* The handler leaves its normal course: it calls close() with a reason, and
\* will return an error (or nil) once close() is through.
HandlerCloses(reason, err) ==
    /\ pc' = "closing"
    /\ failed' = err
    /\ cl' = [cl EXCEPT !["handler"] = "cas"]
    /\ why' = [why EXCEPT !["handler"] = reason]
    /\ UNCHANGED <<try, pin, watch>>

\* The handler moves on.
Goto(p) ==
    /\ pc' = p
    /\ UNCHANGED <<try, pin, watch, failed, closeVars>>

\* closeWithReason() also records an error unless the BYE's reason is normal.
ReasonRecorded ==
    /\ infoErr' \in {infoErr, TRUE}
    /\ UNCHANGED status

-----------------------------------------------------------------------------
(* The handler, up to the answer *)

\* StartRinging: 180 and the ringing goroutine.  tx.Cancels() on a transaction
\* that was dropped meanwhile is a nil dereference.
StartRinging ==
    /\ pc = "ring"
    /\ mu = "free"
    /\ \/ /\ tx
          /\ resp' = "180"
          /\ ringing' = TRUE
          /\ ringer' = "loop"
          /\ Goto("dispatch")
       \/ /\ ~tx
          /\ Goto("crashed")
          /\ UNCHANGED <<resp, ringing, ringer>>
    /\ UNCHANGED <<tx, invite, inviteOk, eventVars, mu, byesSent, callVars, regVars,
                   roomVars, mediaVars, infoVars, bye>>

\* What the dispatch rules say of a call; a result that is not known is a
\* rejection, an RPC that fails makes the service unavailable.
DispatchCall == {"accept", "pin", "reject", "drop", "unavailable"}

\* Accept, ask for a pin, drop silently, or answer with an error: no rule, no
\* service, or, whatever the rules say, a bad media config.
Dispatch ==
    /\ pc = "dispatch"
    /\ \E disp \in DispatchCall :
          \/ /\ disp \in {"accept", "pin"}
             /\ pc' = "media"
             /\ pin' = (disp = "pin")
             /\ UNCHANGED <<try, watch, failed, closeVars, dialogVars, wireVars>>
          \/ /\ RespondAndDrop
             /\ HandlerCloses("rejected", TRUE)
          \/ /\ disp = "drop"
             /\ mu = "free"
             /\ Drop
             /\ HandlerCloses("flood", TRUE)
             /\ UNCHANGED wireVars
    /\ UNCHANGED <<eventVars, mu, ringer, callVars, regVars, roomVars, mediaVars, infoVars, bye>>

\* runMedia: runMediaConn opens the port (its timeout disabled) and negotiates;
\* it can fail before or after the port exists, and the INVITE is then refused.
RunMedia ==
    /\ pc = "media"
    /\ \/ /\ port' = "open"
          /\ Goto(IF pin THEN "accept" ELSE "join")
          /\ UNCHANGED <<dialogVars, wireVars>>
       \/ /\ port' \in {port, "open"}
          /\ RespondAndDrop
          /\ HandlerCloses("media-failed", TRUE)
    /\ UNCHANGED <<eventVars, mu, ringer, callVars, regVars, roomVars, mediaTimer, infoVars, bye>>

\* Accept, on entry: c.mu is taken and kept; ringing stops.
AcceptBegin ==
    /\ pc = "accept"
    /\ mu = "free"
    /\ \/ /\ ~tx
          /\ HandlerCloses("accept-failed", TRUE)
          /\ UNCHANGED <<mu, ringing>>
       \/ /\ tx
          /\ mu' = "handler"
          /\ ringing' = FALSE
          /\ pc' = "send"
          /\ try' = 1
          /\ UNCHANGED <<pin, watch, failed, closeVars>>
    /\ UNCHANGED <<tx, invite, inviteOk, eventVars, ringer, wireVars, callVars, regVars,
                   roomVars, mediaVars, infoVars, bye>>

\* Mutant: the 200 is not recorded.
AcceptedUnrecorded == tx' = FALSE /\ UNCHANGED inviteOk

\* accepted(): the call is established, the transaction is not needed any more.
Accepted ==
    /\ inviteOk' = TRUE
    /\ tx' = FALSE

\* Accept returns after accepted(), and c.mu is released.  Without an error
\* acceptCall enables the media timeout and moves on to waitMedia.
AcceptReturns(noACK) ==
    /\ Accepted
    /\ mu' = "free"
    /\ \/ /\ noACK
          /\ HandlerCloses("no-ack", TRUE)
          /\ UNCHANGED mediaTimer
       \/ /\ ~noACK
          /\ pc' = "waitmedia"
          /\ watch' = ~WaitACK
          /\ mediaTimer' = TRUE
          /\ UNCHANGED <<try, pin, failed, closeVars>>

\* Mutant: a missing ACK is never an error.
RetriesForgiven == AcceptReturns(FALSE)

\* The loop is over without an ACK: an error if InboundWaitACK is set.
RetriesOver == AcceptReturns(WaitACK)

\* Mutant: c.mu is not released on the error path.
AcceptFailsLocked == HandlerCloses("accept-failed", TRUE) /\ UNCHANGED mu

\* Respond failed: Accept returns its error, the deferred unlock runs.
AcceptFails ==
    /\ mu' = "free"
    /\ HandlerCloses("accept-failed", TRUE)

\* One turn of Accept's loop: send the 200; on an error return at once.
AcceptSend ==
    /\ pc = "send"
    /\ \/ /\ resp' = "200"
          /\ \/ /\ Reliable /\ ~WaitACK
                /\ AcceptReturns(FALSE)
             \/ /\ ~Reliable \/ WaitACK
                /\ Goto("ackwait")
                /\ UNCHANGED <<tx, inviteOk, mu, mediaTimer>>
       \/ /\ try = 1 \/ RetransmitMayFail
          /\ AcceptFails
          /\ UNCHANGED <<tx, inviteOk, resp, mediaTimer>>
    /\ UNCHANGED <<invite, ringing, eventVars, ringer, byesSent, callVars, regVars,
                   roomVars, port, infoVars, bye>>

\* The wait of that loop: an ACK on either channel ends it, the timer sends
\* the 200 again until try > maxRetries.
AcceptWait ==
    /\ pc = "ackwait"
    /\ \/ /\ acked \/ txAck
          /\ AcceptReturns(FALSE)
       \/ /\ try > MaxRetries
          /\ RetriesOver
       \/ /\ try <= MaxRetries
          /\ pc' = "send"
          /\ try' = try + 1
          /\ UNCHANGED <<pin, watch, failed, closeVars, tx, inviteOk, mu, mediaTimer>>
    /\ UNCHANGED <<invite, ringing, eventVars, ringer, wireVars, callVars, regVars,
                   roomVars, port, infoVars, bye>>

-----------------------------------------------------------------------------
(* The handler's select statements *)

\* mediaTimeout(): the reason depends on whether the dialog's ACK was seen.
MediaTimeoutCloses ==
    /\ mediaTimer
    /\ \/ /\ acked
          /\ HandlerCloses("media-timeout", FALSE)
          /\ infoErr' = TRUE
       \/ /\ ~acked
          /\ HandlerCloses("no-ack", TRUE)
          /\ UNCHANGED infoErr
    /\ UNCHANGED status

\* The cases waitMedia, waitSubscribe and pinPrompt have in common.
HangupCases ==
    \/ /\ cancelled
       /\ HandlerCloses("cancelled", FALSE)
       /\ ReasonRecorded
    \/ /\ ctxDone \/ deadline
       /\ HandlerCloses("hangup", FALSE)
       /\ ReasonRecorded
    \/ MediaTimeoutCloses

\* lkRoom.Closed(): the room went away while the call is being set up.
RoomClosedCase ==
    /\ roomStopped
    /\ HandlerCloses("hangup", TRUE)
    /\ ReasonRecorded

\* What a select of the handler leaves alone.
SelectUnchanged ==
    UNCHANGED <<dialogVars, eventVars, mu, ringer, wireVars, callVars, regVars,
                roomVars, mediaVars, bye>>

\* waitMedia: a first packet or audioBridgeMaxDelay bridges the audio.
WaitMedia ==
    /\ pc = "waitmedia"
    /\ \/ HangupCases
       \/ RoomClosedCase
       \/ /\ Goto(IF pin THEN "pin" ELSE "active")
          /\ UNCHANGED infoVars
    /\ SelectUnchanged

\* pinPrompt: no timer of its own.  The dispatch of a complete pin accepts,
\* is unavailable or rejects; a pin longer than pinLimit is rejected as well.
PinPrompt ==
    /\ pc = "pin"
    /\ \/ HangupCases
       \/ /\ \/ HandlerCloses("dispatch-error", TRUE)
             \/ HandlerCloses("wrong-pin", TRUE)
             \/ Goto("join")
          /\ UNCHANGED infoVars
    /\ SelectUnchanged

\* joinRoom / createLiveKitParticipant up to the transfer topic.
JoinRoom ==
    /\ pc = "join"
    /\ \/ /\ ~ctxDone /\ ~deadline
          /\ xferTopic' = TRUE
          /\ Goto("connect")
       \/ /\ HandlerCloses("participant-failed", TRUE)
          /\ UNCHANGED xferTopic
    /\ UNCHANGED <<dialogVars, eventVars, mu, ringer, wireVars, callVars, registered,
                   roomVars, mediaVars, infoVars, bye>>

ConnectFails == HandlerCloses("participant-failed", TRUE)

\* Room.Connect: it does not look at the closed fuse.
ConnectRoom ==
    /\ pc = "connect"
    /\ \/ /\ roomConn' = TRUE
          /\ Goto("publish")
       \/ /\ ConnectFails
          /\ UNCHANGED roomConn
    /\ UNCHANGED <<dialogVars, eventVars, mu, ringer, wireVars, callVars, regVars,
                   roomClosed, roomStopped, mediaVars, infoVars, bye>>

\* Room.CloseWithReason: closed.Once disconnects the room it finds.
CloseRoomOnce ==
    /\ roomClosed' = TRUE
    /\ roomConn' = (roomConn /\ roomClosed)
    /\ UNCHANGED roomStopped

\* registerSignalingRPC, publishTrack and Subscribe: all use r.room, which
\* CloseWithReason sets to nil.
PublishTrack ==
    /\ pc = "publish"
    /\ \/ /\ ~roomConn
          /\ Goto("crashed")
          /\ UNCHANGED roomVars
       \/ /\ roomConn
          /\ \/ /\ \/ Goto(IF pin THEN "active" ELSE "waitsub")
                   \/ HandlerCloses("participant-failed", TRUE)
                /\ UNCHANGED roomVars
             \/ /\ HandlerCloses("publish-failed", TRUE)
                /\ CloseRoomOnce
    /\ UNCHANGED <<dialogVars, eventVars, mu, ringer, wireVars, callVars, regVars,
                   mediaVars, infoVars, bye>>

\* lkRoom.Subscribed(): somebody is there, so answer.
Subscribed == roomConn /\ Goto("accept")

\* waitSubscribe: keep ringing until a track is subscribed or RingingTimeout.
WaitSubscribe ==
    /\ pc = "waitsub"
    /\ \/ HangupCases
       \/ RoomClosedCase
       \/ /\ \/ HandlerCloses("cannot-subscribe", TRUE)
             \/ Subscribed
          /\ UNCHANGED infoVars
    /\ SelectUnchanged

\* The CallState update to SCS_ACTIVE, and started.Break.
BecomeActive ==
    /\ pc = "active"
    /\ status' = "ACTIVE"
    /\ Goto("waitend")
    /\ UNCHANGED infoErr
    /\ SelectUnchanged

\* waitForCallEnd: it does not watch Cancelled().
WaitForCallEnd ==
    /\ pc = "waitend"
    /\ \/ /\ ctxDone \/ deadline
          /\ HandlerCloses("hangup", FALSE)
          /\ ReasonRecorded
       \/ /\ roomStopped
          /\ HandlerCloses("room-closed", FALSE)
          /\ UNCHANGED infoVars
       \/ MediaTimeoutCloses
       \/ /\ watch /\ acked
          /\ watch' = FALSE
          /\ UNCHANGED <<pc, try, pin, failed, closeVars, infoVars>>
    /\ SelectUnchanged

\* The return of handleInvite: its deferred close("other") does nothing if
\* done is set, then processInvite's deferred update finalizes the CallState.
HandlerReturn ==
    /\ pc = "return"
    /\ \/ /\ done
          /\ Goto("ended")
          /\ status' = IF failed /\ ~infoErr THEN "ERROR" ELSE "DISCONNECTED"
          /\ infoErr' = (infoErr \/ failed)
       \/ /\ ~done
          /\ HandlerCloses("other", failed)
          /\ UNCHANGED infoVars
    /\ SelectUnchanged

-----------------------------------------------------------------------------
(* close(), run by the handler or by Shutdown *)

CloseGoto(t, s) ==
    /\ cl' = [cl EXCEPT ![t] = s]
    /\ UNCHANGED <<handlerVars, why, eventVars, ringer, deadline, roomStopped,
                   mediaTimer, infoVars, bye>>

\* Mutant: done is not tested.
NeverClosed == FALSE

AlreadyClosed == done

\* done.CompareAndSwap: the loser returns; the winner emits CallTerminate.
CloseCAS(t) ==
    /\ cl[t] = "cas"
    /\ \/ /\ AlreadyClosed
          /\ CloseGoto(t, "done")
          /\ UNCHANGED <<done, emits, term>>
       \/ /\ ~AlreadyClosed
          /\ done' = TRUE
          /\ emits' = emits + 1
          /\ term' = why[t]
          /\ CloseGoto(t, "signal")
    /\ UNCHANGED <<dialogVars, mu, wireVars, ctxDone, regVars, roomConn, roomClosed, port>>

Established == inviteOk

\* CloseWithStatus: BYE if established (and c.mu is kept until it is
\* answered), an error response if the INVITE is pending, else drop().
CloseWithStatus(t) ==
    /\ cl[t] = "signal"
    /\ mu = "free"
    /\ Drop
    /\ \/ /\ Established
          /\ byesSent' = byesSent + 1
          /\ mu' = t
          /\ CloseGoto(t, "byewait")
          /\ UNCHANGED resp
       \/ /\ ~Established
          /\ Respond("fail")
          /\ CloseGoto(t, "room")
          /\ UNCHANGED <<mu, byesSent>>
    /\ UNCHANGED <<done, emits, term, ctxDone, regVars, roomConn, roomClosed, port>>

\* sendAndACK returns: an answer, or the end of the client transaction.
ByeAnswered(t) ==
    /\ cl[t] = "byewait"
    /\ mu' = "free"
    /\ CloseGoto(t, "room")
    /\ UNCHANGED <<dialogVars, wireVars, done, emits, term, ctxDone, regVars, roomConn,
                   roomClosed, port>>

\* closeMedia, first lkRoom.Close() ...
CloseRoom(t) ==
    /\ cl[t] = "room"
    /\ CloseRoomOnce
    /\ CloseGoto(t, "media")
    /\ UNCHANGED <<dialogVars, mu, wireVars, done, emits, term, ctxDone, regVars, port>>

\* ... then the media port, if there is one yet.
CloseMediaPort(t) ==
    /\ cl[t] = "media"
    /\ port' = IF port = "open" THEN "closed" ELSE port
    /\ CloseGoto(t, "registry")
    /\ UNCHANGED <<dialogVars, mu, wireVars, done, emits, term, ctxDone, regVars, roomConn,
                   roomClosed>>

\* Mutant: the transfer topic is forgotten.
DeregisterTag == registered' = FALSE /\ UNCHANGED xferTopic

Deregister ==
    /\ registered' = FALSE
    /\ xferTopic' = FALSE

\* The byLocalTag entry and the transfer topic.
CloseRegistry(t) ==
    /\ cl[t] = "registry"
    /\ Deregister
    /\ CloseGoto(t, "cancel")
    /\ UNCHANGED <<dialogVars, mu, wireVars, done, emits, term, ctxDone, roomConn,
                   roomClosed, port>>

\* OnSessionEnd is started, and c.cancel() cancels the call's context.
CloseCancel(t) ==
    /\ cl[t] = "cancel"
    /\ ctxDone' = TRUE
    /\ CloseGoto(t, "done")
    /\ UNCHANGED <<dialogVars, mu, wireVars, done, emits, term, regVars, roomConn,
                   roomClosed, port>>

\* The handler's close() has returned.
HandlerClosed ==
    /\ pc = "closing"
    /\ cl["handler"] = "done"
    /\ Goto("return")
    /\ UNCHANGED infoVars
    /\ SelectUnchanged

Close(t) ==
    \/ CloseCAS(t) \/ CloseWithStatus(t) \/ ByeAnswered(t) \/ CloseRoom(t)
    \/ CloseMediaPort(t) \/ CloseRegistry(t) \/ CloseCancel(t)

\* Server.Stop replaces byLocalTag, then calls Shutdown on the calls it held.
ServerStop ==
    /\ Shutdown
    /\ cl["stop"] = "idle"
    /\ registered
    /\ registered' = FALSE
    /\ why' = [why EXCEPT !["stop"] = "shutdown"]
    /\ cl' = [cl EXCEPT !["stop"] = "cas"]
    /\ UNCHANGED <<dialogVars, eventVars, mu, ringer, wireVars, handlerVars, callVars,
                   xferTopic, roomVars, mediaVars, infoVars, bye>>

-----------------------------------------------------------------------------
(* The ringing goroutine *)

\* What neither the ringing goroutine nor the arrival of an ACK changes.
CallUnchanged ==
    UNCHANGED <<dialogVars, mu, byesSent, handlerVars, closeVars, callVars, regVars,
                roomVars, mediaVars, infoVars, bye>>

\* stop is closed.
RingerStops ==
    /\ ringer = "loop"
    /\ ~ringing
    /\ ringer' = "done"
    /\ CallUnchanged
    /\ UNCHANGED <<eventVars, resp>>

\* A CANCEL on the INVITE transaction: close(c.cancelled).
RingerCancel ==
    /\ ringer = "loop"
    /\ cancelled' = TRUE
    /\ ringer' = "done"
    /\ CallUnchanged
    /\ UNCHANGED <<acked, txAck, resp>>

\* The ticker wins the select, possibly with stop closed already ...
RingerTick ==
    /\ ringer = "loop"
    /\ ringer' = "tick"
    /\ CallUnchanged
    /\ UNCHANGED <<eventVars, resp>>

\* ... and the 180 is sent once c.mu is free.
RingerSend ==
    /\ ringer = "tick"
    /\ mu = "free"
    /\ Respond("180")
    /\ ringer' = "loop"
    /\ CallUnchanged
    /\ UNCHANGED eventVars

-----------------------------------------------------------------------------
(* Requests of the caller, and the rest of the environment *)

\* onAck finds the call and breaks the acked fuse.
AckArrives ==
    /\ resp = "200"
    /\ registered
    /\ ~acked
    /\ acked' = TRUE
    /\ CallUnchanged
    /\ UNCHANGED <<cancelled, txAck, ringer, resp>>

\* An ACK that the transaction layer matches to the INVITE transaction goes to
\* Acks() instead; nothing else sees it.
TxAckArrives ==
    /\ resp = "200"
    /\ tx
    /\ ~txAck
    /\ txAck' = TRUE
    /\ CallUnchanged
    /\ UNCHANGED <<cancelled, acked, ringer, resp>>

\* What the events below leave alone.
LegUnchanged ==
    UNCHANGED <<eventVars, mu, ringer, wireVars, handlerVars, closeVars, regVars,
                mediaVars, infoVars>>

\* onBye looks the call up.  The caller sends BYE once it has a dialog, that
\* is after a response other than 100.
ByeArrives(b) ==
    /\ bye[b] = "unsent"
    /\ resp \in {"180", "200"}
    /\ bye' = [bye EXCEPT ![b] = IF registered THEN "drop" ELSE "unknown"]
    /\ LegUnchanged
    /\ UNCHANGED <<dialogVars, callVars, roomVars>>

\* AcceptBye: the 200 for the BYE is out, drop() waits for c.mu.
AcceptBye(b) ==
    /\ bye[b] = "drop"
    /\ mu = "free"
    /\ Drop
    /\ bye' = [bye EXCEPT ![b] = "cancel"]
    /\ LegUnchanged
    /\ UNCHANGED <<callVars, roomVars>>

\* Mutant: the BYE is answered, but the call's context is not cancelled.
ByeOnlyAnswered(b) ==
    /\ bye[b] = "cancel"
    /\ bye' = [bye EXCEPT ![b] = "done"]
    /\ LegUnchanged
    /\ UNCHANGED <<dialogVars, callVars, roomVars>>

\* Bye(reason) -> Close(): cancel the call's context.
ByeCancels(b) ==
    /\ bye[b] = "cancel"
    /\ ctxDone' = TRUE
    /\ bye' = [bye EXCEPT ![b] = "done"]
    /\ LegUnchanged
    /\ UNCHANGED <<dialogVars, done, deadline, emits, term, roomVars>>

\* transferCall succeeded: referByeTimeout later it calls Close() as well.
TransferHangup ==
    /\ resp = "200"
    /\ xferTopic
    /\ ~ctxDone
    /\ ctxDone' = TRUE
    /\ LegUnchanged
    /\ UNCHANGED <<dialogVars, done, deadline, emits, term, roomVars, bye>>

\* MaxCallDuration runs from just before joinRoom.
MaxDuration ==
    /\ \/ pc \in {"join", "connect", "publish", "waitsub", "active", "waitend"}
       \/ ~pin /\ pc \in {"accept", "send", "ackwait", "waitmedia"}
    /\ ~deadline
    /\ deadline' = TRUE
    /\ LegUnchanged
    /\ UNCHANGED <<dialogVars, done, ctxDone, emits, term, roomVars, bye>>

\* The LiveKit room disconnects us: OnDisconnected breaks stopped.
RoomDisconnects ==
    /\ roomConn
    /\ ~roomStopped
    /\ roomStopped' = TRUE
    /\ LegUnchanged
    /\ UNCHANGED <<dialogVars, callVars, roomConn, roomClosed, bye>>

-----------------------------------------------------------------------------

\* The steps of the handler that need no event: it moves, a timer of its own
\* fires, or an external call returns.
Handler ==
    \/ StartRinging \/ Dispatch \/ RunMedia \/ AcceptBegin \/ AcceptSend \/ AcceptWait
    \/ WaitMedia \/ JoinRoom \/ ConnectRoom \/ PublishTrack \/ WaitSubscribe
    \/ BecomeActive \/ HandlerClosed \/ HandlerReturn

Ringer == RingerStops \/ RingerTick \/ RingerSend \/ RingerCancel

OnBye(b) == AcceptBye(b) \/ ByeCancels(b)

Next ==
    \/ Handler \/ PinPrompt \/ WaitForCallEnd
    \/ \E t \in Closers : Close(t)
    \/ ServerStop
    \/ Ringer
    \/ AckArrives \/ TxAckArrives
    \/ \E b \in Byes : ByeArrives(b) \/ OnBye(b)
    \/ TransferHangup \/ MaxDuration \/ RoomDisconnects

\* What the Go scheduler, the timers and the external calls guarantee: a
\* thread that can move does, and the two selects without a timer of their
\* own react once their context is done.  Weak fairness is enough for the
\* waits on c.mu, which is held over steps at most twice per call.
Fairness ==
    /\ WF_vars(Handler)
    /\ WF_vars((ctxDone \/ deadline) /\ (PinPrompt \/ WaitForCallEnd))
    /\ \A t \in Closers : WF_vars(Close(t))
    /\ \A b \in Byes : WF_vars(OnBye(b))

Spec == Init /\ [][Next]_vars /\ Fairness

-----------------------------------------------------------------------------
(* Properties *)

\* The handler has returned and no close() is under way.
Over ==
    /\ pc = "ended"
    /\ \A t \in Closers : cl[t] \in {"idle", "done"}

\* The caller hung up, and onBye found the call and dropped its dialog.
CallerHungUp == \E b \in Byes : bye[b] \in {"cancel", "done"}

\* Shutdown's comment: close() is idempotent via c.done, so the handler and
\* Server.Stop together emit CallTerminate once, and never after a return
\* without it.
EmittedOnce ==
    /\ emits = IF done THEN 1 ELSE 0
    /\ pc = "ended" => done /\ term # "none"

\* Some onBye has answered the caller's BYE and waits for c.mu.
ByeAccepted == \E b \in Byes : bye[b] = "drop"

Leg == INSTANCE CallLeg WITH
    answer <- resp, byeOut <- byesSent, closing <- FALSE,
    byeIn <- IF CallerHungUp THEN "dropped" ELSE IF ByeAccepted THEN "accepted" ELSE "none"

\* The signalling the caller sees is that of a legal call leg (CallLeg), with
\* the handler, the ringing goroutine, onBye and Server.Stop all writing to it:
\* one final response, one BYE and only after a 200; an answer or a BYE of ours
\* may cross the caller's BYE, and silence follows once that drops the dialog.
ImplementsCallLeg == Leg!Spec

\* The INVITE transaction gets one final response: after a 200 or a failure no
\* 180 of the ringing goroutine, no second status of another thread's close().
FinalIsFinal == [][(resp \in Final) => UNCHANGED resp]_vars

\* We send BYE at most once, only for a call we answered with 200, and not
\* when the caller's BYE has been accepted before.
ByeLegal ==
    /\ byesSent <= 1
    /\ byesSent = 1 => resp = "200"

NoByeAfterBye == [][byesSent' > byesSent => ~CallerHungUp]_vars

\* The dispatch decided to drop the call without an answer.
DroppedAsFlood == why["handler"] = "flood"

\* However the call ends, a caller that saw 200 OK is told: we sent BYE, or it
\* hung up itself; and a caller that was not dropped on purpose got an answer.
CallerIsTold ==
    Over => /\ resp = "200" => byesSent = 1 \/ CallerHungUp
            /\ resp \in Final \/ CallerHungUp \/ DroppedAsFlood

\* When the call is over it holds nothing: no port, no room connection, no
\* byLocalTag entry, no transfer topic, no ringing goroutine to wake up for it.
Released ==
    Over => /\ port # "open" /\ ~roomConn
            /\ ~registered /\ ~xferTopic
            /\ ~ringing

\* The handler dereferences neither a dropped INVITE transaction nor a closed
\* LiveKit room.  With Shutdown it does (README, Known deviations).
NoNilDeref == pc # "crashed"

\* With InboundWaitACK a call is ACTIVE only after an ACK on either channel.
ActiveIsAcked == WaitACK /\ status = "ACTIVE" => acked \/ txAck

\* Accept's comment: once the other side likely thinks the call is accepted,
\* our state follows - outside Accept, a 200 on the wire leaves no pending INVITE.
\* With RetransmitMayFail it does (README, Known deviations).
OkMeansAccepted ==
    resp = "200" /\ pc \notin {"send", "ackwait"} => ~tx

\* A BYE that finds the call ends it: the handler returns.
ByeEndsCall == \A b \in Byes : bye[b] = "drop" ~> pc = "ended"

\* Ringing does not last: waitSubscribe's timer, an answer or an end.
RingingEnds == ringing ~> ~ringing

\* StartRinging's comment on CANCEL: other goroutines will respond to the
\* primary INVITE (unless the call is dropped as flood, or ended by BYE).
CancelAnswered ==
    cancelled ~> resp \in Final \/ CallerHungUp \/ DroppedAsFlood

\* Shutdown does not hang on a call: neither on c.mu nor on a BYE.
StopReturns == cl["stop"] # "idle" ~> cl["stop"] = "done"
=============================================================================
