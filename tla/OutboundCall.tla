---------------------------- MODULE OutboundCall ----------------------------
(***************************************************************************)
(* One outbound call (pkg/sip/outbound.go) and the Client that creates it  *)
(* (pkg/sip/client.go), from createSIPParticipant until nothing of the     *)
(* call runs any more.                                                     *)
(*                                                                         *)
(* Threads: the creator (createSIPParticipant), the dialer (Dial and       *)
(* waitClose, in the creator's goroutine or in one of its own), one onBye  *)
(* per BYE request, the timer that hangs up after a transfer, and          *)
(* Client.Stop.  All of them close the call; close() runs under the call's *)
(* mutex c.mu, which connectSIP holds for as long as it dials.             *)
(*                                                                         *)
(* The dialog's mutex cc.mu needs no variable: it is held over steps by    *)
(* Invite and by sendBye (CcLocked), and both run under c.mu.  Invite sets *)
(* invite and inviteOk together, so one variable stands for both.          *)
(***************************************************************************)
EXTENDS Naturals

CONSTANTS
    Byes,       \* the BYE requests the callee may send
    MaxTries,   \* how many INVITEs Invite sends at most (5)
    Shutdown,   \* Client.Stop may run
    StopRaces,  \* ... also before the dialer has taken c.mu, or during sendRefer
    PortsRunOut \* NewMediaPort may fail

ASSUME TriesAssumption == MaxTries \in Nat \ {0}
ASSUME FlagsAssumption == {Shutdown, StopRaces, PortsRunOut} \subseteq BOOLEAN
ASSUME ByesAssumption == Byes \cap {"create", "dial", "hangup", "stop", "free"} = {}

VARIABLES
    (* threads *)
    create,     \* the creator
    sync,       \* req.WaitUntilAnswered
    dial,       \* the dialer
    try,        \* try in Invite
    result,     \* what Dial returned
    cl,         \* how far each thread is in closing the call
    why,        \* the error it passes to close() is not nil
    mu,         \* the holder of c.mu
    crashed,    \* some goroutine dereferenced nil
    (* Client *)
    closing,    \* Client.closing is broken
    sipCli,     \* sipCli # nil
    registered, \* the call is in activeCalls
    (* outboundCall and sipOutbound *)
    stopped,    \* the stopped fuse is broken
    dialog,     \* invite # nil /\ inviteOk # nil
    port,       \* the media port
    roomConn,   \* the room is connected, r.room # nil
    roomGone,   \* the room has disconnected us: its stopped fuse is broken
    topic,      \* the transfer topic is registered
    (* CallState *)
    record,     \* CallStatus
    recErr,     \* Error # ""
    (* the wire *)
    callee,     \* how far the callee is with our INVITE
    hungUp,     \* its BYE was accepted: history
    byes        \* how many BYEs we sent: history

threadVars == <<create, sync, dial, try, result>>
closeVars == <<cl, why, mu>>
clientVars == <<closing, sipCli, registered>>
heldVars == <<port, roomConn, topic>>
recVars == <<record, recErr>>
wireVars == <<callee, hungUp, byes>>
vars == <<threadVars, closeVars, crashed, clientVars, stopped, dialog, heldVars, roomGone,
          recVars, wireVars>>

-----------------------------------------------------------------------------

Closers == {"create", "dial", "hangup", "stop"} \cup Byes

\* "lock" waits for c.mu; from "sip" to "registry" the thread is in close().
\* A BYE is first answered ("accept") and drops the dialog ("drop"), the timer
\* needs a transfer ("refer", "notify"); Stop takes the calls ("take") and
\* drops the SIP client at the end ("client").
CloseStep == {"idle", "accept", "drop", "refer", "notify", "take", "lock", "sip", "byewait",
              "media", "room", "registry", "client", "done"}

\* The callee has no INVITE of ours to answer, has one, has refused it (or
\* asked for credentials), has sent a 200, or we have read its 200.
CalleeStep == {"idle", "invited", "refuses", "answers", "connected"}

TypeOK ==
    /\ create \in {"media", "room", "register", "start", "dial", "closing", "update", "returned"}
    /\ dial \in {"none", "lock", "offer", "invite", "response", "answer", "malformed", "hangup",
                 "ack", "dtmf", "failed", "active", "wait", "closing", "timeout", "ensure", "done"}
    /\ try \in 0..MaxTries
    /\ result \in {"none", "ok", "error"}
    /\ cl \in [Closers -> CloseStep]
    /\ why \in [Closers -> BOOLEAN]
    /\ mu \in Closers \cup {"free"}
    /\ port \in {"none", "open", "closed"}
    /\ record \in {"NEW", "JOINED", "ACTIVE", "ERROR", "DISCONNECTED"}
    /\ {sync, crashed, closing, sipCli, registered, stopped, dialog, roomConn, roomGone, topic,
        recErr, hungUp} \subseteq BOOLEAN
    /\ callee \in CalleeStep
    /\ byes \in 0..2

\* createSIPParticipant has checked the request and created the CallState.
Init ==
    /\ create = "media" /\ sync \in BOOLEAN
    /\ dial = "none" /\ try = 0 /\ result = "none"
    /\ cl = [t \in Closers |-> "idle"] /\ why = [t \in Closers |-> FALSE]
    /\ mu = "free" /\ crashed = FALSE
    /\ closing = FALSE /\ sipCli = TRUE /\ registered = FALSE
    /\ stopped = FALSE /\ dialog = FALSE
    /\ port = "none" /\ roomConn = FALSE /\ roomGone = FALSE /\ topic = FALSE
    /\ record = "NEW" /\ recErr = FALSE
    /\ callee = "idle" /\ hungUp = FALSE /\ byes = 0

CcLocked == dial \in {"invite", "response", "hangup"} \/ \E t \in Closers : cl[t] = "byewait"

-----------------------------------------------------------------------------
(* createSIPParticipant and newCall *)

\* A failure of NewMediaPort runs close() with a nil media port.
NewMediaPort ==
    /\ create = "media"
    /\ \E ok \in (IF PortsRunOut THEN BOOLEAN ELSE {TRUE}) :
          IF ok THEN create' = "room" /\ port' = "open" /\ UNCHANGED crashed
                ELSE crashed' = TRUE /\ UNCHANGED <<create, port>>
    /\ UNCHANGED <<sync, dial, try, result, closeVars, clientVars, stopped, dialog, roomConn,
                   topic, roomGone, recVars, wireVars>>

\* connectToRoom: the topic is registered first; Connect or
\* NewParticipantTrack may fail (the room is closed at once), or
\* registerSignalingRPC (close() will close it).
ConnectToRoom ==
    /\ create = "room"
    /\ topic' = TRUE
    /\ \/ /\ create' = "register"
          /\ roomConn' = TRUE
          /\ UNCHANGED <<cl, why>>
       \/ /\ create' = "closing"
          /\ roomConn' \in BOOLEAN
          /\ cl' = [cl EXCEPT !["create"] = "sip"]
          /\ why' = [why EXCEPT !["create"] = TRUE]
    /\ UNCHANGED <<sync, dial, try, result, mu, crashed, clientVars, stopped, dialog, port,
                   roomGone, recVars, wireVars>>

\* newCall fails: its error is that of createSIPParticipant.
NewCallFails ==
    /\ create = "closing"
    /\ cl["create"] = "done"
    /\ create' = "update"
    /\ result' = "error"
    /\ UNCHANGED <<sync, dial, try, closeVars, crashed, clientVars, stopped, dialog, heldVars,
                   roomGone, recVars, wireVars>>

Register ==
    /\ create = "register"
    /\ create' = "start"
    /\ registered' = TRUE
    /\ UNCHANGED <<sync, dial, try, result, closeVars, crashed, closing, sipCli, stopped, dialog,
                   heldVars, roomGone, recVars, wireVars>>

\* DialAsync, or Dial in this goroutine.
StartDial ==
    /\ create = "start"
    /\ dial' = "lock"
    /\ create' = IF sync THEN "dial" ELSE "update"
    /\ UNCHANGED <<sync, try, result, closeVars, crashed, clientVars, stopped, dialog, heldVars,
                   roomGone, recVars, wireVars>>

\* WaitUntilAnswered: Dial has returned, and waitClose runs if it succeeded.
DialReturns ==
    /\ create = "dial"
    /\ result = "ok" \/ dial = "done"
    /\ create' = "update"
    /\ UNCHANGED <<sync, dial, try, result, closeVars, crashed, clientVars, stopped, dialog,
                   heldVars, roomGone, recVars, wireVars>>

\* The deferred update of createSIPParticipant.
DeferredUpdate ==
    /\ create = "update"
    /\ create' = "returned"
    /\ IF result = "error" /\ (sync \/ dial = "none")
       THEN record' = "ERROR" /\ recErr' = TRUE
       ELSE record' = "JOINED" /\ UNCHANGED recErr
    /\ UNCHANGED <<sync, dial, try, result, closeVars, crashed, clientVars, stopped, dialog,
                   heldVars, roomGone, wireVars>>

-----------------------------------------------------------------------------
(* Dial: connectSIP, dialSIP, sipSignal *)

DialUnchanged == UNCHANGED <<create, sync, closing, sipCli, registered, stopped, heldVars, roomGone>>

\* connectSIP takes c.mu; it does not ask whether the call was closed before.
ConnectSIP ==
    /\ dial = "lock"
    /\ mu = "free"
    /\ mu' = "dial"
    /\ dial' = "offer"
    /\ DialUnchanged
    /\ UNCHANGED <<try, result, cl, why, crashed, dialog, recVars, wireVars>>

\* sipSignal: the offer; Invite then takes cc.mu, unless there is no offer.
NewOffer ==
    /\ dial = "offer"
    /\ dial' \in {"invite", "failed"}
    /\ DialUnchanged
    /\ UNCHANGED <<try, result, closeVars, crashed, dialog, recVars, wireVars>>

Spent == try >= MaxTries

\* One turn of the authentication loop: attemptInvite needs the SIP client,
\* and sends the INVITE unless TransactionRequest fails.
AttemptInvite ==
    /\ dial = "invite"
    /\ \/ /\ Spent
          /\ dial' = "failed"
          /\ UNCHANGED <<try, callee, crashed>>
       \/ /\ ~Spent /\ sipCli
          /\ \/ dial' = "response" /\ try' = try + 1 /\ callee' = "invited"
             \/ dial' = "failed" /\ UNCHANGED <<try, callee>>
          /\ UNCHANGED crashed
       \/ /\ ~Spent /\ ~sipCli
          /\ crashed' = TRUE
          /\ UNCHANGED <<dial, try, callee>>
    /\ DialUnchanged
    /\ UNCHANGED <<result, closeVars, dialog, recVars, hungUp, byes>>

\* The callee sends its final response, also to an INVITE that we have given
\* up: CANCEL and 200 cross.
CalleeResponds ==
    /\ callee = "invited"
    /\ callee' \in {"refuses", "answers"}
    /\ DialUnchanged
    /\ UNCHANGED <<dial, try, result, closeVars, crashed, dialog, recVars, hungUp, byes>>

\* sipResponse reads it: a challenge leads to another turn, a rejection fails,
\* a 200 sets the dialog (and is an error without a To tag).
SipResponse ==
    /\ dial = "response"
    /\ \/ /\ callee = "refuses"
          /\ dial' \in {"invite", "failed"}
          /\ UNCHANGED <<dialog, callee>>
       \/ /\ callee = "answers"
          /\ dial' \in {"answer", "malformed"}
          /\ dialog' = TRUE
          /\ callee' = "connected"
    /\ DialUnchanged
    /\ UNCHANGED <<try, result, closeVars, crashed, recVars, hungUp, byes>>

\* sipResponse gives up: the ringing timeout, the end of the room, of the
\* client or of the transaction, whether or not a response is there to read.
GiveUp ==
    /\ dial = "response"
    /\ dial' = "failed"
    /\ DialUnchanged
    /\ UNCHANGED <<try, result, closeVars, crashed, dialog, recVars, wireVars>>

\* Invite failed with a dialog: sipSignal's own cc.Close sends a BYE for it
\* (and keeps it while the client is closing), unless a BYE has been accepted.
MalformedAnswer ==
    /\ dial = "malformed"
    /\ dial' = IF dialog /\ ~closing THEN "hangup" ELSE "failed"
    /\ byes' = IF dialog THEN byes + 1 ELSE byes
    /\ dialog' = (dialog /\ closing)
    /\ DialUnchanged
    /\ UNCHANGED <<try, result, closeVars, crashed, recVars, callee, hungUp>>

\* That BYE is answered, or its transaction ends.
MalformedEnds ==
    /\ dial = "hangup"
    /\ dial' = "failed"
    /\ DialUnchanged
    /\ UNCHANGED <<try, result, closeVars, crashed, dialog, recVars, wireVars>>

\* SetAnswer and SetConfig.
SetAnswer ==
    /\ dial = "answer"
    /\ dial' \in {"ack", "failed"}
    /\ DialUnchanged
    /\ UNCHANGED <<try, result, closeVars, crashed, dialog, recVars, wireVars>>

\* AckInviteOK fails when a BYE was accepted in the meantime.
AckInviteOK ==
    /\ dial = "ack"
    /\ ~CcLocked
    /\ \/ dialog /\ dial' = "dtmf"
       \/ dial' = "failed"
    /\ DialUnchanged
    /\ UNCHANGED <<try, result, closeVars, crashed, dialog, recVars, wireVars>>

\* WriteDTMF; then connectMedia, started and Subscribe, and c.mu is released.
WriteDTMF ==
    /\ dial = "dtmf"
    /\ \/ dial' = "active" /\ mu' = "free"
       \/ dial' = "failed" /\ UNCHANGED mu
    /\ DialUnchanged
    /\ UNCHANGED <<try, result, cl, why, crashed, dialog, recVars, wireVars>>

\* classifyInviteError: a failure of ours is reported as an error, a rejection
\* or an absence of the callee is not.
classifyInviteError == BOOLEAN

\* connectSIP closes the call itself.
DialFails ==
    /\ dial = "failed"
    /\ dial' = "closing"
    /\ result' = "error"
    /\ \E err \in classifyInviteError : why' = [why EXCEPT !["dial"] = err]
    /\ IF stopped
       THEN cl' = [cl EXCEPT !["dial"] = "done"] /\ mu' = "free"
       ELSE cl' = [cl EXCEPT !["dial"] = "sip"] /\ UNCHANGED mu
    /\ DialUnchanged
    /\ UNCHANGED <<try, crashed, dialog, recVars, wireVars>>

\* Dial's update, skipped when the room has been closed; then waitClose.
BecomeActive ==
    /\ dial = "active"
    /\ dial' = "wait"
    /\ result' = "ok"
    /\ record' = IF roomConn THEN "ACTIVE" ELSE record
    /\ DialUnchanged
    /\ UNCHANGED <<try, closeVars, crashed, dialog, recErr, wireVars>>

\* Mutant: waitClose does not watch the room.
RoomIgnored == FALSE

RoomWatched == roomGone

WaitUnchanged ==
    /\ DialUnchanged
    /\ UNCHANGED <<try, result, mu, crashed, dialog, recVars, wireVars>>

\* waitClose: the room ends or somebody closed the call, ...
WaitClose ==
    /\ dial = "wait"
    /\ \/ /\ RoomWatched
          /\ dial' = "closing"
          /\ cl' = [cl EXCEPT !["dial"] = "lock"]
       \/ /\ stopped
          /\ dial' = "ensure"
          /\ UNCHANGED cl
    /\ WaitUnchanged
    /\ UNCHANGED why

\* ... or the media time out.
MediaTimeout ==
    /\ dial = "wait"
    /\ dial' = "timeout"
    /\ cl' = [cl EXCEPT !["dial"] = "lock"]
    /\ why' = [why EXCEPT !["dial"] = TRUE]
    /\ WaitUnchanged

\* close() has returned; setErrStatus after a media timeout.
DialClosed ==
    /\ dial \in {"closing", "timeout"}
    /\ cl["dial"] = "done"
    /\ dial' = "ensure"
    /\ recErr' = (recErr \/ dial = "timeout")
    /\ record' = IF dial = "timeout" /\ ~recErr THEN "ERROR" ELSE record
    /\ DialUnchanged
    /\ UNCHANGED <<try, result, closeVars, crashed, dialog, wireVars>>

EnsureClosed ==
    /\ dial = "ensure"
    /\ dial' = "done"
    /\ record' = IF recErr THEN "ERROR" ELSE "DISCONNECTED"
    /\ DialUnchanged
    /\ UNCHANGED <<try, result, closeVars, crashed, dialog, recErr, wireVars>>

-----------------------------------------------------------------------------
(* close() *)

CallUnchanged == UNCHANGED <<threadVars, crashed, roomGone>>

\* Mutant: close() without c.mu.
Unlocked == TRUE

MayLock == mu = "free"

\* Close, CloseWithReason, closeWithTimeout: under c.mu, and once.
CloseLocks(t) ==
    /\ cl[t] = "lock"
    /\ MayLock
    /\ IF stopped
       THEN /\ cl' = [cl EXCEPT ![t] = IF t = "stop" THEN "client" ELSE "done"]
            /\ UNCHANGED mu
       ELSE /\ cl' = [cl EXCEPT ![t] = "sip"]
            /\ mu' = t
    /\ CallUnchanged
    /\ UNCHANGED <<why, clientVars, stopped, dialog, heldVars, recVars, wireVars>>

\* Mutant: the dialog is ended without a BYE.
DropsSilently == UNCHANGED byes

SendsBye == byes' = byes + 1

\* The update of the record, and sipOutbound.Close: BYE for an established
\* dialog.  While the client is closing sendBye neither drops the dialog nor
\* waits for an answer.
CloseSIP(t) ==
    /\ cl[t] = "sip"
    /\ recErr' = (recErr \/ why[t])
    /\ record' = IF why[t] /\ ~recErr THEN "ERROR" ELSE record
    /\ IF dialog
       THEN /\ SendsBye
            /\ dialog' = closing
            /\ cl' = [cl EXCEPT ![t] = IF closing THEN "media" ELSE "byewait"]
       ELSE /\ cl' = [cl EXCEPT ![t] = "media"]
            /\ UNCHANGED <<dialog, byes>>
    /\ CallUnchanged
    /\ UNCHANGED <<why, mu, clientVars, stopped, heldVars, callee, hungUp>>

\* sendAndACK: an answer or the end of the transaction.
ByeAnswered(t) ==
    /\ cl[t] = "byewait"
    /\ cl' = [cl EXCEPT ![t] = "media"]
    /\ CallUnchanged
    /\ UNCHANGED <<why, mu, clientVars, stopped, dialog, heldVars, recVars, wireVars>>

CloseMedia(t) ==
    /\ cl[t] = "media"
    /\ cl' = [cl EXCEPT ![t] = "room"]
    /\ port' = "closed"
    /\ CallUnchanged
    /\ UNCHANGED <<why, mu, clientVars, stopped, dialog, roomConn, topic, recVars, wireVars>>

CloseRoom(t) ==
    /\ cl[t] = "room"
    /\ cl' = [cl EXCEPT ![t] = "registry"]
    /\ roomConn' = FALSE
    /\ CallUnchanged
    /\ UNCHANGED <<why, mu, clientVars, stopped, dialog, port, topic, recVars, wireVars>>

\* Mutant: the transfer topic is forgotten.
TopicForgotten == registered' = FALSE /\ UNCHANGED topic

Deregister == registered' = FALSE /\ topic' = FALSE

\* Mutant: c.mu stays locked.
StaysLocked(t) == UNCHANGED mu

\* newCall closes its call without c.mu.
Unlock(t) == mu' = IF t = "create" THEN mu ELSE "free"

\* activeCalls and the topic; the fuse breaks, c.mu is released.
CloseRegistry(t) ==
    /\ cl[t] = "registry"
    /\ Deregister
    /\ stopped' = TRUE
    /\ Unlock(t)
    /\ cl' = [cl EXCEPT ![t] = IF t = "stop" THEN "client" ELSE "done"]
    /\ CallUnchanged
    /\ UNCHANGED <<why, closing, sipCli, dialog, port, roomConn, recVars, wireVars>>

Close(t) ==
    \/ CloseLocks(t) \/ CloseSIP(t) \/ ByeAnswered(t) \/ CloseMedia(t) \/ CloseRoom(t)
    \/ CloseRegistry(t)

-----------------------------------------------------------------------------
(* Those who close the call *)

OthersUnchanged == UNCHANGED <<threadVars, why, mu, stopped, heldVars, recVars>>

\* The callee has sent a 200, read or not.
Answered == callee \in {"answers", "connected"}

\* onBye finds the call; the callee can only send BYE after its 200.
ByeArrives(b) ==
    /\ cl[b] = "idle"
    /\ Answered
    /\ registered
    /\ cl' = [cl EXCEPT ![b] = "accept"]
    /\ OthersUnchanged
    /\ UNCHANGED <<clientVars, crashed, dialog, roomGone, wireVars>>

\* Mutant: the BYE is accepted and the call goes on.
ByeForgotten(b) == cl' = [cl EXCEPT ![b] = "done"]

ByeCloses(b) == cl' = [cl EXCEPT ![b] = "lock"]

\* Mutant: the dialog is kept.
KeepsDialog == UNCHANGED dialog

DropsDialog == dialog' = FALSE

\* AcceptBye answers the BYE with 200 before it takes cc.mu, ...
RespondBye(b) ==
    /\ cl[b] = "accept"
    /\ cl' = [cl EXCEPT ![b] = "drop"]
    /\ OthersUnchanged
    /\ UNCHANGED <<clientVars, crashed, dialog, roomGone, wireVars>>

\* ... then drops the dialog; CloseWithReason follows.
AcceptBye(b) ==
    /\ cl[b] = "drop"
    /\ ~CcLocked
    /\ DropsDialog
    /\ hungUp' = TRUE
    /\ ByeCloses(b)
    /\ OthersUnchanged
    /\ UNCHANGED <<clientVars, crashed, roomGone, callee, byes>>

\* transferCall for an established dialog of a client that is not closing: the
\* REFER is built under cc.mu ...
TransferCall ==
    /\ cl["hangup"] = "idle"
    /\ ~CcLocked
    /\ dialog
    /\ ~closing
    /\ cl' = [cl EXCEPT !["hangup"] = "refer"]
    /\ OthersUnchanged
    /\ UNCHANGED <<clientVars, crashed, dialog, roomGone, wireVars>>

\* ... and sent after its release.
SendRefer ==
    /\ cl["hangup"] = "refer"
    /\ IF sipCli THEN cl' = [cl EXCEPT !["hangup"] = "notify"] /\ UNCHANGED crashed
                 ELSE crashed' = TRUE /\ UNCHANGED cl
    /\ OthersUnchanged
    /\ UNCHANGED <<clientVars, dialog, roomGone, wireVars>>

\* The transfer fails, or succeeds and its timer fires; the wait for a NOTIFY
\* ends with the client or the request.
TransferHangup ==
    /\ cl["hangup"] = "notify"
    /\ \E next \in {"lock", "done"} : cl' = [cl EXCEPT !["hangup"] = next]
    /\ OthersUnchanged
    /\ UNCHANGED <<clientVars, crashed, dialog, roomGone, wireVars>>

\* Client.Stop: closing breaks first, ...
StopBegins ==
    /\ Shutdown
    /\ cl["stop"] = "idle"
    /\ StopRaces \/ dial \notin {"none", "lock"} \/ (create = "returned" /\ dial = "none")
    /\ cl' = [cl EXCEPT !["stop"] = "take"]
    /\ closing' = TRUE
    /\ OthersUnchanged
    /\ UNCHANGED <<sipCli, registered, crashed, dialog, roomGone, wireVars>>

\* ... then the calls are taken from activeCalls and closed, ...
StopTakes ==
    /\ cl["stop"] = "take"
    /\ cl' = [cl EXCEPT !["stop"] = IF registered THEN "lock" ELSE "client"]
    /\ registered' = FALSE
    /\ OthersUnchanged
    /\ UNCHANGED <<closing, sipCli, crashed, dialog, roomGone, wireVars>>

\* ... and the SIP client is dropped.
StopEnds ==
    /\ cl["stop"] = "client"
    /\ StopRaces \/ cl["hangup"] # "refer"
    /\ cl' = [cl EXCEPT !["stop"] = "done"]
    /\ sipCli' = FALSE
    /\ OthersUnchanged
    /\ UNCHANGED <<closing, registered, crashed, dialog, roomGone, wireVars>>

\* OnDisconnected.
RoomDisconnects ==
    /\ roomConn
    /\ ~roomGone
    /\ roomGone' = TRUE
    /\ OthersUnchanged
    /\ UNCHANGED <<cl, clientVars, crashed, dialog, wireVars>>

-----------------------------------------------------------------------------

Create ==
    \/ NewMediaPort \/ ConnectToRoom \/ NewCallFails \/ Register \/ StartDial \/ DialReturns
    \/ DeferredUpdate

Dial ==
    \/ ConnectSIP \/ NewOffer \/ AttemptInvite \/ SipResponse \/ GiveUp \/ MalformedAnswer
    \/ MalformedEnds \/ SetAnswer \/ AckInviteOK \/ WriteDTMF \/ DialFails \/ BecomeActive \/ WaitClose \/ DialClosed
    \/ EnsureClosed

Stop == StopTakes \/ StopEnds

Next ==
    /\ ~crashed
    /\ \/ Create \/ Dial \/ CalleeResponds \/ MediaTimeout
       \/ \E t \in Closers : Close(t)
       \/ \E b \in Byes : ByeArrives(b) \/ RespondBye(b) \/ AcceptBye(b)
       \/ TransferCall \/ SendRefer \/ TransferHangup \/ StopBegins \/ Stop \/ RoomDisconnects

\* Goroutines run; every wait of the dialer and for the answer to a BYE has a
\* timeout.  No media timeout is relied upon: callers talk for as long as they
\* like.  No lock needs to be fair: each is taken finitely often.
Fairness ==
    /\ WF_vars(Create) /\ WF_vars(Dial)
    /\ \A t \in Closers : WF_vars(Close(t))
    /\ \A b \in Byes : WF_vars(RespondBye(b) \/ AcceptBye(b))
    /\ WF_vars(Stop) /\ WF_vars(SendRefer)

Spec == Init /\ [][Next]_vars /\ Fairness

-----------------------------------------------------------------------------
(* Properties *)

\* Nothing of the call runs any more.
Over ==
    /\ create = "returned"
    /\ dial \in {"none", "done"}
    /\ \A t \in Closers : cl[t] \in {"idle", "done"}

\* Some onBye has answered the callee's BYE and waits for cc.mu.
ByeAccepted == \E b \in Byes : cl[b] = "drop"

Leg == INSTANCE CallLeg WITH
    answer <- IF Answered THEN "200" ELSE "none", byeOut <- byes,
    byeIn <- IF hungUp THEN "dropped" ELSE IF ByeAccepted THEN "accepted" ELSE "none"

\* The signalling the callee sees is that of a legal call leg (CallLeg),
\* although the dialer, onBye, a transfer's timer and Client.Stop all end it:
\* BYE only after a 200, a second one only while the client is closing; one may
\* cross the callee's own, and none follows once that has dropped the dialog.
ImplementsCallLeg == Leg!Spec

\* However the call ends - a failure after the 200, the room, a timeout, the
\* transfer, Stop - a callee that answered gets a BYE or has hung up.  The one
\* exception is a 200 that sipResponse never read because it gave up: that
\* callee gets neither ACK nor BYE, and the dial has failed (README, Known
\* deviations).
CalleeIsTold ==
    Over /\ Answered => \/ byes > 0 \/ hungUp
                        \/ callee = "answers" /\ result = "error" /\ ~dialog

\* A call that is over holds no port, room, registration or topic, and its
\* mutex is free.
Released ==
    Over => port # "open" /\ ~roomConn /\ ~registered /\ ~topic /\ mu = "free"

\* close(): "Send BYE before closing media/room connection", so that the
\* participant's attributes are there for the headers of BYE.
AttrsInBye == [][byes' > byes => roomConn /\ port = "open"]_vars

\* Whoever is about to use the SIP client - the dialer, sendBye, sendAndACK
\* once its BYE is answered - finds it: Stop drops it only after it has closed
\* every call.
NoNilDeref ==
    /\ ~crashed
    /\ dial \in {"invite", "response", "malformed", "hangup", "ack"} => sipCli
    /\ \A t \in Closers : (cl[t] = "sip" /\ dialog) \/ cl[t] = "byewait" => sipCli

\* A BYE of the callee ends the call, also one that comes while we are dialing.
ByeEndsCall == \A b \in Byes : cl[b] \in {"accept", "drop"} ~> dial = "done"

\* When the room is gone the call ends, in whatever state it is.
RoomEndsCall == roomGone ~> dial \in {"none", "done"}

\* Client.Stop returns although it waits for the mutex of a call that dials.
StopReturns == cl["stop"] = "take" ~> cl["stop"] = "done"

\* "connectSIP updates the error code on the callInfo", and ensureClosed sets
\* the final status: that of a call that is over says so.  It does not when the
\* deferred update of createSIPParticipant comes last (README, Known deviations).
EndRecorded == Over => record \in {"ERROR", "DISCONNECTED"}
=============================================================================
