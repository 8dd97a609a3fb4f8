------------------------- MODULE OutboundCallProofs -------------------------
(***************************************************************************)
(* Theorems about OutboundCall, for every set of BYE requests and every    *)
(* number of INVITEs.  What the callee sees holds under every combination  *)
(* of the flags, and so does what it releases; the rest needs Client.Stop  *)
(* not to come before the dialer has taken c.mu (StopRaces), which TLC     *)
(* shows to be a real exception.                                           *)
(***************************************************************************)
EXTENDS OutboundCall, TLAPS

-----------------------------------------------------------------------------
(* The inductive invariants, as conjunctions of named parts *)

\* A thread between taking c.mu and releasing it, in close().
InClose(t) == cl[t] \in {"sip", "byewait", "media", "room", "registry"}

\* connectSIP, which holds c.mu.
Dialing == dial \in {"offer", "invite", "response", "answer", "malformed", "hangup", "ack", "dtmf",
                     "failed"}

CallFlags ==
    /\ sync \in BOOLEAN /\ crashed \in BOOLEAN /\ closing \in BOOLEAN /\ sipCli \in BOOLEAN
    /\ registered \in BOOLEAN /\ stopped \in BOOLEAN

RoomFlags == roomConn \in BOOLEAN /\ roomGone \in BOOLEAN /\ topic \in BOOLEAN

WireFlags == dialog \in BOOLEAN /\ recErr \in BOOLEAN /\ hungUp \in BOOLEAN

Flags == CallFlags /\ RoomFlags /\ WireFlags

ThreadTypes ==
    /\ create \in {"media", "room", "register", "start", "dial", "closing", "update", "returned"}
    /\ dial \in {"none", "lock", "offer", "invite", "response", "answer", "malformed", "hangup",
                 "ack", "dtmf", "failed", "active", "wait", "closing", "timeout", "ensure", "done"}
    /\ try \in 0..MaxTries
    /\ result \in {"none", "ok", "error"}
    /\ callee \in CalleeStep

CloseTypes ==
    /\ cl \in [Closers -> CloseStep]
    /\ why \in [Closers -> BOOLEAN]
    /\ mu \in Closers \cup {"free"}

HeldTypes ==
    /\ port \in {"none", "open", "closed"}
    /\ record \in {"NEW", "JOINED", "ACTIVE", "ERROR", "DISCONNECTED"}

\* What the callee has seen, in whatever order the threads run: nothing before
\* its 200, and a dialog of ours is one whose 200 we read and that nobody has
\* ended, or that sendBye kept because the client is closing.
WireInv ==
    /\ byes \in Nat
    /\ dialog => callee = "connected" /\ ~hungUp /\ (byes = 0 \/ closing)
    /\ callee # "connected" => byes = 0
    /\ ~Answered => ~hungUp
    /\ create \in {"media", "room", "register", "start"} => dial = "none"

\* How far the callee is when the dialer is where it is; a 200 that was not
\* read has failed the dial.
CalleeInv ==
    /\ dial \in {"none", "lock", "offer"} => callee = "idle"
    /\ dial = "invite" => callee \in {"idle", "refuses"}
    /\ dial = "response" => callee \in {"invited", "refuses", "answers"} /\ ~hungUp
    /\ dial \in {"answer", "malformed", "hangup", "ack", "dtmf", "active", "wait"}
           => callee = "connected"
    /\ dial \in {"closing", "timeout", "ensure", "done"} /\ callee # "connected"
           => result = "error"

\* A BYE that finds the call comes after the 200.
AcceptInv == \A b \in Byes : cl[b] \in {"accept", "drop"} => Answered

\* A call that was never dialed: newCall failed, or is still under way.  Only
\* Client.Stop can close it before, and only once it is registered.
NewInv ==
    dial = "none" =>
        /\ \A t \in Closers \ {"create", "stop"} : cl[t] = "idle"
        /\ create \in {"media", "room", "register", "start"} <=> cl["create"] = "idle"
        /\ create \in {"update", "returned"} => cl["create"] = "done"
        /\ create # "dial"
        /\ create # "start" =>
             /\ cl["stop"] \in {"idle", "take", "client", "done"}
             /\ mu = "free" /\ ~registered
             /\ stopped => cl["create"] = "done"

\* How the dialer and the creator depend on the closing of the call.
StageInv ==
    /\ dial # "none" => cl["create"] = "idle" /\ create \in {"dial", "update", "returned"}
    /\ cl["create"] \in {"idle", "sip", "byewait", "media", "room", "registry", "done"}
    /\ dial = "lock" => \A t \in Closers \ {"stop"} : cl[t] = "idle"
    /\ dial \in {"active", "wait"} \/ Dialing => cl["dial"] = "idle"
    /\ dial \in {"closing", "timeout"} => cl["dial"] # "idle"
    /\ cl["dial"] = "done" \/ cl["create"] = "done" \/ dial \in {"ensure", "done"} => stopped
    /\ dial \in {"ensure", "done"} => cl["dial"] \in {"idle", "done"}

\* c.mu: one thread is in close() or dials, and none is in close() once the
\* call is stopped.
MutexInv ==
    /\ \A t \in Closers \ {"create"} : InClose(t) => mu = t
    /\ Dialing => mu = "dial"
    /\ mu # "free" => mu # "create" /\ (InClose(mu) \/ (mu = "dial" /\ Dialing))
    /\ \A t \in Closers : InClose(t) => ~stopped

\* What close() has released by each of its steps.
ReleaseInv ==
    /\ \A t \in Closers : cl[t] \in {"room", "registry"} => port = "closed"
    /\ \A t \in Closers : cl[t] = "registry" => ~roomConn
    /\ stopped => port = "closed" /\ ~roomConn /\ ~registered /\ ~topic

\* Two BYEs at most: that for a malformed answer and that of close().
CountInv ==
    /\ byes <= 2
    /\ ~stopped /\ (\A t \in Closers : cl[t] \notin {"byewait", "media", "room", "registry"}) => byes <= 1
    /\ Dialing /\ dial \notin {"hangup", "failed"} => byes = 0
    /\ dial \in {"hangup", "failed"} => byes <= 1

\* Unless it races with a new call, Stop finds every call that is dialed, and
\* none is dialed after it was closed.
PromptInv ==
    /\ dial = "none" =>
         /\ cl["stop"] \in {"idle", "take", "client", "done"}
         /\ cl["stop"] # "idle" => create = "returned"
         /\ registered <=> create = "start"
         /\ stopped => cl["create"] = "done"
    /\ dial = "lock" => registered /\ mu = "free" /\ ~stopped /\ cl["stop"] = "idle"
    /\ Dialing => ~stopped

\* Stop drops the SIP client after the call is closed.
StopInv ==
    /\ closing <=> cl["stop"] # "idle"
    /\ sipCli <=> cl["stop"] # "done"
    /\ dial # "none" => registered \/ stopped \/ cl["stop"] = "lock" \/ InClose("stop")
    /\ cl["stop"] \in {"client", "done"} => stopped
    /\ cl["hangup"] = "refer" => sipCli

\* A callee whose 200 we read has been told once sipOutbound.Close has run.
Told == callee = "connected" => byes > 0 \/ hungUp

\* Until then, the dialog is there to tell it.
ToldInv ==
    /\ dialog \/ Told
    /\ stopped => Told
    /\ \A t \in Closers : cl[t] \in {"byewait", "media", "room", "registry"} => Told

\* What close() releases is held until then.
HoldInv ==
    /\ create \in {"room", "register", "start", "closing"} /\ dial = "none" /\ cl["create"] = "idle"
           => port = "open"
    /\ create \in {"register", "start"} => roomConn
    /\ dial # "none" /\ ~stopped /\ (\A t \in Closers : cl[t] \notin {"room", "registry"}) => port = "open"
    /\ dial # "none" /\ ~stopped /\ (\A t \in Closers : cl[t] # "registry") => roomConn

\* What holds whenever Stop comes ...
TypeInv == Flags /\ ThreadTypes /\ CloseTypes /\ HeldTypes
LegInv  == TypeInv /\ WireInv /\ CalleeInv /\ AcceptInv
CallInv == NewInv /\ StageInv /\ MutexInv /\ ReleaseInv /\ CountInv
BInv    == LegInv /\ CallInv

\* ... and what needs Stop not to race with a new call.
OrderInv == PromptInv /\ StopInv
IInv     == BInv /\ OrderInv
OwnerInv == ToldInv /\ HoldInv

\* The abstract leg's byeIn.
Phase == IF hungUp THEN "dropped" ELSE IF ByeAccepted THEN "accepted" ELSE "none"

\* What a step may do to the messages the callee sees.
Answers == ~Answered /\ ~hungUp /\ Answered' /\ Phase' = Phase /\ UNCHANGED <<byes, closing>>

HangsUp ==
    /\ Answered /\ ~hungUp /\ (byes = 0 \/ closing)
    /\ byes' = byes + 1
    /\ Answered' /\ Phase' = Phase /\ UNCHANGED closing

PeerHangsUp ==
    /\ \/ Phase = "none" /\ Phase' = "accepted"
       \/ Phase = "accepted" /\ Phase' = "dropped"
    /\ Answered' = Answered /\ UNCHANGED <<byes, closing>>

ShutsDown == closing' = TRUE /\ Answered' = Answered /\ Phase' = Phase /\ UNCHANGED byes

Rests == Answered' = Answered /\ Phase' = Phase /\ UNCHANGED <<byes, closing>>

LegMove == Rests \/ Answers \/ HangsUp \/ PeerHangsUp \/ ShutsDown

\* A step that sends BYE finds the room and the port.
AttrsMove == byes' = byes \/ (roomConn /\ port = "open")

-----------------------------------------------------------------------------
(* Type correctness, and what the callee sees *)

\* The flags of the Client and of the call stay Boolean.
LEMMA CallFlagsStep ==
    ASSUME Flags, [Next]_vars
    PROVE  CallFlags'
<1> USE DEF Flags, CallFlags, threadVars, closeVars, clientVars, heldVars, recVars, wireVars
<1>1. CASE NewMediaPort
  BY <1>1, Zenon DEF NewMediaPort
<1>2. CASE ConnectToRoom
  BY <1>2, Zenon DEF ConnectToRoom
<1>3. CASE NewCallFails \/ DialReturns \/ DeferredUpdate
  BY <1>3, Zenon DEF NewCallFails, DialReturns, DeferredUpdate
<1>4. CASE Register \/ StartDial
  BY <1>4, Zenon DEF Register, StartDial
<1>5. CASE ConnectSIP
  BY <1>5, Zenon DEF ConnectSIP, DialUnchanged
<1>6. CASE NewOffer \/ AttemptInvite
  BY <1>6, Zenon DEF NewOffer, AttemptInvite, Spent, DialUnchanged
<1>7. CASE CalleeResponds
  BY <1>7, Zenon DEF CalleeResponds, DialUnchanged
<1>8. CASE SipResponse
  BY <1>8, Zenon DEF SipResponse, DialUnchanged
<1>9. CASE GiveUp \/ MalformedEnds
  BY <1>9, Zenon DEF GiveUp, MalformedEnds, DialUnchanged
<1>10. CASE MalformedAnswer
  BY <1>10, Zenon DEF MalformedAnswer, DialUnchanged
<1>11. CASE SetAnswer \/ AckInviteOK
  BY <1>11, Zenon DEF SetAnswer, AckInviteOK, DialUnchanged
<1>12. CASE WriteDTMF
  BY <1>12, Zenon DEF WriteDTMF, DialUnchanged
<1>13. CASE DialFails
  BY <1>13, Zenon DEF DialFails, classifyInviteError, DialUnchanged
<1>14. CASE BecomeActive
  BY <1>14, Zenon DEF BecomeActive, DialUnchanged
<1>15. CASE WaitClose \/ MediaTimeout
  BY <1>15, Zenon DEF WaitClose, MediaTimeout, WaitUnchanged, DialUnchanged
<1>16. CASE DialClosed \/ EnsureClosed
  BY <1>16, Zenon DEF DialClosed, EnsureClosed, DialUnchanged
<1>17. ASSUME NEW t \in Closers, CloseLocks(t) PROVE CallFlags'
  BY <1>17, Zenon DEF CloseLocks, MayLock, CallUnchanged
<1>18. ASSUME NEW t \in Closers, CloseSIP(t) PROVE CallFlags'
  BY <1>18, Zenon DEF CloseSIP, SendsBye, CallUnchanged
<1>19. ASSUME NEW t \in Closers, ByeAnswered(t) \/ CloseMedia(t) \/ CloseRoom(t) PROVE CallFlags'
  BY <1>19, Zenon DEF ByeAnswered, CloseMedia, CloseRoom, CallUnchanged
<1>20. ASSUME NEW t \in Closers, CloseRegistry(t) PROVE CallFlags'
  BY <1>20, Zenon DEF CloseRegistry, Deregister, Unlock, CallUnchanged
<1>21. ASSUME NEW b \in Byes, ByeArrives(b) \/ RespondBye(b) PROVE CallFlags'
  BY <1>21, Zenon DEF ByeArrives, RespondBye, OthersUnchanged
<1>22. ASSUME NEW b \in Byes, AcceptBye(b) PROVE CallFlags'
  BY <1>22, Zenon DEF AcceptBye, CcLocked, DropsDialog, ByeCloses, OthersUnchanged
<1>23. CASE TransferCall \/ SendRefer \/ TransferHangup
  BY <1>23, Zenon DEF TransferCall, SendRefer, TransferHangup, OthersUnchanged
<1>24. CASE StopBegins
  BY <1>24, Zenon DEF StopBegins, OthersUnchanged
<1>25. CASE StopTakes \/ StopEnds
  BY <1>25, Zenon DEF StopTakes, StopEnds, OthersUnchanged
<1>26. CASE RoomDisconnects
  BY <1>26, Zenon DEF RoomDisconnects, OthersUnchanged
<1>27. CASE UNCHANGED vars
  BY <1>27, Zenon DEF vars
<1> QED BY <1>1, <1>2, <1>3, <1>4, <1>5, <1>6, <1>7, <1>8, <1>9, <1>10, <1>11, <1>12, <1>13,
           <1>14, <1>15, <1>16, <1>17, <1>18, <1>19, <1>20, <1>21, <1>22, <1>23, <1>24, <1>25,
           <1>26, <1>27
    DEF Next, Create, Dial, Close, Stop

\* So do those of the room,
LEMMA RoomFlagsStep ==
    ASSUME Flags, [Next]_vars
    PROVE  RoomFlags'
<1> USE DEF Flags, RoomFlags, threadVars, closeVars, clientVars, heldVars, recVars, wireVars
<1>1. CASE NewMediaPort
  BY <1>1, Zenon DEF NewMediaPort
<1>2. CASE ConnectToRoom
  BY <1>2, Zenon DEF ConnectToRoom
<1>3. CASE NewCallFails \/ DialReturns \/ DeferredUpdate
  BY <1>3, Zenon DEF NewCallFails, DialReturns, DeferredUpdate
<1>4. CASE Register \/ StartDial
  BY <1>4, Zenon DEF Register, StartDial
<1>5. CASE ConnectSIP
  BY <1>5, Zenon DEF ConnectSIP, DialUnchanged
<1>6. CASE NewOffer \/ AttemptInvite
  BY <1>6, Zenon DEF NewOffer, AttemptInvite, Spent, DialUnchanged
<1>7. CASE CalleeResponds
  BY <1>7, Zenon DEF CalleeResponds, DialUnchanged
<1>8. CASE SipResponse
  BY <1>8, Zenon DEF SipResponse, DialUnchanged
<1>9. CASE GiveUp \/ MalformedEnds
  BY <1>9, Zenon DEF GiveUp, MalformedEnds, DialUnchanged
<1>10. CASE MalformedAnswer
  BY <1>10, Zenon DEF MalformedAnswer, DialUnchanged
<1>11. CASE SetAnswer \/ AckInviteOK
  BY <1>11, Zenon DEF SetAnswer, AckInviteOK, DialUnchanged
<1>12. CASE WriteDTMF
  BY <1>12, Zenon DEF WriteDTMF, DialUnchanged
<1>13. CASE DialFails
  BY <1>13, Zenon DEF DialFails, classifyInviteError, DialUnchanged
<1>14. CASE BecomeActive
  BY <1>14, Zenon DEF BecomeActive, DialUnchanged
<1>15. CASE WaitClose \/ MediaTimeout
  BY <1>15, Zenon DEF WaitClose, MediaTimeout, WaitUnchanged, DialUnchanged
<1>16. CASE DialClosed \/ EnsureClosed
  BY <1>16, Zenon DEF DialClosed, EnsureClosed, DialUnchanged
<1>17. ASSUME NEW t \in Closers, CloseLocks(t) PROVE RoomFlags'
  BY <1>17, Zenon DEF CloseLocks, MayLock, CallUnchanged
<1>18. ASSUME NEW t \in Closers, CloseSIP(t) PROVE RoomFlags'
  BY <1>18, Zenon DEF CloseSIP, SendsBye, CallUnchanged
<1>19. ASSUME NEW t \in Closers, ByeAnswered(t) \/ CloseMedia(t) \/ CloseRoom(t) PROVE RoomFlags'
  BY <1>19, Zenon DEF ByeAnswered, CloseMedia, CloseRoom, CallUnchanged
<1>20. ASSUME NEW t \in Closers, CloseRegistry(t) PROVE RoomFlags'
  BY <1>20, Zenon DEF CloseRegistry, Deregister, Unlock, CallUnchanged
<1>21. ASSUME NEW b \in Byes, ByeArrives(b) \/ RespondBye(b) PROVE RoomFlags'
  BY <1>21, Zenon DEF ByeArrives, RespondBye, OthersUnchanged
<1>22. ASSUME NEW b \in Byes, AcceptBye(b) PROVE RoomFlags'
  BY <1>22, Zenon DEF AcceptBye, CcLocked, DropsDialog, ByeCloses, OthersUnchanged
<1>23. CASE TransferCall \/ SendRefer \/ TransferHangup
  BY <1>23, Zenon DEF TransferCall, SendRefer, TransferHangup, OthersUnchanged
<1>24. CASE StopBegins
  BY <1>24, Zenon DEF StopBegins, OthersUnchanged
<1>25. CASE StopTakes \/ StopEnds
  BY <1>25, Zenon DEF StopTakes, StopEnds, OthersUnchanged
<1>26. CASE RoomDisconnects
  BY <1>26, Zenon DEF RoomDisconnects, OthersUnchanged
<1>27. CASE UNCHANGED vars
  BY <1>27, Zenon DEF vars
<1> QED BY <1>1, <1>2, <1>3, <1>4, <1>5, <1>6, <1>7, <1>8, <1>9, <1>10, <1>11, <1>12, <1>13,
           <1>14, <1>15, <1>16, <1>17, <1>18, <1>19, <1>20, <1>21, <1>22, <1>23, <1>24, <1>25,
           <1>26, <1>27
    DEF Next, Create, Dial, Close, Stop

\* and those of the dialog.
LEMMA WireFlagsStep ==
    ASSUME Flags, [Next]_vars
    PROVE  WireFlags'
<1> USE DEF Flags, CallFlags, RoomFlags, WireFlags, threadVars, closeVars, clientVars, heldVars,
            recVars, wireVars
<1>1. CASE NewMediaPort
  BY <1>1, Zenon DEF NewMediaPort
<1>2. CASE ConnectToRoom
  BY <1>2, Zenon DEF ConnectToRoom
<1>3. CASE NewCallFails \/ DialReturns \/ DeferredUpdate
  BY <1>3, Zenon DEF NewCallFails, DialReturns, DeferredUpdate
<1>4. CASE Register \/ StartDial
  BY <1>4, Zenon DEF Register, StartDial
<1>5. CASE ConnectSIP
  BY <1>5, Zenon DEF ConnectSIP, DialUnchanged
<1>6. CASE NewOffer \/ AttemptInvite
  BY <1>6, Zenon DEF NewOffer, AttemptInvite, Spent, DialUnchanged
<1>7. CASE CalleeResponds
  BY <1>7, Zenon DEF CalleeResponds, DialUnchanged
<1>8. CASE SipResponse
  BY <1>8, Zenon DEF SipResponse, DialUnchanged
<1>9. CASE GiveUp \/ MalformedEnds
  BY <1>9, Zenon DEF GiveUp, MalformedEnds, DialUnchanged
<1>10. CASE MalformedAnswer
  BY <1>10, Zenon DEF MalformedAnswer, DialUnchanged
<1>11. CASE SetAnswer \/ AckInviteOK
  BY <1>11, Zenon DEF SetAnswer, AckInviteOK, DialUnchanged
<1>12. CASE WriteDTMF
  BY <1>12, Zenon DEF WriteDTMF, DialUnchanged
<1>13. CASE DialFails
  BY <1>13, Zenon DEF DialFails, classifyInviteError, DialUnchanged
<1>14. CASE BecomeActive
  BY <1>14, Zenon DEF BecomeActive, DialUnchanged
<1>15. CASE WaitClose \/ MediaTimeout
  BY <1>15, Zenon DEF WaitClose, MediaTimeout, WaitUnchanged, DialUnchanged
<1>16. CASE DialClosed \/ EnsureClosed
  BY <1>16, Zenon DEF DialClosed, EnsureClosed, DialUnchanged
<1>17. ASSUME NEW t \in Closers, CloseLocks(t) PROVE WireFlags'
  BY <1>17, Zenon DEF CloseLocks, MayLock, CallUnchanged
<1>18. ASSUME NEW t \in Closers, CloseSIP(t) PROVE WireFlags'
  BY <1>18, Zenon DEF CloseSIP, SendsBye, CallUnchanged
<1>19. ASSUME NEW t \in Closers, ByeAnswered(t) \/ CloseMedia(t) \/ CloseRoom(t) PROVE WireFlags'
  BY <1>19, Zenon DEF ByeAnswered, CloseMedia, CloseRoom, CallUnchanged
<1>20. ASSUME NEW t \in Closers, CloseRegistry(t) PROVE WireFlags'
  BY <1>20, Zenon DEF CloseRegistry, Deregister, Unlock, CallUnchanged
<1>21. ASSUME NEW b \in Byes, ByeArrives(b) \/ RespondBye(b) PROVE WireFlags'
  BY <1>21, Zenon DEF ByeArrives, RespondBye, OthersUnchanged
<1>22. ASSUME NEW b \in Byes, AcceptBye(b) PROVE WireFlags'
  BY <1>22, Zenon DEF AcceptBye, CcLocked, DropsDialog, ByeCloses, OthersUnchanged
<1>23. CASE TransferCall \/ SendRefer \/ TransferHangup
  BY <1>23, Zenon DEF TransferCall, SendRefer, TransferHangup, OthersUnchanged
<1>24. CASE StopBegins
  BY <1>24, Zenon DEF StopBegins, OthersUnchanged
<1>25. CASE StopTakes \/ StopEnds
  BY <1>25, Zenon DEF StopTakes, StopEnds, OthersUnchanged
<1>26. CASE RoomDisconnects
  BY <1>26, Zenon DEF RoomDisconnects, OthersUnchanged
<1>27. CASE UNCHANGED vars
  BY <1>27, Zenon DEF vars
<1> QED BY <1>1, <1>2, <1>3, <1>4, <1>5, <1>6, <1>7, <1>8, <1>9, <1>10, <1>11, <1>12, <1>13,
           <1>14, <1>15, <1>16, <1>17, <1>18, <1>19, <1>20, <1>21, <1>22, <1>23, <1>24, <1>25,
           <1>26, <1>27
    DEF Next, Create, Dial, Close, Stop

\* The program counters of the creator and of the dialer.
LEMMA ThreadTypesStep ==
    ASSUME ThreadTypes, [Next]_vars
    PROVE  ThreadTypes'
<1> USE DEF ThreadTypes, CalleeStep, threadVars, closeVars, clientVars, heldVars, recVars,
            wireVars
<1>1. CASE NewMediaPort
  BY TriesAssumption, <1>1 DEF NewMediaPort
<1>2. CASE ConnectToRoom
  BY TriesAssumption, <1>2 DEF ConnectToRoom
<1>3. CASE NewCallFails \/ DialReturns \/ DeferredUpdate
  BY TriesAssumption, <1>3 DEF NewCallFails, DialReturns, DeferredUpdate
<1>4. CASE Register \/ StartDial
  BY TriesAssumption, <1>4 DEF Register, StartDial
<1>5. CASE ConnectSIP
  BY TriesAssumption, <1>5 DEF ConnectSIP, DialUnchanged
<1>6. CASE NewOffer \/ AttemptInvite
  BY TriesAssumption, <1>6 DEF NewOffer, AttemptInvite, Spent, DialUnchanged
<1>7. CASE CalleeResponds
  BY TriesAssumption, <1>7 DEF CalleeResponds, DialUnchanged
<1>8. CASE SipResponse
  BY TriesAssumption, <1>8 DEF SipResponse, DialUnchanged
<1>9. CASE GiveUp \/ MalformedEnds
  BY TriesAssumption, <1>9 DEF GiveUp, MalformedEnds, DialUnchanged
<1>10. CASE MalformedAnswer
  BY TriesAssumption, <1>10 DEF MalformedAnswer, DialUnchanged
<1>11. CASE SetAnswer \/ AckInviteOK
  BY TriesAssumption, <1>11 DEF SetAnswer, AckInviteOK, DialUnchanged
<1>12. CASE WriteDTMF
  BY TriesAssumption, <1>12 DEF WriteDTMF, DialUnchanged
<1>13. CASE DialFails
  BY TriesAssumption, <1>13 DEF DialFails, classifyInviteError, DialUnchanged
<1>14. CASE BecomeActive
  BY TriesAssumption, <1>14 DEF BecomeActive, DialUnchanged
<1>15. CASE WaitClose \/ MediaTimeout
  BY TriesAssumption, <1>15 DEF WaitClose, MediaTimeout, WaitUnchanged, DialUnchanged
<1>16. CASE DialClosed \/ EnsureClosed
  BY TriesAssumption, <1>16 DEF DialClosed, EnsureClosed, DialUnchanged
<1>17. ASSUME NEW t \in Closers, CloseLocks(t) PROVE ThreadTypes'
  BY TriesAssumption, <1>17 DEF CloseLocks, MayLock, CallUnchanged
<1>18. ASSUME NEW t \in Closers, CloseSIP(t) PROVE ThreadTypes'
  BY TriesAssumption, <1>18 DEF CloseSIP, SendsBye, CallUnchanged
<1>19. ASSUME NEW t \in Closers, ByeAnswered(t) \/ CloseMedia(t) \/ CloseRoom(t) PROVE ThreadTypes'
  BY TriesAssumption, <1>19 DEF ByeAnswered, CloseMedia, CloseRoom, CallUnchanged
<1>20. ASSUME NEW t \in Closers, CloseRegistry(t) PROVE ThreadTypes'
  BY TriesAssumption, <1>20 DEF CloseRegistry, Deregister, Unlock, CallUnchanged
<1>21. ASSUME NEW b \in Byes, ByeArrives(b) \/ RespondBye(b) PROVE ThreadTypes'
  BY TriesAssumption, <1>21 DEF ByeArrives, RespondBye, OthersUnchanged
<1>22. ASSUME NEW b \in Byes, AcceptBye(b) PROVE ThreadTypes'
  BY TriesAssumption, <1>22 DEF AcceptBye, CcLocked, DropsDialog, ByeCloses, OthersUnchanged
<1>23. CASE TransferCall \/ SendRefer \/ TransferHangup
  BY TriesAssumption, <1>23 DEF TransferCall, SendRefer, TransferHangup, OthersUnchanged
<1>24. CASE StopBegins
  BY TriesAssumption, <1>24 DEF StopBegins, OthersUnchanged
<1>25. CASE StopTakes \/ StopEnds
  BY TriesAssumption, <1>25 DEF StopTakes, StopEnds, OthersUnchanged
<1>26. CASE RoomDisconnects
  BY TriesAssumption, <1>26 DEF RoomDisconnects, OthersUnchanged
<1>27. CASE UNCHANGED vars
  BY TriesAssumption, <1>27 DEF vars
<1> QED BY <1>1, <1>2, <1>3, <1>4, <1>5, <1>6, <1>7, <1>8, <1>9, <1>10, <1>11, <1>12, <1>13,
           <1>14, <1>15, <1>16, <1>17, <1>18, <1>19, <1>20, <1>21, <1>22, <1>23, <1>24, <1>25,
           <1>26, <1>27
    DEF Next, Create, Dial, Close, Stop

\* The closers, their errors and the holder of c.mu.
LEMMA CloseTypesStep ==
    ASSUME CloseTypes, [Next]_vars
    PROVE  CloseTypes'
<1> USE DEF CloseTypes, Closers, CloseStep, threadVars, closeVars, clientVars, heldVars, recVars,
            wireVars
<1>1. CASE NewMediaPort
  BY <1>1 DEF NewMediaPort
<1>2. CASE ConnectToRoom
  BY <1>2 DEF ConnectToRoom
<1>3. CASE NewCallFails \/ DialReturns \/ DeferredUpdate
  BY <1>3 DEF NewCallFails, DialReturns, DeferredUpdate
<1>4. CASE Register \/ StartDial
  BY <1>4 DEF Register, StartDial
<1>5. CASE ConnectSIP
  BY <1>5 DEF ConnectSIP, DialUnchanged
<1>6. CASE NewOffer \/ AttemptInvite
  BY <1>6 DEF NewOffer, AttemptInvite, Spent, DialUnchanged
<1>7. CASE CalleeResponds
  BY <1>7 DEF CalleeResponds, DialUnchanged
<1>8. CASE SipResponse
  BY <1>8 DEF SipResponse, DialUnchanged
<1>9. CASE GiveUp \/ MalformedEnds
  BY <1>9 DEF GiveUp, MalformedEnds, DialUnchanged
<1>10. CASE MalformedAnswer
  BY <1>10 DEF MalformedAnswer, DialUnchanged
<1>11. CASE SetAnswer \/ AckInviteOK
  BY <1>11 DEF SetAnswer, AckInviteOK, DialUnchanged
<1>12. CASE WriteDTMF
  BY <1>12 DEF WriteDTMF, DialUnchanged
<1>13. CASE DialFails
  BY <1>13 DEF DialFails, classifyInviteError, DialUnchanged
<1>14. CASE BecomeActive
  BY <1>14 DEF BecomeActive, DialUnchanged
<1>15. CASE WaitClose \/ MediaTimeout
  BY <1>15 DEF WaitClose, MediaTimeout, WaitUnchanged, DialUnchanged
<1>16. CASE DialClosed \/ EnsureClosed
  BY <1>16 DEF DialClosed, EnsureClosed, DialUnchanged
<1>17. ASSUME NEW t \in Closers, CloseLocks(t) PROVE CloseTypes'
  BY <1>17 DEF CloseLocks, MayLock, CallUnchanged
<1>18. ASSUME NEW t \in Closers, CloseSIP(t) PROVE CloseTypes'
  BY <1>18 DEF CloseSIP, SendsBye, CallUnchanged
<1>19. ASSUME NEW t \in Closers, ByeAnswered(t) \/ CloseMedia(t) \/ CloseRoom(t) PROVE CloseTypes'
  BY <1>19 DEF ByeAnswered, CloseMedia, CloseRoom, CallUnchanged
<1>20. ASSUME NEW t \in Closers, CloseRegistry(t) PROVE CloseTypes'
  BY <1>20 DEF CloseRegistry, Deregister, Unlock, CallUnchanged
<1>21. ASSUME NEW b \in Byes, ByeArrives(b) \/ RespondBye(b) PROVE CloseTypes'
  BY <1>21 DEF ByeArrives, RespondBye, OthersUnchanged
<1>22. ASSUME NEW b \in Byes, AcceptBye(b) PROVE CloseTypes'
  BY <1>22 DEF AcceptBye, CcLocked, DropsDialog, ByeCloses, OthersUnchanged
<1>23. CASE TransferCall \/ SendRefer \/ TransferHangup
  BY <1>23 DEF TransferCall, SendRefer, TransferHangup, OthersUnchanged
<1>24. CASE StopBegins
  BY <1>24 DEF StopBegins, OthersUnchanged
<1>25. CASE StopTakes \/ StopEnds
  BY <1>25 DEF StopTakes, StopEnds, OthersUnchanged
<1>26. CASE RoomDisconnects
  BY <1>26 DEF RoomDisconnects, OthersUnchanged
<1>27. CASE UNCHANGED vars
  BY <1>27 DEF vars
<1> QED BY <1>1, <1>2, <1>3, <1>4, <1>5, <1>6, <1>7, <1>8, <1>9, <1>10, <1>11, <1>12, <1>13,
           <1>14, <1>15, <1>16, <1>17, <1>18, <1>19, <1>20, <1>21, <1>22, <1>23, <1>24, <1>25,
           <1>26, <1>27
    DEF Next, Create, Dial, Close, Stop

\* The port and the record.
LEMMA HeldTypesStep ==
    ASSUME HeldTypes, [Next]_vars
    PROVE  HeldTypes'
<1> USE DEF HeldTypes, threadVars, closeVars, clientVars, heldVars, recVars, wireVars
<1>1. CASE NewMediaPort
  BY <1>1 DEF NewMediaPort
<1>2. CASE ConnectToRoom
  BY <1>2 DEF ConnectToRoom
<1>3. CASE NewCallFails \/ DialReturns \/ DeferredUpdate
  BY <1>3 DEF NewCallFails, DialReturns, DeferredUpdate
<1>4. CASE Register \/ StartDial
  BY <1>4 DEF Register, StartDial
<1>5. CASE ConnectSIP
  BY <1>5 DEF ConnectSIP, DialUnchanged
<1>6. CASE NewOffer \/ AttemptInvite
  BY <1>6 DEF NewOffer, AttemptInvite, Spent, DialUnchanged
<1>7. CASE CalleeResponds
  BY <1>7 DEF CalleeResponds, DialUnchanged
<1>8. CASE SipResponse
  BY <1>8 DEF SipResponse, DialUnchanged
<1>9. CASE GiveUp \/ MalformedEnds
  BY <1>9 DEF GiveUp, MalformedEnds, DialUnchanged
<1>10. CASE MalformedAnswer
  BY <1>10 DEF MalformedAnswer, DialUnchanged
<1>11. CASE SetAnswer \/ AckInviteOK
  BY <1>11 DEF SetAnswer, AckInviteOK, DialUnchanged
<1>12. CASE WriteDTMF
  BY <1>12 DEF WriteDTMF, DialUnchanged
<1>13. CASE DialFails
  BY <1>13 DEF DialFails, classifyInviteError, DialUnchanged
<1>14. CASE BecomeActive
  BY <1>14 DEF BecomeActive, DialUnchanged
<1>15. CASE WaitClose \/ MediaTimeout
  BY <1>15 DEF WaitClose, MediaTimeout, WaitUnchanged, DialUnchanged
<1>16. CASE DialClosed \/ EnsureClosed
  BY <1>16 DEF DialClosed, EnsureClosed, DialUnchanged
<1>17. ASSUME NEW t \in Closers, CloseLocks(t) PROVE HeldTypes'
  BY <1>17 DEF CloseLocks, MayLock, CallUnchanged
<1>18. ASSUME NEW t \in Closers, CloseSIP(t) PROVE HeldTypes'
  BY <1>18 DEF CloseSIP, SendsBye, CallUnchanged
<1>19. ASSUME NEW t \in Closers, ByeAnswered(t) \/ CloseMedia(t) \/ CloseRoom(t) PROVE HeldTypes'
  BY <1>19 DEF ByeAnswered, CloseMedia, CloseRoom, CallUnchanged
<1>20. ASSUME NEW t \in Closers, CloseRegistry(t) PROVE HeldTypes'
  BY <1>20 DEF CloseRegistry, Deregister, Unlock, CallUnchanged
<1>21. ASSUME NEW b \in Byes, ByeArrives(b) \/ RespondBye(b) PROVE HeldTypes'
  BY <1>21 DEF ByeArrives, RespondBye, OthersUnchanged
<1>22. ASSUME NEW b \in Byes, AcceptBye(b) PROVE HeldTypes'
  BY <1>22 DEF AcceptBye, CcLocked, DropsDialog, ByeCloses, OthersUnchanged
<1>23. CASE TransferCall \/ SendRefer \/ TransferHangup
  BY <1>23 DEF TransferCall, SendRefer, TransferHangup, OthersUnchanged
<1>24. CASE StopBegins
  BY <1>24 DEF StopBegins, OthersUnchanged
<1>25. CASE StopTakes \/ StopEnds
  BY <1>25 DEF StopTakes, StopEnds, OthersUnchanged
<1>26. CASE RoomDisconnects
  BY <1>26 DEF RoomDisconnects, OthersUnchanged
<1>27. CASE UNCHANGED vars
  BY <1>27 DEF vars
<1> QED BY <1>1, <1>2, <1>3, <1>4, <1>5, <1>6, <1>7, <1>8, <1>9, <1>10, <1>11, <1>12, <1>13,
           <1>14, <1>15, <1>16, <1>17, <1>18, <1>19, <1>20, <1>21, <1>22, <1>23, <1>24, <1>25,
           <1>26, <1>27
    DEF Next, Create, Dial, Close, Stop

\* Every step respects what the callee has seen.
LEMMA WireStep ==
    ASSUME LegInv, [Next]_vars
    PROVE  WireInv'
<1> USE DEF LegInv, TypeInv, Flags, WireFlags, ThreadTypes, CalleeStep, WireInv, CalleeInv,
            AcceptInv, Answered, threadVars, closeVars, clientVars, heldVars, recVars, wireVars
<1>1. CASE NewMediaPort
  BY <1>1 DEF NewMediaPort
<1>2. CASE ConnectToRoom
  BY <1>2 DEF ConnectToRoom
<1>3. CASE NewCallFails \/ DialReturns \/ DeferredUpdate
  BY <1>3 DEF NewCallFails, DialReturns, DeferredUpdate
<1>4. CASE Register \/ StartDial
  BY <1>4 DEF Register, StartDial
<1>5. CASE ConnectSIP
  BY <1>5 DEF ConnectSIP, DialUnchanged
<1>6. CASE NewOffer \/ AttemptInvite
  BY <1>6 DEF NewOffer, AttemptInvite, Spent, DialUnchanged
<1>7. CASE CalleeResponds
  BY <1>7 DEF CalleeResponds, DialUnchanged
<1>8. CASE SipResponse
  BY <1>8 DEF SipResponse, DialUnchanged
<1>9. CASE GiveUp \/ MalformedEnds
  BY <1>9 DEF GiveUp, MalformedEnds, DialUnchanged
<1>10. CASE MalformedAnswer
  BY <1>10 DEF MalformedAnswer, DialUnchanged
<1>11. CASE SetAnswer \/ AckInviteOK
  BY <1>11 DEF SetAnswer, AckInviteOK, DialUnchanged
<1>12. CASE WriteDTMF
  BY <1>12 DEF WriteDTMF, DialUnchanged
<1>13. CASE DialFails
  BY <1>13 DEF DialFails, classifyInviteError, DialUnchanged
<1>14. CASE BecomeActive
  BY <1>14 DEF BecomeActive, DialUnchanged
<1>15. CASE WaitClose \/ MediaTimeout
  BY <1>15 DEF WaitClose, MediaTimeout, WaitUnchanged, DialUnchanged
<1>16. CASE DialClosed \/ EnsureClosed
  BY <1>16 DEF DialClosed, EnsureClosed, DialUnchanged
<1>17. ASSUME NEW t \in Closers, CloseLocks(t) PROVE WireInv'
  BY <1>17 DEF CloseLocks, MayLock, CallUnchanged
<1>18. ASSUME NEW t \in Closers, CloseSIP(t) PROVE WireInv'
  BY <1>18 DEF CloseSIP, SendsBye, CallUnchanged
<1>19. ASSUME NEW t \in Closers, ByeAnswered(t) \/ CloseMedia(t) \/ CloseRoom(t) PROVE WireInv'
  BY <1>19 DEF ByeAnswered, CloseMedia, CloseRoom, CallUnchanged
<1>20. ASSUME NEW t \in Closers, CloseRegistry(t) PROVE WireInv'
  BY <1>20 DEF CloseRegistry, Deregister, Unlock, CallUnchanged
<1>21. ASSUME NEW b \in Byes, ByeArrives(b) \/ RespondBye(b) PROVE WireInv'
  BY <1>21 DEF ByeArrives, RespondBye, OthersUnchanged
<1>22. ASSUME NEW b \in Byes, AcceptBye(b) PROVE WireInv'
  BY <1>22 DEF AcceptBye, CcLocked, DropsDialog, ByeCloses, OthersUnchanged
<1>23. CASE TransferCall \/ SendRefer \/ TransferHangup
  BY <1>23 DEF TransferCall, SendRefer, TransferHangup, OthersUnchanged
<1>24. CASE StopBegins
  BY <1>24 DEF StopBegins, OthersUnchanged
<1>25. CASE StopTakes \/ StopEnds
  BY <1>25 DEF StopTakes, StopEnds, OthersUnchanged
<1>26. CASE RoomDisconnects
  BY <1>26 DEF RoomDisconnects, OthersUnchanged
<1>27. CASE UNCHANGED vars
  BY <1>27 DEF vars
<1> QED BY <1>1, <1>2, <1>3, <1>4, <1>5, <1>6, <1>7, <1>8, <1>9, <1>10, <1>11, <1>12, <1>13,
           <1>14, <1>15, <1>16, <1>17, <1>18, <1>19, <1>20, <1>21, <1>22, <1>23, <1>24, <1>25,
           <1>26, <1>27
    DEF Next, Create, Dial, Close, Stop

\* The dialer and the callee keep step.
LEMMA CalleeMoveStep ==
    ASSUME LegInv, [Next]_vars
    PROVE  CalleeInv'
<1> USE DEF LegInv, WireInv, CalleeInv, AcceptInv, Answered, threadVars, closeVars, clientVars,
            heldVars, recVars, wireVars
<1>1. CASE NewMediaPort
  BY <1>1 DEF NewMediaPort
<1>2. CASE ConnectToRoom
  BY <1>2 DEF ConnectToRoom
<1>3. CASE NewCallFails \/ DialReturns \/ DeferredUpdate
  BY <1>3 DEF NewCallFails, DialReturns, DeferredUpdate
<1>4. CASE Register \/ StartDial
  BY <1>4 DEF Register, StartDial
<1>5. CASE ConnectSIP
  BY <1>5 DEF ConnectSIP, DialUnchanged
<1>6. CASE NewOffer \/ AttemptInvite
  BY <1>6 DEF NewOffer, AttemptInvite, Spent, DialUnchanged
<1>7. CASE CalleeResponds
  BY <1>7 DEF CalleeResponds, DialUnchanged
<1>8. CASE SipResponse
  BY <1>8 DEF SipResponse, DialUnchanged
<1>9. CASE GiveUp \/ MalformedEnds
  BY <1>9 DEF GiveUp, MalformedEnds, DialUnchanged
<1>10. CASE MalformedAnswer
  BY <1>10 DEF MalformedAnswer, DialUnchanged
<1>11. CASE SetAnswer \/ AckInviteOK
  BY <1>11 DEF SetAnswer, AckInviteOK, DialUnchanged
<1>12. CASE WriteDTMF
  BY <1>12 DEF WriteDTMF, DialUnchanged
<1>13. CASE DialFails
  BY <1>13 DEF DialFails, classifyInviteError, DialUnchanged
<1>14. CASE BecomeActive
  BY <1>14 DEF BecomeActive, DialUnchanged
<1>15. CASE WaitClose \/ MediaTimeout
  BY <1>15 DEF WaitClose, MediaTimeout, WaitUnchanged, DialUnchanged
<1>16. CASE DialClosed \/ EnsureClosed
  BY <1>16 DEF DialClosed, EnsureClosed, DialUnchanged
<1>17. ASSUME NEW t \in Closers, CloseLocks(t) PROVE CalleeInv'
  BY <1>17 DEF CloseLocks, MayLock, CallUnchanged
<1>18. ASSUME NEW t \in Closers, CloseSIP(t) PROVE CalleeInv'
  BY <1>18 DEF CloseSIP, SendsBye, CallUnchanged
<1>19. ASSUME NEW t \in Closers, ByeAnswered(t) \/ CloseMedia(t) \/ CloseRoom(t) PROVE CalleeInv'
  BY <1>19 DEF ByeAnswered, CloseMedia, CloseRoom, CallUnchanged
<1>20. ASSUME NEW t \in Closers, CloseRegistry(t) PROVE CalleeInv'
  BY <1>20 DEF CloseRegistry, Deregister, Unlock, CallUnchanged
<1>21. ASSUME NEW b \in Byes, ByeArrives(b) \/ RespondBye(b) PROVE CalleeInv'
  BY <1>21 DEF ByeArrives, RespondBye, OthersUnchanged
<1>22. ASSUME NEW b \in Byes, AcceptBye(b) PROVE CalleeInv'
  BY <1>22 DEF AcceptBye, CcLocked, DropsDialog, ByeCloses, OthersUnchanged
<1>23. CASE TransferCall \/ SendRefer \/ TransferHangup
  BY <1>23 DEF TransferCall, SendRefer, TransferHangup, OthersUnchanged
<1>24. CASE StopBegins
  BY <1>24 DEF StopBegins, OthersUnchanged
<1>25. CASE StopTakes \/ StopEnds
  BY <1>25 DEF StopTakes, StopEnds, OthersUnchanged
<1>26. CASE RoomDisconnects
  BY <1>26 DEF RoomDisconnects, OthersUnchanged
<1>27. CASE UNCHANGED vars
  BY <1>27 DEF vars
<1> QED BY <1>1, <1>2, <1>3, <1>4, <1>5, <1>6, <1>7, <1>8, <1>9, <1>10, <1>11, <1>12, <1>13,
           <1>14, <1>15, <1>16, <1>17, <1>18, <1>19, <1>20, <1>21, <1>22, <1>23, <1>24, <1>25,
           <1>26, <1>27
    DEF Next, Create, Dial, Close, Stop

\* No BYE comes before the 200.
LEMMA AcceptStep ==
    ASSUME LegInv, [Next]_vars
    PROVE  AcceptInv'
<1> USE DEF LegInv, TypeInv, CloseTypes, CalleeInv, AcceptInv, Answered, Closers, threadVars,
            closeVars, clientVars, heldVars, recVars, wireVars
<1>1. CASE NewMediaPort
  BY ByesAssumption, <1>1 DEF NewMediaPort
<1>2. CASE ConnectToRoom
  BY ByesAssumption, <1>2 DEF ConnectToRoom
<1>3. CASE NewCallFails \/ DialReturns \/ DeferredUpdate
  BY ByesAssumption, <1>3 DEF NewCallFails, DialReturns, DeferredUpdate
<1>4. CASE Register \/ StartDial
  BY ByesAssumption, <1>4 DEF Register, StartDial
<1>5. CASE ConnectSIP
  BY ByesAssumption, <1>5 DEF ConnectSIP, DialUnchanged
<1>6. CASE NewOffer \/ AttemptInvite
  BY ByesAssumption, <1>6 DEF NewOffer, AttemptInvite, Spent, DialUnchanged
<1>7. CASE CalleeResponds
  BY ByesAssumption, <1>7 DEF CalleeResponds, DialUnchanged
<1>8. CASE SipResponse
  BY ByesAssumption, <1>8 DEF SipResponse, DialUnchanged
<1>9. CASE GiveUp \/ MalformedEnds
  BY ByesAssumption, <1>9 DEF GiveUp, MalformedEnds, DialUnchanged
<1>10. CASE MalformedAnswer
  BY ByesAssumption, <1>10 DEF MalformedAnswer, DialUnchanged
<1>11. CASE SetAnswer \/ AckInviteOK
  BY ByesAssumption, <1>11 DEF SetAnswer, AckInviteOK, DialUnchanged
<1>12. CASE WriteDTMF
  BY ByesAssumption, <1>12 DEF WriteDTMF, DialUnchanged
<1>13. CASE DialFails
  BY ByesAssumption, <1>13 DEF DialFails, classifyInviteError, DialUnchanged
<1>14. CASE BecomeActive
  BY ByesAssumption, <1>14 DEF BecomeActive, DialUnchanged
<1>15. CASE WaitClose \/ MediaTimeout
  BY ByesAssumption, <1>15 DEF WaitClose, MediaTimeout, WaitUnchanged, DialUnchanged
<1>16. CASE DialClosed \/ EnsureClosed
  BY ByesAssumption, <1>16 DEF DialClosed, EnsureClosed, DialUnchanged
<1>17. ASSUME NEW t \in Closers, CloseLocks(t) PROVE AcceptInv'
  BY ByesAssumption, <1>17 DEF CloseLocks, MayLock, CallUnchanged
<1>18. ASSUME NEW t \in Closers, CloseSIP(t) PROVE AcceptInv'
  BY ByesAssumption, <1>18 DEF CloseSIP, SendsBye, CallUnchanged
<1>19. ASSUME NEW t \in Closers, ByeAnswered(t) \/ CloseMedia(t) \/ CloseRoom(t) PROVE AcceptInv'
  BY ByesAssumption, <1>19 DEF ByeAnswered, CloseMedia, CloseRoom, CallUnchanged
<1>20. ASSUME NEW t \in Closers, CloseRegistry(t) PROVE AcceptInv'
  BY ByesAssumption, <1>20 DEF CloseRegistry, Deregister, Unlock, CallUnchanged
<1>21. ASSUME NEW b \in Byes, ByeArrives(b) \/ RespondBye(b) PROVE AcceptInv'
  BY ByesAssumption, <1>21 DEF ByeArrives, RespondBye, OthersUnchanged
<1>22. ASSUME NEW b \in Byes, AcceptBye(b) PROVE AcceptInv'
  BY ByesAssumption, <1>22 DEF AcceptBye, CcLocked, DropsDialog, ByeCloses, OthersUnchanged
<1>23. CASE TransferCall \/ SendRefer \/ TransferHangup
  BY ByesAssumption, <1>23 DEF TransferCall, SendRefer, TransferHangup, OthersUnchanged
<1>24. CASE StopBegins
  BY ByesAssumption, <1>24 DEF StopBegins, OthersUnchanged
<1>25. CASE StopTakes \/ StopEnds
  BY ByesAssumption, <1>25 DEF StopTakes, StopEnds, OthersUnchanged
<1>26. CASE RoomDisconnects
  BY ByesAssumption, <1>26 DEF RoomDisconnects, OthersUnchanged
<1>27. CASE UNCHANGED vars
  BY ByesAssumption, <1>27 DEF vars
<1> QED BY <1>1, <1>2, <1>3, <1>4, <1>5, <1>6, <1>7, <1>8, <1>9, <1>10, <1>11, <1>12, <1>13,
           <1>14, <1>15, <1>16, <1>17, <1>18, <1>19, <1>20, <1>21, <1>22, <1>23, <1>24, <1>25,
           <1>26, <1>27
    DEF Next, Create, Dial, Close, Stop

-----------------------------------------------------------------------------
(* The locks, the stages and what is released, whenever Client.Stop comes *)

\* A call that is not dialed.
LEMMA NewStep ==
    ASSUME BInv, [Next]_vars
    PROVE  NewInv'
<1> USE DEF BInv, LegInv, TypeInv, ThreadTypes, CloseTypes, CallInv, WireInv, CalleeInv,
            AcceptInv, Answered, NewInv, StageInv, MutexInv, InClose, Dialing, Closers,
            threadVars, closeVars, clientVars, heldVars, recVars, wireVars
<1>1. CASE NewMediaPort
  BY ByesAssumption, <1>1 DEF NewMediaPort
<1>2. CASE ConnectToRoom
  BY ByesAssumption, <1>2 DEF ConnectToRoom
<1>3. CASE NewCallFails \/ DialReturns \/ DeferredUpdate
  BY ByesAssumption, <1>3 DEF NewCallFails, DialReturns, DeferredUpdate
<1>4. CASE Register \/ StartDial
  BY ByesAssumption, <1>4 DEF Register, StartDial
<1>5. CASE ConnectSIP
  BY ByesAssumption, <1>5 DEF ConnectSIP, DialUnchanged
<1>6. CASE NewOffer \/ AttemptInvite
  BY ByesAssumption, <1>6 DEF NewOffer, AttemptInvite, Spent, DialUnchanged
<1>7. CASE CalleeResponds
  BY ByesAssumption, <1>7 DEF CalleeResponds, DialUnchanged
<1>8. CASE SipResponse
  BY ByesAssumption, <1>8 DEF SipResponse, DialUnchanged
<1>9. CASE GiveUp \/ MalformedEnds
  BY ByesAssumption, <1>9 DEF GiveUp, MalformedEnds, DialUnchanged
<1>10. CASE MalformedAnswer
  BY ByesAssumption, <1>10 DEF MalformedAnswer, DialUnchanged
<1>11. CASE SetAnswer \/ AckInviteOK
  BY ByesAssumption, <1>11 DEF SetAnswer, AckInviteOK, DialUnchanged
<1>12. CASE WriteDTMF
  BY ByesAssumption, <1>12 DEF WriteDTMF, DialUnchanged
<1>13. CASE DialFails
  BY ByesAssumption, <1>13 DEF DialFails, classifyInviteError, DialUnchanged
<1>14. CASE BecomeActive
  BY ByesAssumption, <1>14 DEF BecomeActive, DialUnchanged
<1>15. CASE WaitClose \/ MediaTimeout
  BY ByesAssumption, <1>15 DEF WaitClose, MediaTimeout, WaitUnchanged, DialUnchanged
<1>16. CASE DialClosed \/ EnsureClosed
  BY ByesAssumption, <1>16 DEF DialClosed, EnsureClosed, DialUnchanged
<1>17. ASSUME NEW t \in Closers, CloseLocks(t) PROVE NewInv'
  BY ByesAssumption, <1>17 DEF CloseLocks, MayLock, CallUnchanged
<1>18. ASSUME NEW t \in Closers, CloseSIP(t) PROVE NewInv'
  BY ByesAssumption, <1>18 DEF CloseSIP, SendsBye, CallUnchanged
<1>19. ASSUME NEW t \in Closers, ByeAnswered(t) \/ CloseMedia(t) \/ CloseRoom(t) PROVE NewInv'
  BY ByesAssumption, <1>19 DEF ByeAnswered, CloseMedia, CloseRoom, CallUnchanged
<1>20. ASSUME NEW t \in Closers, CloseRegistry(t) PROVE NewInv'
  BY ByesAssumption, <1>20 DEF CloseRegistry, Deregister, Unlock, CallUnchanged
<1>21. ASSUME NEW b \in Byes, ByeArrives(b) \/ RespondBye(b) PROVE NewInv'
  BY ByesAssumption, <1>21 DEF ByeArrives, RespondBye, OthersUnchanged
<1>22. ASSUME NEW b \in Byes, AcceptBye(b) PROVE NewInv'
  BY ByesAssumption, <1>22 DEF AcceptBye, CcLocked, DropsDialog, ByeCloses, OthersUnchanged
<1>23. CASE TransferCall \/ SendRefer \/ TransferHangup
  BY ByesAssumption, <1>23 DEF TransferCall, SendRefer, TransferHangup, OthersUnchanged
<1>24. CASE StopBegins
  BY ByesAssumption, <1>24 DEF StopBegins, OthersUnchanged
<1>25. CASE StopTakes \/ StopEnds
  BY ByesAssumption, <1>25 DEF StopTakes, StopEnds, OthersUnchanged
<1>26. CASE RoomDisconnects
  BY ByesAssumption, <1>26 DEF RoomDisconnects, OthersUnchanged
<1>27. CASE UNCHANGED vars
  BY ByesAssumption, <1>27 DEF vars
<1> QED BY <1>1, <1>2, <1>3, <1>4, <1>5, <1>6, <1>7, <1>8, <1>9, <1>10, <1>11, <1>12, <1>13,
           <1>14, <1>15, <1>16, <1>17, <1>18, <1>19, <1>20, <1>21, <1>22, <1>23, <1>24, <1>25,
           <1>26, <1>27
    DEF Next, Create, Dial, Close, Stop

\* The stages.
LEMMA StageStep ==
    ASSUME BInv, [Next]_vars
    PROVE  StageInv'
<1> USE DEF BInv, LegInv, TypeInv, ThreadTypes, CloseTypes, CallInv, WireInv, CalleeInv,
            AcceptInv, Answered, NewInv, StageInv, MutexInv, InClose, Dialing, Closers,
            threadVars, closeVars, clientVars, heldVars, recVars, wireVars
<1>1. CASE NewMediaPort
  BY ByesAssumption, <1>1 DEF NewMediaPort
<1>2. CASE ConnectToRoom
  BY ByesAssumption, <1>2 DEF ConnectToRoom
<1>3. CASE NewCallFails \/ DialReturns \/ DeferredUpdate
  BY ByesAssumption, <1>3 DEF NewCallFails, DialReturns, DeferredUpdate
<1>4. CASE Register \/ StartDial
  BY ByesAssumption, <1>4 DEF Register, StartDial
<1>5. CASE ConnectSIP
  BY ByesAssumption, <1>5 DEF ConnectSIP, DialUnchanged
<1>6. CASE NewOffer \/ AttemptInvite
  BY ByesAssumption, <1>6 DEF NewOffer, AttemptInvite, Spent, DialUnchanged
<1>7. CASE CalleeResponds
  BY ByesAssumption, <1>7 DEF CalleeResponds, DialUnchanged
<1>8. CASE SipResponse
  BY ByesAssumption, <1>8 DEF SipResponse, DialUnchanged
<1>9. CASE GiveUp \/ MalformedEnds
  BY ByesAssumption, <1>9 DEF GiveUp, MalformedEnds, DialUnchanged
<1>10. CASE MalformedAnswer
  BY ByesAssumption, <1>10 DEF MalformedAnswer, DialUnchanged
<1>11. CASE SetAnswer \/ AckInviteOK
  BY ByesAssumption, <1>11 DEF SetAnswer, AckInviteOK, DialUnchanged
<1>12. CASE WriteDTMF
  BY ByesAssumption, <1>12 DEF WriteDTMF, DialUnchanged
<1>13. CASE DialFails
  BY ByesAssumption, <1>13 DEF DialFails, classifyInviteError, DialUnchanged
<1>14. CASE BecomeActive
  BY ByesAssumption, <1>14 DEF BecomeActive, DialUnchanged
<1>15. CASE WaitClose \/ MediaTimeout
  BY ByesAssumption, <1>15 DEF WaitClose, MediaTimeout, WaitUnchanged, DialUnchanged
<1>16. CASE DialClosed \/ EnsureClosed
  BY ByesAssumption, <1>16 DEF DialClosed, EnsureClosed, DialUnchanged
<1>17. ASSUME NEW t \in Closers, CloseLocks(t) PROVE StageInv'
  BY ByesAssumption, <1>17 DEF CloseLocks, MayLock, CallUnchanged
<1>18. ASSUME NEW t \in Closers, CloseSIP(t) PROVE StageInv'
  BY ByesAssumption, <1>18 DEF CloseSIP, SendsBye, CallUnchanged
<1>19. ASSUME NEW t \in Closers, ByeAnswered(t) \/ CloseMedia(t) \/ CloseRoom(t) PROVE StageInv'
  BY ByesAssumption, <1>19 DEF ByeAnswered, CloseMedia, CloseRoom, CallUnchanged
<1>20. ASSUME NEW t \in Closers, CloseRegistry(t) PROVE StageInv'
  BY ByesAssumption, <1>20 DEF CloseRegistry, Deregister, Unlock, CallUnchanged
<1>21. ASSUME NEW b \in Byes, ByeArrives(b) \/ RespondBye(b) PROVE StageInv'
  BY ByesAssumption, <1>21 DEF ByeArrives, RespondBye, OthersUnchanged
<1>22. ASSUME NEW b \in Byes, AcceptBye(b) PROVE StageInv'
  BY ByesAssumption, <1>22 DEF AcceptBye, CcLocked, DropsDialog, ByeCloses, OthersUnchanged
<1>23. CASE TransferCall \/ SendRefer \/ TransferHangup
  BY ByesAssumption, <1>23 DEF TransferCall, SendRefer, TransferHangup, OthersUnchanged
<1>24. CASE StopBegins
  BY ByesAssumption, <1>24 DEF StopBegins, OthersUnchanged
<1>25. CASE StopTakes \/ StopEnds
  BY ByesAssumption, <1>25 DEF StopTakes, StopEnds, OthersUnchanged
<1>26. CASE RoomDisconnects
  BY ByesAssumption, <1>26 DEF RoomDisconnects, OthersUnchanged
<1>27. CASE UNCHANGED vars
  BY ByesAssumption, <1>27 DEF vars
<1> QED BY <1>1, <1>2, <1>3, <1>4, <1>5, <1>6, <1>7, <1>8, <1>9, <1>10, <1>11, <1>12, <1>13,
           <1>14, <1>15, <1>16, <1>17, <1>18, <1>19, <1>20, <1>21, <1>22, <1>23, <1>24, <1>25,
           <1>26, <1>27
    DEF Next, Create, Dial, Close, Stop

\* The mutex.
LEMMA MutexStep ==
    ASSUME BInv, [Next]_vars
    PROVE  MutexInv'
<1> USE DEF BInv, LegInv, TypeInv, ThreadTypes, CloseTypes, CallInv, NewInv, StageInv, MutexInv,
            InClose, Dialing, Closers, threadVars, closeVars, clientVars, heldVars, recVars,
            wireVars
<1>1. CASE NewMediaPort
  BY ByesAssumption, <1>1 DEF NewMediaPort
<1>2. CASE ConnectToRoom
  BY ByesAssumption, <1>2 DEF ConnectToRoom
<1>3. CASE NewCallFails \/ DialReturns \/ DeferredUpdate
  BY ByesAssumption, <1>3 DEF NewCallFails, DialReturns, DeferredUpdate
<1>4. CASE Register \/ StartDial
  BY ByesAssumption, <1>4 DEF Register, StartDial
<1>5. CASE ConnectSIP
  BY ByesAssumption, <1>5 DEF ConnectSIP, DialUnchanged
<1>6. CASE NewOffer \/ AttemptInvite
  BY ByesAssumption, <1>6 DEF NewOffer, AttemptInvite, Spent, DialUnchanged
<1>7. CASE CalleeResponds
  BY ByesAssumption, <1>7 DEF CalleeResponds, DialUnchanged
<1>8. CASE SipResponse
  BY ByesAssumption, <1>8 DEF SipResponse, DialUnchanged
<1>9. CASE GiveUp \/ MalformedEnds
  BY ByesAssumption, <1>9 DEF GiveUp, MalformedEnds, DialUnchanged
<1>10. CASE MalformedAnswer
  BY ByesAssumption, <1>10 DEF MalformedAnswer, DialUnchanged
<1>11. CASE SetAnswer \/ AckInviteOK
  BY ByesAssumption, <1>11 DEF SetAnswer, AckInviteOK, DialUnchanged
<1>12. CASE WriteDTMF
  BY ByesAssumption, <1>12 DEF WriteDTMF, DialUnchanged
<1>13. CASE DialFails
  BY ByesAssumption, <1>13 DEF DialFails, classifyInviteError, DialUnchanged
<1>14. CASE BecomeActive
  BY ByesAssumption, <1>14 DEF BecomeActive, DialUnchanged
<1>15. CASE WaitClose \/ MediaTimeout
  BY ByesAssumption, <1>15 DEF WaitClose, MediaTimeout, WaitUnchanged, DialUnchanged
<1>16. CASE DialClosed \/ EnsureClosed
  BY ByesAssumption, <1>16 DEF DialClosed, EnsureClosed, DialUnchanged
<1>17. ASSUME NEW t \in Closers, CloseLocks(t) PROVE MutexInv'
  BY ByesAssumption, <1>17 DEF CloseLocks, MayLock, CallUnchanged
<1>18. ASSUME NEW t \in Closers, CloseSIP(t) PROVE MutexInv'
  BY ByesAssumption, <1>18 DEF CloseSIP, SendsBye, CallUnchanged
<1>19. ASSUME NEW t \in Closers, ByeAnswered(t) \/ CloseMedia(t) \/ CloseRoom(t) PROVE MutexInv'
  BY ByesAssumption, <1>19 DEF ByeAnswered, CloseMedia, CloseRoom, CallUnchanged
<1>20. ASSUME NEW t \in Closers, CloseRegistry(t) PROVE MutexInv'
  BY ByesAssumption, <1>20 DEF CloseRegistry, Deregister, Unlock, CallUnchanged
<1>21. ASSUME NEW b \in Byes, ByeArrives(b) \/ RespondBye(b) PROVE MutexInv'
  BY ByesAssumption, <1>21 DEF ByeArrives, RespondBye, OthersUnchanged
<1>22. ASSUME NEW b \in Byes, AcceptBye(b) PROVE MutexInv'
  BY ByesAssumption, <1>22 DEF AcceptBye, CcLocked, DropsDialog, ByeCloses, OthersUnchanged
<1>23. CASE TransferCall \/ SendRefer \/ TransferHangup
  BY ByesAssumption, <1>23 DEF TransferCall, SendRefer, TransferHangup, OthersUnchanged
<1>24. CASE StopBegins
  BY ByesAssumption, <1>24 DEF StopBegins, OthersUnchanged
<1>25. CASE StopTakes \/ StopEnds
  BY ByesAssumption, <1>25 DEF StopTakes, StopEnds, OthersUnchanged
<1>26. CASE RoomDisconnects
  BY ByesAssumption, <1>26 DEF RoomDisconnects, OthersUnchanged
<1>27. CASE UNCHANGED vars
  BY ByesAssumption, <1>27 DEF vars
<1> QED BY <1>1, <1>2, <1>3, <1>4, <1>5, <1>6, <1>7, <1>8, <1>9, <1>10, <1>11, <1>12, <1>13,
           <1>14, <1>15, <1>16, <1>17, <1>18, <1>19, <1>20, <1>21, <1>22, <1>23, <1>24, <1>25,
           <1>26, <1>27
    DEF Next, Create, Dial, Close, Stop

\* What is released stays released.
LEMMA ReleaseStep ==
    ASSUME BInv, [Next]_vars
    PROVE  ReleaseInv'
<1> USE DEF BInv, LegInv, TypeInv, ThreadTypes, CloseTypes, CallInv, WireInv, NewInv, StageInv,
            MutexInv, ReleaseInv, InClose, Dialing, Closers, threadVars, closeVars, clientVars,
            heldVars, recVars, wireVars
<1>1. CASE NewMediaPort
  BY ByesAssumption, <1>1 DEF NewMediaPort
<1>2. CASE ConnectToRoom
  BY ByesAssumption, <1>2 DEF ConnectToRoom
<1>3. CASE NewCallFails \/ DialReturns \/ DeferredUpdate
  BY ByesAssumption, <1>3 DEF NewCallFails, DialReturns, DeferredUpdate
<1>4. CASE Register \/ StartDial
  BY ByesAssumption, <1>4 DEF Register, StartDial
<1>5. CASE ConnectSIP
  BY ByesAssumption, <1>5 DEF ConnectSIP, DialUnchanged
<1>6. CASE NewOffer \/ AttemptInvite
  BY ByesAssumption, <1>6 DEF NewOffer, AttemptInvite, Spent, DialUnchanged
<1>7. CASE CalleeResponds
  BY ByesAssumption, <1>7 DEF CalleeResponds, DialUnchanged
<1>8. CASE SipResponse
  BY ByesAssumption, <1>8 DEF SipResponse, DialUnchanged
<1>9. CASE GiveUp \/ MalformedEnds
  BY ByesAssumption, <1>9 DEF GiveUp, MalformedEnds, DialUnchanged
<1>10. CASE MalformedAnswer
  BY ByesAssumption, <1>10 DEF MalformedAnswer, DialUnchanged
<1>11. CASE SetAnswer \/ AckInviteOK
  BY ByesAssumption, <1>11 DEF SetAnswer, AckInviteOK, DialUnchanged
<1>12. CASE WriteDTMF
  BY ByesAssumption, <1>12 DEF WriteDTMF, DialUnchanged
<1>13. CASE DialFails
  BY ByesAssumption, <1>13 DEF DialFails, classifyInviteError, DialUnchanged
<1>14. CASE BecomeActive
  BY ByesAssumption, <1>14 DEF BecomeActive, DialUnchanged
<1>15. CASE WaitClose \/ MediaTimeout
  BY ByesAssumption, <1>15 DEF WaitClose, MediaTimeout, WaitUnchanged, DialUnchanged
<1>16. CASE DialClosed \/ EnsureClosed
  BY ByesAssumption, <1>16 DEF DialClosed, EnsureClosed, DialUnchanged
<1>17. ASSUME NEW t \in Closers, CloseLocks(t) PROVE ReleaseInv'
  BY ByesAssumption, <1>17 DEF CloseLocks, MayLock, CallUnchanged
<1>18. ASSUME NEW t \in Closers, CloseSIP(t) PROVE ReleaseInv'
  BY ByesAssumption, <1>18 DEF CloseSIP, SendsBye, CallUnchanged
<1>19. ASSUME NEW t \in Closers, ByeAnswered(t) \/ CloseMedia(t) \/ CloseRoom(t) PROVE ReleaseInv'
  BY ByesAssumption, <1>19 DEF ByeAnswered, CloseMedia, CloseRoom, CallUnchanged
<1>20. ASSUME NEW t \in Closers, CloseRegistry(t) PROVE ReleaseInv'
  BY ByesAssumption, <1>20 DEF CloseRegistry, Deregister, Unlock, CallUnchanged
<1>21. ASSUME NEW b \in Byes, ByeArrives(b) \/ RespondBye(b) PROVE ReleaseInv'
  BY ByesAssumption, <1>21 DEF ByeArrives, RespondBye, OthersUnchanged
<1>22. ASSUME NEW b \in Byes, AcceptBye(b) PROVE ReleaseInv'
  BY ByesAssumption, <1>22 DEF AcceptBye, CcLocked, DropsDialog, ByeCloses, OthersUnchanged
<1>23. CASE TransferCall \/ SendRefer \/ TransferHangup
  BY ByesAssumption, <1>23 DEF TransferCall, SendRefer, TransferHangup, OthersUnchanged
<1>24. CASE StopBegins
  BY ByesAssumption, <1>24 DEF StopBegins, OthersUnchanged
<1>25. CASE StopTakes \/ StopEnds
  BY ByesAssumption, <1>25 DEF StopTakes, StopEnds, OthersUnchanged
<1>26. CASE RoomDisconnects
  BY ByesAssumption, <1>26 DEF RoomDisconnects, OthersUnchanged
<1>27. CASE UNCHANGED vars
  BY ByesAssumption, <1>27 DEF vars
<1> QED BY <1>1, <1>2, <1>3, <1>4, <1>5, <1>6, <1>7, <1>8, <1>9, <1>10, <1>11, <1>12, <1>13,
           <1>14, <1>15, <1>16, <1>17, <1>18, <1>19, <1>20, <1>21, <1>22, <1>23, <1>24, <1>25,
           <1>26, <1>27
    DEF Next, Create, Dial, Close, Stop

\* The BYEs.
LEMMA CountStep ==
    ASSUME BInv, [Next]_vars
    PROVE  CountInv'
<1> USE DEF BInv, LegInv, TypeInv, ThreadTypes, CloseTypes, CallInv, WireInv, CalleeInv,
            AcceptInv, Answered, StageInv, MutexInv, CountInv, InClose, Dialing, Closers,
            threadVars, closeVars, clientVars, heldVars, recVars, wireVars
<1>1. CASE NewMediaPort
  BY ByesAssumption, <1>1 DEF NewMediaPort
<1>2. CASE ConnectToRoom
  BY ByesAssumption, <1>2 DEF ConnectToRoom
<1>3. CASE NewCallFails \/ DialReturns \/ DeferredUpdate
  BY ByesAssumption, <1>3 DEF NewCallFails, DialReturns, DeferredUpdate
<1>4. CASE Register \/ StartDial
  BY ByesAssumption, <1>4 DEF Register, StartDial
<1>5. CASE ConnectSIP
  BY ByesAssumption, <1>5 DEF ConnectSIP, DialUnchanged
<1>6. CASE NewOffer \/ AttemptInvite
  BY ByesAssumption, <1>6 DEF NewOffer, AttemptInvite, Spent, DialUnchanged
<1>7. CASE CalleeResponds
  BY ByesAssumption, <1>7 DEF CalleeResponds, DialUnchanged
<1>8. CASE SipResponse
  BY ByesAssumption, <1>8 DEF SipResponse, DialUnchanged
<1>9. CASE GiveUp \/ MalformedEnds
  BY ByesAssumption, <1>9 DEF GiveUp, MalformedEnds, DialUnchanged
<1>10. CASE MalformedAnswer
  BY ByesAssumption, <1>10 DEF MalformedAnswer, DialUnchanged
<1>11. CASE SetAnswer \/ AckInviteOK
  BY ByesAssumption, <1>11 DEF SetAnswer, AckInviteOK, DialUnchanged
<1>12. CASE WriteDTMF
  BY ByesAssumption, <1>12 DEF WriteDTMF, DialUnchanged
<1>13. CASE DialFails
  BY ByesAssumption, <1>13 DEF DialFails, classifyInviteError, DialUnchanged
<1>14. CASE BecomeActive
  BY ByesAssumption, <1>14 DEF BecomeActive, DialUnchanged
<1>15. CASE WaitClose \/ MediaTimeout
  BY ByesAssumption, <1>15 DEF WaitClose, MediaTimeout, WaitUnchanged, DialUnchanged
<1>16. CASE DialClosed \/ EnsureClosed
  BY ByesAssumption, <1>16 DEF DialClosed, EnsureClosed, DialUnchanged
<1>17. ASSUME NEW t \in Closers, CloseLocks(t) PROVE CountInv'
  BY ByesAssumption, <1>17 DEF CloseLocks, MayLock, CallUnchanged
<1>18. ASSUME NEW t \in Closers, CloseSIP(t) PROVE CountInv'
  BY ByesAssumption, <1>18 DEF CloseSIP, SendsBye, CallUnchanged
<1>19. ASSUME NEW t \in Closers, ByeAnswered(t) \/ CloseMedia(t) \/ CloseRoom(t) PROVE CountInv'
  BY ByesAssumption, <1>19 DEF ByeAnswered, CloseMedia, CloseRoom, CallUnchanged
<1>20. ASSUME NEW t \in Closers, CloseRegistry(t) PROVE CountInv'
  BY ByesAssumption, <1>20 DEF CloseRegistry, Deregister, Unlock, CallUnchanged
<1>21. ASSUME NEW b \in Byes, ByeArrives(b) \/ RespondBye(b) PROVE CountInv'
  BY ByesAssumption, <1>21 DEF ByeArrives, RespondBye, OthersUnchanged
<1>22. ASSUME NEW b \in Byes, AcceptBye(b) PROVE CountInv'
  BY ByesAssumption, <1>22 DEF AcceptBye, CcLocked, DropsDialog, ByeCloses, OthersUnchanged
<1>23. CASE TransferCall \/ SendRefer \/ TransferHangup
  BY ByesAssumption, <1>23 DEF TransferCall, SendRefer, TransferHangup, OthersUnchanged
<1>24. CASE StopBegins
  BY ByesAssumption, <1>24 DEF StopBegins, OthersUnchanged
<1>25. CASE StopTakes \/ StopEnds
  BY ByesAssumption, <1>25 DEF StopTakes, StopEnds, OthersUnchanged
<1>26. CASE RoomDisconnects
  BY ByesAssumption, <1>26 DEF RoomDisconnects, OthersUnchanged
<1>27. CASE UNCHANGED vars
  BY ByesAssumption, <1>27 DEF vars
<1> QED BY <1>1, <1>2, <1>3, <1>4, <1>5, <1>6, <1>7, <1>8, <1>9, <1>10, <1>11, <1>12, <1>13,
           <1>14, <1>15, <1>16, <1>17, <1>18, <1>19, <1>20, <1>21, <1>22, <1>23, <1>24, <1>25,
           <1>26, <1>27
    DEF Next, Create, Dial, Close, Stop

-----------------------------------------------------------------------------
(* What needs Client.Stop to wait for the dialer *)

\* The dialer is ahead of Client.Stop.
LEMMA PromptStep ==
    ASSUME IInv, ~StopRaces, [Next]_vars
    PROVE  PromptInv'
<1> USE DEF IInv, OrderInv, BInv, LegInv, TypeInv, ThreadTypes, CloseTypes, CallInv, WireInv,
            NewInv, StageInv, MutexInv, PromptInv, StopInv, InClose, Dialing, Closers, threadVars,
            closeVars, clientVars, heldVars, recVars, wireVars
<1>1. CASE NewMediaPort
  BY ByesAssumption, <1>1 DEF NewMediaPort
<1>2. CASE ConnectToRoom
  BY ByesAssumption, <1>2 DEF ConnectToRoom
<1>3. CASE NewCallFails \/ DialReturns \/ DeferredUpdate
  BY ByesAssumption, <1>3 DEF NewCallFails, DialReturns, DeferredUpdate
<1>4. CASE Register \/ StartDial
  BY ByesAssumption, <1>4 DEF Register, StartDial
<1>5. CASE ConnectSIP
  BY ByesAssumption, <1>5 DEF ConnectSIP, DialUnchanged
<1>6. CASE NewOffer \/ AttemptInvite
  BY ByesAssumption, <1>6 DEF NewOffer, AttemptInvite, Spent, DialUnchanged
<1>7. CASE CalleeResponds
  BY ByesAssumption, <1>7 DEF CalleeResponds, DialUnchanged
<1>8. CASE SipResponse
  BY ByesAssumption, <1>8 DEF SipResponse, DialUnchanged
<1>9. CASE GiveUp \/ MalformedEnds
  BY ByesAssumption, <1>9 DEF GiveUp, MalformedEnds, DialUnchanged
<1>10. CASE MalformedAnswer
  BY ByesAssumption, <1>10 DEF MalformedAnswer, DialUnchanged
<1>11. CASE SetAnswer \/ AckInviteOK
  BY ByesAssumption, <1>11 DEF SetAnswer, AckInviteOK, DialUnchanged
<1>12. CASE WriteDTMF
  BY ByesAssumption, <1>12 DEF WriteDTMF, DialUnchanged
<1>13. CASE DialFails
  BY ByesAssumption, <1>13 DEF DialFails, classifyInviteError, DialUnchanged
<1>14. CASE BecomeActive
  BY ByesAssumption, <1>14 DEF BecomeActive, DialUnchanged
<1>15. CASE WaitClose \/ MediaTimeout
  BY ByesAssumption, <1>15 DEF WaitClose, MediaTimeout, WaitUnchanged, DialUnchanged
<1>16. CASE DialClosed \/ EnsureClosed
  BY ByesAssumption, <1>16 DEF DialClosed, EnsureClosed, DialUnchanged
<1>17. ASSUME NEW t \in Closers, CloseLocks(t) PROVE PromptInv'
  BY ByesAssumption, <1>17 DEF CloseLocks, MayLock, CallUnchanged
<1>18. ASSUME NEW t \in Closers, CloseSIP(t) PROVE PromptInv'
  BY ByesAssumption, <1>18 DEF CloseSIP, SendsBye, CallUnchanged
<1>19. ASSUME NEW t \in Closers, ByeAnswered(t) \/ CloseMedia(t) \/ CloseRoom(t) PROVE PromptInv'
  BY ByesAssumption, <1>19 DEF ByeAnswered, CloseMedia, CloseRoom, CallUnchanged
<1>20. ASSUME NEW t \in Closers, CloseRegistry(t) PROVE PromptInv'
  BY ByesAssumption, <1>20 DEF CloseRegistry, Deregister, Unlock, CallUnchanged
<1>21. ASSUME NEW b \in Byes, ByeArrives(b) \/ RespondBye(b) PROVE PromptInv'
  BY ByesAssumption, <1>21 DEF ByeArrives, RespondBye, OthersUnchanged
<1>22. ASSUME NEW b \in Byes, AcceptBye(b) PROVE PromptInv'
  BY ByesAssumption, <1>22 DEF AcceptBye, CcLocked, DropsDialog, ByeCloses, OthersUnchanged
<1>23. CASE TransferCall \/ SendRefer \/ TransferHangup
  BY ByesAssumption, <1>23 DEF TransferCall, SendRefer, TransferHangup, OthersUnchanged
<1>24. CASE StopBegins
  BY ByesAssumption, <1>24 DEF StopBegins, OthersUnchanged
<1>25. CASE StopTakes \/ StopEnds
  BY ByesAssumption, <1>25 DEF StopTakes, StopEnds, OthersUnchanged
<1>26. CASE RoomDisconnects
  BY ByesAssumption, <1>26 DEF RoomDisconnects, OthersUnchanged
<1>27. CASE UNCHANGED vars
  BY ByesAssumption, <1>27 DEF vars
<1> QED BY <1>1, <1>2, <1>3, <1>4, <1>5, <1>6, <1>7, <1>8, <1>9, <1>10, <1>11, <1>12, <1>13,
           <1>14, <1>15, <1>16, <1>17, <1>18, <1>19, <1>20, <1>21, <1>22, <1>23, <1>24, <1>25,
           <1>26, <1>27
    DEF Next, Create, Dial, Close, Stop

\* Client.Stop.
LEMMA StopStep ==
    ASSUME IInv, ~StopRaces, [Next]_vars
    PROVE  StopInv'
<1> USE DEF IInv, OrderInv, BInv, LegInv, TypeInv, ThreadTypes, CloseTypes, CallInv, NewInv,
            StageInv, MutexInv, PromptInv, StopInv, InClose, Dialing, Closers, threadVars,
            closeVars, clientVars, heldVars, recVars, wireVars
<1>1. CASE NewMediaPort
  BY ByesAssumption, <1>1 DEF NewMediaPort
<1>2. CASE ConnectToRoom
  BY ByesAssumption, <1>2 DEF ConnectToRoom
<1>3. CASE NewCallFails \/ DialReturns \/ DeferredUpdate
  BY ByesAssumption, <1>3 DEF NewCallFails, DialReturns, DeferredUpdate
<1>4. CASE Register \/ StartDial
  BY ByesAssumption, <1>4 DEF Register, StartDial
<1>5. CASE ConnectSIP
  BY ByesAssumption, <1>5 DEF ConnectSIP, DialUnchanged
<1>6. CASE NewOffer \/ AttemptInvite
  BY ByesAssumption, <1>6 DEF NewOffer, AttemptInvite, Spent, DialUnchanged
<1>7. CASE CalleeResponds
  BY ByesAssumption, <1>7 DEF CalleeResponds, DialUnchanged
<1>8. CASE SipResponse
  BY ByesAssumption, <1>8 DEF SipResponse, DialUnchanged
<1>9. CASE GiveUp \/ MalformedEnds
  BY ByesAssumption, <1>9 DEF GiveUp, MalformedEnds, DialUnchanged
<1>10. CASE MalformedAnswer
  BY ByesAssumption, <1>10 DEF MalformedAnswer, DialUnchanged
<1>11. CASE SetAnswer \/ AckInviteOK
  BY ByesAssumption, <1>11 DEF SetAnswer, AckInviteOK, DialUnchanged
<1>12. CASE WriteDTMF
  BY ByesAssumption, <1>12 DEF WriteDTMF, DialUnchanged
<1>13. CASE DialFails
  BY ByesAssumption, <1>13 DEF DialFails, classifyInviteError, DialUnchanged
<1>14. CASE BecomeActive
  BY ByesAssumption, <1>14 DEF BecomeActive, DialUnchanged
<1>15. CASE WaitClose \/ MediaTimeout
  BY ByesAssumption, <1>15 DEF WaitClose, MediaTimeout, WaitUnchanged, DialUnchanged
<1>16. CASE DialClosed \/ EnsureClosed
  BY ByesAssumption, <1>16 DEF DialClosed, EnsureClosed, DialUnchanged
<1>17. ASSUME NEW t \in Closers, CloseLocks(t) PROVE StopInv'
  BY ByesAssumption, <1>17 DEF CloseLocks, MayLock, CallUnchanged
<1>18. ASSUME NEW t \in Closers, CloseSIP(t) PROVE StopInv'
  BY ByesAssumption, <1>18 DEF CloseSIP, SendsBye, CallUnchanged
<1>19. ASSUME NEW t \in Closers, ByeAnswered(t) \/ CloseMedia(t) \/ CloseRoom(t) PROVE StopInv'
  BY ByesAssumption, <1>19 DEF ByeAnswered, CloseMedia, CloseRoom, CallUnchanged
<1>20. ASSUME NEW t \in Closers, CloseRegistry(t) PROVE StopInv'
  BY ByesAssumption, <1>20 DEF CloseRegistry, Deregister, Unlock, CallUnchanged
<1>21. ASSUME NEW b \in Byes, ByeArrives(b) \/ RespondBye(b) PROVE StopInv'
  BY ByesAssumption, <1>21 DEF ByeArrives, RespondBye, OthersUnchanged
<1>22. ASSUME NEW b \in Byes, AcceptBye(b) PROVE StopInv'
  BY ByesAssumption, <1>22 DEF AcceptBye, CcLocked, DropsDialog, ByeCloses, OthersUnchanged
<1>23. CASE TransferCall \/ SendRefer \/ TransferHangup
  BY ByesAssumption, <1>23 DEF TransferCall, SendRefer, TransferHangup, OthersUnchanged
<1>24. CASE StopBegins
  BY ByesAssumption, <1>24 DEF StopBegins, OthersUnchanged
<1>25. CASE StopTakes \/ StopEnds
  BY ByesAssumption, <1>25 DEF StopTakes, StopEnds, OthersUnchanged
<1>26. CASE RoomDisconnects
  BY ByesAssumption, <1>26 DEF RoomDisconnects, OthersUnchanged
<1>27. CASE UNCHANGED vars
  BY ByesAssumption, <1>27 DEF vars
<1> QED BY <1>1, <1>2, <1>3, <1>4, <1>5, <1>6, <1>7, <1>8, <1>9, <1>10, <1>11, <1>12, <1>13,
           <1>14, <1>15, <1>16, <1>17, <1>18, <1>19, <1>20, <1>21, <1>22, <1>23, <1>24, <1>25,
           <1>26, <1>27
    DEF Next, Create, Dial, Close, Stop

\* The callee is told.
LEMMA ToldStep ==
    ASSUME IInv, OwnerInv, ~StopRaces, [Next]_vars
    PROVE  ToldInv'
<1> USE DEF IInv, OrderInv, BInv, LegInv, TypeInv, ThreadTypes, CloseTypes, CallInv, WireInv,
            CalleeInv, AcceptInv, Answered, OwnerInv, PromptInv, StageInv, MutexInv, ToldInv,
            Told, InClose, Dialing, Closers, threadVars, closeVars, clientVars, heldVars, recVars,
            wireVars
<1>1. CASE NewMediaPort
  BY ByesAssumption, <1>1 DEF NewMediaPort
<1>2. CASE ConnectToRoom
  BY ByesAssumption, <1>2 DEF ConnectToRoom
<1>3. CASE NewCallFails \/ DialReturns \/ DeferredUpdate
  BY ByesAssumption, <1>3 DEF NewCallFails, DialReturns, DeferredUpdate
<1>4. CASE Register \/ StartDial
  BY ByesAssumption, <1>4 DEF Register, StartDial
<1>5. CASE ConnectSIP
  BY ByesAssumption, <1>5 DEF ConnectSIP, DialUnchanged
<1>6. CASE NewOffer \/ AttemptInvite
  BY ByesAssumption, <1>6 DEF NewOffer, AttemptInvite, Spent, DialUnchanged
<1>7. CASE CalleeResponds
  BY ByesAssumption, <1>7 DEF CalleeResponds, DialUnchanged
<1>8. CASE SipResponse
  BY ByesAssumption, <1>8 DEF SipResponse, DialUnchanged
<1>9. CASE GiveUp \/ MalformedEnds
  BY ByesAssumption, <1>9 DEF GiveUp, MalformedEnds, DialUnchanged
<1>10. CASE MalformedAnswer
  BY ByesAssumption, <1>10 DEF MalformedAnswer, DialUnchanged
<1>11. CASE SetAnswer \/ AckInviteOK
  BY ByesAssumption, <1>11 DEF SetAnswer, AckInviteOK, DialUnchanged
<1>12. CASE WriteDTMF
  BY ByesAssumption, <1>12 DEF WriteDTMF, DialUnchanged
<1>13. CASE DialFails
  BY ByesAssumption, <1>13 DEF DialFails, classifyInviteError, DialUnchanged
<1>14. CASE BecomeActive
  BY ByesAssumption, <1>14 DEF BecomeActive, DialUnchanged
<1>15. CASE WaitClose \/ MediaTimeout
  BY ByesAssumption, <1>15 DEF WaitClose, MediaTimeout, WaitUnchanged, DialUnchanged
<1>16. CASE DialClosed \/ EnsureClosed
  BY ByesAssumption, <1>16 DEF DialClosed, EnsureClosed, DialUnchanged
<1>17. ASSUME NEW t \in Closers, CloseLocks(t) PROVE ToldInv'
  BY ByesAssumption, <1>17 DEF CloseLocks, MayLock, CallUnchanged
<1>18. ASSUME NEW t \in Closers, CloseSIP(t) PROVE ToldInv'
  BY ByesAssumption, <1>18 DEF CloseSIP, SendsBye, CallUnchanged
<1>19. ASSUME NEW t \in Closers, ByeAnswered(t) \/ CloseMedia(t) \/ CloseRoom(t) PROVE ToldInv'
  BY ByesAssumption, <1>19 DEF ByeAnswered, CloseMedia, CloseRoom, CallUnchanged
<1>20. ASSUME NEW t \in Closers, CloseRegistry(t) PROVE ToldInv'
  BY ByesAssumption, <1>20 DEF CloseRegistry, Deregister, Unlock, CallUnchanged
<1>21. ASSUME NEW b \in Byes, ByeArrives(b) \/ RespondBye(b) PROVE ToldInv'
  BY ByesAssumption, <1>21 DEF ByeArrives, RespondBye, OthersUnchanged
<1>22. ASSUME NEW b \in Byes, AcceptBye(b) PROVE ToldInv'
  BY ByesAssumption, <1>22 DEF AcceptBye, CcLocked, DropsDialog, ByeCloses, OthersUnchanged
<1>23. CASE TransferCall \/ SendRefer \/ TransferHangup
  BY ByesAssumption, <1>23 DEF TransferCall, SendRefer, TransferHangup, OthersUnchanged
<1>24. CASE StopBegins
  BY ByesAssumption, <1>24 DEF StopBegins, OthersUnchanged
<1>25. CASE StopTakes \/ StopEnds
  BY ByesAssumption, <1>25 DEF StopTakes, StopEnds, OthersUnchanged
<1>26. CASE RoomDisconnects
  BY ByesAssumption, <1>26 DEF RoomDisconnects, OthersUnchanged
<1>27. CASE UNCHANGED vars
  BY ByesAssumption, <1>27 DEF vars
<1> QED BY <1>1, <1>2, <1>3, <1>4, <1>5, <1>6, <1>7, <1>8, <1>9, <1>10, <1>11, <1>12, <1>13,
           <1>14, <1>15, <1>16, <1>17, <1>18, <1>19, <1>20, <1>21, <1>22, <1>23, <1>24, <1>25,
           <1>26, <1>27
    DEF Next, Create, Dial, Close, Stop

\* What is held is released by close() alone.
LEMMA HoldStep ==
    ASSUME IInv, OwnerInv, ~StopRaces, [Next]_vars
    PROVE  HoldInv'
<1> USE DEF IInv, OrderInv, BInv, LegInv, TypeInv, ThreadTypes, CloseTypes, CallInv, OwnerInv,
            PromptInv, NewInv, StageInv, MutexInv, HoldInv, InClose, Dialing, Closers, threadVars,
            closeVars, clientVars, heldVars, recVars, wireVars
<1>1. CASE NewMediaPort
  BY ByesAssumption, <1>1 DEF NewMediaPort
<1>2. CASE ConnectToRoom
  BY ByesAssumption, <1>2 DEF ConnectToRoom
<1>3. CASE NewCallFails \/ DialReturns \/ DeferredUpdate
  BY ByesAssumption, <1>3 DEF NewCallFails, DialReturns, DeferredUpdate
<1>4. CASE Register \/ StartDial
  BY ByesAssumption, <1>4 DEF Register, StartDial
<1>5. CASE ConnectSIP
  BY ByesAssumption, <1>5 DEF ConnectSIP, DialUnchanged
<1>6. CASE NewOffer \/ AttemptInvite
  BY ByesAssumption, <1>6 DEF NewOffer, AttemptInvite, Spent, DialUnchanged
<1>7. CASE CalleeResponds
  BY ByesAssumption, <1>7 DEF CalleeResponds, DialUnchanged
<1>8. CASE SipResponse
  BY ByesAssumption, <1>8 DEF SipResponse, DialUnchanged
<1>9. CASE GiveUp \/ MalformedEnds
  BY ByesAssumption, <1>9 DEF GiveUp, MalformedEnds, DialUnchanged
<1>10. CASE MalformedAnswer
  BY ByesAssumption, <1>10 DEF MalformedAnswer, DialUnchanged
<1>11. CASE SetAnswer \/ AckInviteOK
  BY ByesAssumption, <1>11 DEF SetAnswer, AckInviteOK, DialUnchanged
<1>12. CASE WriteDTMF
  BY ByesAssumption, <1>12 DEF WriteDTMF, DialUnchanged
<1>13. CASE DialFails
  BY ByesAssumption, <1>13 DEF DialFails, classifyInviteError, DialUnchanged
<1>14. CASE BecomeActive
  BY ByesAssumption, <1>14 DEF BecomeActive, DialUnchanged
<1>15. CASE WaitClose \/ MediaTimeout
  BY ByesAssumption, <1>15 DEF WaitClose, MediaTimeout, WaitUnchanged, DialUnchanged
<1>16. CASE DialClosed \/ EnsureClosed
  BY ByesAssumption, <1>16 DEF DialClosed, EnsureClosed, DialUnchanged
<1>17. ASSUME NEW t \in Closers, CloseLocks(t) PROVE HoldInv'
  BY ByesAssumption, <1>17 DEF CloseLocks, MayLock, CallUnchanged
<1>18. ASSUME NEW t \in Closers, CloseSIP(t) PROVE HoldInv'
  BY ByesAssumption, <1>18 DEF CloseSIP, SendsBye, CallUnchanged
<1>19. ASSUME NEW t \in Closers, ByeAnswered(t) \/ CloseMedia(t) \/ CloseRoom(t) PROVE HoldInv'
  BY ByesAssumption, <1>19 DEF ByeAnswered, CloseMedia, CloseRoom, CallUnchanged
<1>20. ASSUME NEW t \in Closers, CloseRegistry(t) PROVE HoldInv'
  BY ByesAssumption, <1>20 DEF CloseRegistry, Deregister, Unlock, CallUnchanged
<1>21. ASSUME NEW b \in Byes, ByeArrives(b) \/ RespondBye(b) PROVE HoldInv'
  BY ByesAssumption, <1>21 DEF ByeArrives, RespondBye, OthersUnchanged
<1>22. ASSUME NEW b \in Byes, AcceptBye(b) PROVE HoldInv'
  BY ByesAssumption, <1>22 DEF AcceptBye, CcLocked, DropsDialog, ByeCloses, OthersUnchanged
<1>23. CASE TransferCall \/ SendRefer \/ TransferHangup
  BY ByesAssumption, <1>23 DEF TransferCall, SendRefer, TransferHangup, OthersUnchanged
<1>24. CASE StopBegins
  BY ByesAssumption, <1>24 DEF StopBegins, OthersUnchanged
<1>25. CASE StopTakes \/ StopEnds
  BY ByesAssumption, <1>25 DEF StopTakes, StopEnds, OthersUnchanged
<1>26. CASE RoomDisconnects
  BY ByesAssumption, <1>26 DEF RoomDisconnects, OthersUnchanged
<1>27. CASE UNCHANGED vars
  BY ByesAssumption, <1>27 DEF vars
<1> QED BY <1>1, <1>2, <1>3, <1>4, <1>5, <1>6, <1>7, <1>8, <1>9, <1>10, <1>11, <1>12, <1>13,
           <1>14, <1>15, <1>16, <1>17, <1>18, <1>19, <1>20, <1>21, <1>22, <1>23, <1>24, <1>25,
           <1>26, <1>27
    DEF Next, Create, Dial, Close, Stop

\* Every step is one of the abstract leg's, or none.
LEMMA LegMoveStep ==
    ASSUME LegInv, [Next]_vars
    PROVE  LegMove
<1> USE DEF LegInv, TypeInv, CloseTypes, Closers, WireInv, CalleeInv, Answered, Phase,
            ByeAccepted, LegMove, Rests, Answers, HangsUp, PeerHangsUp, ShutsDown, threadVars,
            closeVars, clientVars, heldVars, recVars, wireVars
<1>1. CASE NewMediaPort
  BY ByesAssumption, <1>1 DEF NewMediaPort
<1>2. CASE ConnectToRoom
  BY ByesAssumption, <1>2 DEF ConnectToRoom
<1>3. CASE NewCallFails \/ DialReturns \/ DeferredUpdate
  BY ByesAssumption, <1>3 DEF NewCallFails, DialReturns, DeferredUpdate
<1>4. CASE Register \/ StartDial
  BY ByesAssumption, <1>4 DEF Register, StartDial
<1>5. CASE ConnectSIP
  BY ByesAssumption, <1>5 DEF ConnectSIP, DialUnchanged
<1>6. CASE NewOffer \/ AttemptInvite
  BY ByesAssumption, <1>6 DEF NewOffer, AttemptInvite, Spent, DialUnchanged
<1>7. CASE CalleeResponds
  BY ByesAssumption, <1>7 DEF CalleeResponds, DialUnchanged
<1>8. CASE SipResponse
  BY ByesAssumption, <1>8 DEF SipResponse, DialUnchanged
<1>9. CASE GiveUp \/ MalformedEnds
  BY ByesAssumption, <1>9 DEF GiveUp, MalformedEnds, DialUnchanged
<1>10. CASE MalformedAnswer
  BY ByesAssumption, <1>10 DEF MalformedAnswer, DialUnchanged
<1>11. CASE SetAnswer \/ AckInviteOK
  BY ByesAssumption, <1>11 DEF SetAnswer, AckInviteOK, DialUnchanged
<1>12. CASE WriteDTMF
  BY ByesAssumption, <1>12 DEF WriteDTMF, DialUnchanged
<1>13. CASE DialFails
  BY ByesAssumption, <1>13 DEF DialFails, classifyInviteError, DialUnchanged
<1>14. CASE BecomeActive
  BY ByesAssumption, <1>14 DEF BecomeActive, DialUnchanged
<1>15. CASE WaitClose \/ MediaTimeout
  <2>1. CASE WaitClose
    BY ByesAssumption, <2>1 DEF WaitClose, WaitUnchanged, DialUnchanged
  <2>2. CASE MediaTimeout
    BY ByesAssumption, <2>2 DEF MediaTimeout, WaitUnchanged, DialUnchanged
  <2> QED BY <1>15, <2>1, <2>2
<1>16. CASE DialClosed \/ EnsureClosed
  BY ByesAssumption, <1>16 DEF DialClosed, EnsureClosed, DialUnchanged
<1>17. ASSUME NEW t \in Closers, CloseLocks(t) PROVE LegMove
  BY ByesAssumption, <1>17 DEF CloseLocks, MayLock, CallUnchanged
<1>18. ASSUME NEW t \in Closers, CloseSIP(t) PROVE LegMove
  BY ByesAssumption, <1>18 DEF CloseSIP, SendsBye, CallUnchanged
<1>19. ASSUME NEW t \in Closers, ByeAnswered(t) \/ CloseMedia(t) \/ CloseRoom(t) PROVE LegMove
  <2>1. CASE ByeAnswered(t)
    BY ByesAssumption, <2>1 DEF ByeAnswered, CallUnchanged
  <2>2. CASE CloseMedia(t)
    BY ByesAssumption, <2>2 DEF CloseMedia, CallUnchanged
  <2>3. CASE CloseRoom(t)
    BY ByesAssumption, <2>3 DEF CloseRoom, CallUnchanged
  <2> QED BY <1>19, <2>1, <2>2, <2>3
<1>20. ASSUME NEW t \in Closers, CloseRegistry(t) PROVE LegMove
  BY ByesAssumption, <1>20 DEF CloseRegistry, Deregister, Unlock, CallUnchanged
<1>21. ASSUME NEW b \in Byes, ByeArrives(b) \/ RespondBye(b) PROVE LegMove
  <2>1. CASE ByeArrives(b)
    BY ByesAssumption, <2>1 DEF ByeArrives, OthersUnchanged
  <2>2. CASE RespondBye(b)
    BY ByesAssumption, <2>2 DEF RespondBye, OthersUnchanged
  <2> QED BY <1>21, <2>1, <2>2
<1>22. ASSUME NEW b \in Byes, AcceptBye(b) PROVE LegMove
  BY ByesAssumption, <1>22 DEF AcceptBye, CcLocked, DropsDialog, ByeCloses, OthersUnchanged
<1>23. CASE TransferCall \/ SendRefer \/ TransferHangup
  <2>1. CASE TransferCall
    BY ByesAssumption, <2>1 DEF TransferCall, OthersUnchanged
  <2>2. CASE SendRefer
    BY ByesAssumption, <2>2 DEF SendRefer, OthersUnchanged
  <2>3. CASE TransferHangup
    BY ByesAssumption, <2>3 DEF TransferHangup, OthersUnchanged
  <2> QED BY <1>23, <2>1, <2>2, <2>3
<1>24. CASE StopBegins
  BY ByesAssumption, <1>24 DEF StopBegins, OthersUnchanged
<1>25. CASE StopTakes \/ StopEnds
  <2>1. CASE StopTakes
    BY ByesAssumption, <2>1 DEF StopTakes, OthersUnchanged
  <2>2. CASE StopEnds
    BY ByesAssumption, <2>2 DEF StopEnds, OthersUnchanged
  <2> QED BY <1>25, <2>1, <2>2
<1>26. CASE RoomDisconnects
  BY ByesAssumption, <1>26 DEF RoomDisconnects, OthersUnchanged
<1>27. CASE UNCHANGED vars
  BY ByesAssumption, <1>27 DEF vars
<1> QED BY <1>1, <1>2, <1>3, <1>4, <1>5, <1>6, <1>7, <1>8, <1>9, <1>10, <1>11, <1>12, <1>13,
           <1>14, <1>15, <1>16, <1>17, <1>18, <1>19, <1>20, <1>21, <1>22, <1>23, <1>24, <1>25,
           <1>26, <1>27
    DEF Next, Create, Dial, Close, Stop

\* Nobody dereferences nil who finds the SIP client.
LEMMA CrashStep ==
    ASSUME ~crashed, ~PortsRunOut,
           dial = "invite" => sipCli, cl["hangup"] = "refer" => sipCli, [Next]_vars
    PROVE  ~crashed'
<1> USE DEF threadVars, closeVars, clientVars, heldVars, recVars, wireVars
<1>1. CASE NewMediaPort
  BY <1>1 DEF NewMediaPort
<1>2. CASE ConnectToRoom
  BY <1>2 DEF ConnectToRoom
<1>3. CASE NewCallFails \/ DialReturns \/ DeferredUpdate
  BY <1>3 DEF NewCallFails, DialReturns, DeferredUpdate
<1>4. CASE Register \/ StartDial
  BY <1>4 DEF Register, StartDial
<1>5. CASE ConnectSIP
  BY <1>5 DEF ConnectSIP, DialUnchanged
<1>6. CASE NewOffer \/ AttemptInvite
  BY <1>6 DEF NewOffer, AttemptInvite, Spent, DialUnchanged
<1>7. CASE CalleeResponds
  BY <1>7 DEF CalleeResponds, DialUnchanged
<1>8. CASE SipResponse
  BY <1>8 DEF SipResponse, DialUnchanged
<1>9. CASE GiveUp \/ MalformedEnds
  BY <1>9 DEF GiveUp, MalformedEnds, DialUnchanged
<1>10. CASE MalformedAnswer
  BY <1>10 DEF MalformedAnswer, DialUnchanged
<1>11. CASE SetAnswer \/ AckInviteOK
  BY <1>11 DEF SetAnswer, AckInviteOK, DialUnchanged
<1>12. CASE WriteDTMF
  BY <1>12 DEF WriteDTMF, DialUnchanged
<1>13. CASE DialFails
  BY <1>13 DEF DialFails, classifyInviteError, DialUnchanged
<1>14. CASE BecomeActive
  BY <1>14 DEF BecomeActive, DialUnchanged
<1>15. CASE WaitClose \/ MediaTimeout
  BY <1>15 DEF WaitClose, MediaTimeout, WaitUnchanged, DialUnchanged
<1>16. CASE DialClosed \/ EnsureClosed
  BY <1>16 DEF DialClosed, EnsureClosed, DialUnchanged
<1>17. ASSUME NEW t \in Closers, CloseLocks(t) PROVE ~crashed'
  BY <1>17 DEF CloseLocks, MayLock, CallUnchanged
<1>18. ASSUME NEW t \in Closers, CloseSIP(t) PROVE ~crashed'
  BY <1>18 DEF CloseSIP, SendsBye, CallUnchanged
<1>19. ASSUME NEW t \in Closers, ByeAnswered(t) \/ CloseMedia(t) \/ CloseRoom(t) PROVE ~crashed'
  BY <1>19 DEF ByeAnswered, CloseMedia, CloseRoom, CallUnchanged
<1>20. ASSUME NEW t \in Closers, CloseRegistry(t) PROVE ~crashed'
  BY <1>20 DEF CloseRegistry, Deregister, Unlock, CallUnchanged
<1>21. ASSUME NEW b \in Byes, ByeArrives(b) \/ RespondBye(b) PROVE ~crashed'
  BY <1>21 DEF ByeArrives, RespondBye, OthersUnchanged
<1>22. ASSUME NEW b \in Byes, AcceptBye(b) PROVE ~crashed'
  BY <1>22 DEF AcceptBye, CcLocked, DropsDialog, ByeCloses, OthersUnchanged
<1>23. CASE TransferCall \/ SendRefer \/ TransferHangup
  BY <1>23 DEF TransferCall, SendRefer, TransferHangup, OthersUnchanged
<1>24. CASE StopBegins
  BY <1>24 DEF StopBegins, OthersUnchanged
<1>25. CASE StopTakes \/ StopEnds
  BY <1>25 DEF StopTakes, StopEnds, OthersUnchanged
<1>26. CASE RoomDisconnects
  BY <1>26 DEF RoomDisconnects, OthersUnchanged
<1>27. CASE UNCHANGED vars
  BY <1>27 DEF vars
<1> QED BY <1>1, <1>2, <1>3, <1>4, <1>5, <1>6, <1>7, <1>8, <1>9, <1>10, <1>11, <1>12, <1>13,
           <1>14, <1>15, <1>16, <1>17, <1>18, <1>19, <1>20, <1>21, <1>22, <1>23, <1>24, <1>25,
           <1>26, <1>27
    DEF Next, Create, Dial, Close, Stop

\* sendBye comes before the port and the room are closed.
LEMMA ByeStep ==
    ASSUME IInv, OwnerInv, ~StopRaces, [Next]_vars
    PROVE  AttrsMove
<1> USE DEF AttrsMove, threadVars, closeVars, clientVars, heldVars, recVars, wireVars
<1>1. CASE NewMediaPort
  BY <1>1 DEF NewMediaPort
<1>2. CASE ConnectToRoom
  BY <1>2 DEF ConnectToRoom
<1>3. CASE NewCallFails \/ DialReturns \/ DeferredUpdate
  BY <1>3 DEF NewCallFails, DialReturns, DeferredUpdate
<1>4. CASE Register \/ StartDial
  BY <1>4 DEF Register, StartDial
<1>5. CASE ConnectSIP
  BY <1>5 DEF ConnectSIP, DialUnchanged
<1>6. CASE NewOffer \/ AttemptInvite
  BY <1>6 DEF NewOffer, AttemptInvite, Spent, DialUnchanged
<1>7. CASE CalleeResponds
  BY <1>7 DEF CalleeResponds, DialUnchanged
<1>8. CASE SipResponse
  BY <1>8 DEF SipResponse, DialUnchanged
<1>9. CASE GiveUp \/ MalformedEnds
  BY <1>9 DEF GiveUp, MalformedEnds, DialUnchanged
<1>10. CASE MalformedAnswer
  <2>1. dial = "malformed" /\ mu = "dial" /\ ~stopped /\ \A t \in Closers : ~InClose(t)
    BY <1>10 DEF MalformedAnswer, IInv, OrderInv, PromptInv, BInv, CallInv, StageInv, MutexInv,
       Dialing,
                          InClose
  <2> QED BY <2>1 DEF OwnerInv, HoldInv, InClose
<1>11. CASE SetAnswer \/ AckInviteOK
  BY <1>11 DEF SetAnswer, AckInviteOK, DialUnchanged
<1>12. CASE WriteDTMF
  BY <1>12 DEF WriteDTMF, DialUnchanged
<1>13. CASE DialFails
  BY <1>13 DEF DialFails, classifyInviteError, DialUnchanged
<1>14. CASE BecomeActive
  BY <1>14 DEF BecomeActive, DialUnchanged
<1>15. CASE WaitClose \/ MediaTimeout
  BY <1>15 DEF WaitClose, MediaTimeout, WaitUnchanged, DialUnchanged
<1>16. CASE DialClosed \/ EnsureClosed
  BY <1>16 DEF DialClosed, EnsureClosed, DialUnchanged
<1>17. ASSUME NEW t \in Closers, CloseLocks(t) PROVE AttrsMove
  BY <1>17 DEF CloseLocks, MayLock, CallUnchanged
<1>18. ASSUME NEW t \in Closers, CloseSIP(t) PROVE AttrsMove
  <2>1. CASE ~dialog
    BY <1>18, <2>1 DEF CloseSIP
  <2>2. CASE dialog
    <3>1. dial # "none"
      BY <2>2 DEF IInv, BInv, LegInv, WireInv, CalleeInv
    <3>2. ~stopped /\ \A u \in Closers : InClose(u) => u = t
      BY <1>18, <3>1 DEF CloseSIP, IInv, BInv, CallInv, StageInv, MutexInv, InClose
    <3> QED BY <1>18, <3>1, <3>2 DEF CloseSIP, OwnerInv, HoldInv, InClose
  <2> QED BY <2>1, <2>2
<1>19. ASSUME NEW t \in Closers, ByeAnswered(t) \/ CloseMedia(t) \/ CloseRoom(t) PROVE AttrsMove
  BY <1>19 DEF ByeAnswered, CloseMedia, CloseRoom, CallUnchanged
<1>20. ASSUME NEW t \in Closers, CloseRegistry(t) PROVE AttrsMove
  BY <1>20 DEF CloseRegistry, Deregister, Unlock, CallUnchanged
<1>21. ASSUME NEW b \in Byes, ByeArrives(b) \/ RespondBye(b) PROVE AttrsMove
  BY <1>21 DEF ByeArrives, RespondBye, OthersUnchanged
<1>22. ASSUME NEW b \in Byes, AcceptBye(b) PROVE AttrsMove
  BY <1>22 DEF AcceptBye, CcLocked, DropsDialog, ByeCloses, OthersUnchanged
<1>23. CASE TransferCall \/ SendRefer \/ TransferHangup
  BY <1>23 DEF TransferCall, SendRefer, TransferHangup, OthersUnchanged
<1>24. CASE StopBegins
  BY <1>24 DEF StopBegins, OthersUnchanged
<1>25. CASE StopTakes \/ StopEnds
  BY <1>25 DEF StopTakes, StopEnds, OthersUnchanged
<1>26. CASE RoomDisconnects
  BY <1>26 DEF RoomDisconnects, OthersUnchanged
<1>27. CASE UNCHANGED vars
  BY <1>27 DEF vars
<1> QED BY <1>1, <1>2, <1>3, <1>4, <1>5, <1>6, <1>7, <1>8, <1>9, <1>10, <1>11, <1>12, <1>13,
           <1>14, <1>15, <1>16, <1>17, <1>18, <1>19, <1>20, <1>21, <1>22, <1>23, <1>24, <1>25,
           <1>26, <1>27
    DEF Next, Create, Dial, Close, Stop

-----------------------------------------------------------------------------
(* The invariants hold throughout *)

LEMMA LegInvariant == Spec => []LegInv
<1>1. Init => Flags
  BY Zenon DEF Init, Flags, CallFlags, RoomFlags, WireFlags
<1>2. Init => ThreadTypes /\ CloseTypes /\ HeldTypes /\ WireInv /\ CalleeInv /\ AcceptInv
  BY TriesAssumption
     DEF Init, ThreadTypes, CloseTypes, HeldTypes, WireInv, CalleeInv, AcceptInv, Answered, Closers,
         CloseStep, CalleeStep
<1>3. LegInv /\ [Next]_vars => LegInv'
  BY CallFlagsStep, RoomFlagsStep, WireFlagsStep, ThreadTypesStep, CloseTypesStep, HeldTypesStep,
     WireStep, CalleeMoveStep, AcceptStep DEF LegInv, TypeInv, Flags
<1> QED BY <1>1, <1>2, <1>3, PTL DEF Spec, LegInv, TypeInv

LEMMA BaseInvariant == Spec => []BInv
<1>1. Init => CallInv
  BY ByesAssumption
     DEF Init, CallInv, NewInv, StageInv, MutexInv, ReleaseInv, CountInv, InClose, Dialing, Closers
<1>2. LegInv /\ CallInv /\ [Next]_vars => CallInv'
  BY NewStep, StageStep, MutexStep, ReleaseStep, CountStep DEF BInv, CallInv
<1> QED BY <1>1, <1>2, LegInvariant, PTL DEF Spec, BInv

LEMMA CallInvariant ==
    ASSUME ~StopRaces
    PROVE  Spec => []IInv
<1>1. Init => OrderInv
  BY ByesAssumption DEF Init, OrderInv, PromptInv, StopInv, InClose, Dialing, Closers
<1>2. BInv /\ OrderInv /\ [Next]_vars => OrderInv'
  BY PromptStep, StopStep DEF IInv, OrderInv
<1> QED BY <1>1, <1>2, BaseInvariant, PTL DEF Spec, IInv

LEMMA OwnerInvariant ==
    ASSUME ~StopRaces
    PROVE  Spec => [](IInv /\ OwnerInv)
<1>1. Init => OwnerInv
  BY DEF Init, OwnerInv, ToldInv, Told, HoldInv, Closers
<1>2. IInv /\ OwnerInv /\ [Next]_vars => OwnerInv'
  BY ToldStep, HoldStep DEF OwnerInv
<1> QED BY <1>1, <1>2, CallInvariant, PTL DEF Spec

-----------------------------------------------------------------------------
(* The theorems *)

\* The fields of outboundCall, sipOutbound, Client and CallState keep their
\* types, also when Client.Stop races; no call sends more than two BYEs.
THEOREM OutboundTypeCorrect == Spec => []TypeOK
<1>1. Flags => {sync, crashed, closing, sipCli, registered, stopped, dialog, roomConn, roomGone,
                topic, recErr, hungUp} \subseteq BOOLEAN
  BY Zenon DEF Flags, CallFlags, RoomFlags, WireFlags
<1>2. WireInv /\ CountInv => byes \in 0..2
  BY DEF WireInv, CountInv
<1>3. BInv => TypeOK
  BY <1>1, <1>2, Zenon
     DEF BInv, LegInv, CallInv, TypeInv, ThreadTypes, CloseTypes, HeldTypes, TypeOK
<1> QED BY <1>3, BaseInvariant, PTL

\* The outbound call implements the abstract call leg, whenever Client.Stop
\* comes and whatever runs out: no lock is needed for what the callee sees.
THEOREM OutboundImplementsCallLeg == Spec => ImplementsCallLeg
<1>1. Init => Leg!Init
  BY DEF Init, Leg!Init, Answered, ByeAccepted, Closers
<1>2. ASSUME LegInv, [Next]_vars
      PROVE  [Leg!Next]_(Leg!legVars)
  <2>1. LegMove
    BY <1>2, LegMoveStep
  <2>2. CASE Rests
    BY <2>2 DEF Rests, Phase, Leg!legVars
  <2>3. CASE Answers
    BY <2>3 DEF Answers, Phase, Leg!Next, Leg!Answer, Leg!Provisional
  <2>4. CASE HangsUp
    BY <2>4 DEF HangsUp, Phase, Leg!Next, Leg!HangUp
  <2>5. CASE PeerHangsUp
    BY <2>5 DEF PeerHangsUp, Phase, Leg!Next, Leg!PeerHangsUp, Leg!DropDialog
  <2>6. CASE ShutsDown
    BY <2>6 DEF ShutsDown, Phase, Leg!Next, Leg!ShutDown
  <2> QED BY <2>1, <2>2, <2>3, <2>4, <2>5, <2>6 DEF LegMove
<1> QED BY <1>1, <1>2, LegInvariant, PTL DEF Spec, ImplementsCallLeg, Leg!Spec

\* Whichever thread ends the call, and wherever dialing failed, a callee whose
\* 200 we read is not left in a dialog that nobody ends; a 200 that was never
\* read has failed the dial.
THEOREM CalleeAlwaysTold ==
    ASSUME ~StopRaces
    PROVE  Spec => []CalleeIsTold
<1>1. IInv /\ OwnerInv => CalleeIsTold
  BY DEF IInv, BInv, LegInv, WireInv, CalleeInv, CallInv, StageInv, OwnerInv, ToldInv, Told,
         CalleeIsTold, Answered, Over
<1> QED BY <1>1, OwnerInvariant, PTL

\* A call that is over holds nothing, whether or not it was ever dialed, and
\* also when Client.Stop closed it before the dialer came.
THEOREM OutboundReleased == Spec => []Released
<1>1. BInv /\ Over => stopped
  BY DEF BInv, CallInv, NewInv, StageInv, Over
<1>2. BInv /\ Over => mu = "free"
  BY DEF BInv, CallInv, NewInv, MutexInv, InClose, Dialing, Over, LegInv, TypeInv, CloseTypes
<1>3. BInv => Released
  BY <1>1, <1>2 DEF Released, BInv, CallInv, ReleaseInv
<1> QED BY <1>3, BaseInvariant, PTL

\* As long as a media port can be had, no thread finds the SIP client gone.
THEOREM ClientOutlivesCall ==
    ASSUME ~StopRaces, ~PortsRunOut
    PROVE  Spec => []NoNilDeref
<1>1. Init => ~crashed
  BY DEF Init
<1>2. IInv => /\ dial \in {"invite", "response", "malformed", "hangup", "ack"} => sipCli
              /\ \A t \in Closers : (cl[t] = "sip" /\ dialog) \/ cl[t] = "byewait" => sipCli
              /\ cl["hangup"] = "refer" => sipCli
  BY DEF IInv, BInv, CallInv, StageInv, MutexInv, OrderInv, PromptInv, StopInv, InClose, Dialing
<1>3. IInv /\ ~crashed /\ [Next]_vars => ~crashed'
  BY <1>2, CrashStep
<1> QED BY <1>1, <1>2, <1>3, CallInvariant, PTL DEF Spec, NoNilDeref

\* When BYE is sent, the room and the port are there for its headers.
THEOREM AttrsAtBye ==
    ASSUME ~StopRaces
    PROVE  Spec => AttrsInBye
<1>1. IInv /\ OwnerInv /\ [Next]_vars => [byes' > byes => roomConn /\ port = "open"]_vars
  BY ByeStep DEF AttrsMove, IInv, BInv, LegInv, WireInv
<1> QED BY <1>1, OwnerInvariant, PTL DEF Spec, AttrsInBye
=============================================================================
