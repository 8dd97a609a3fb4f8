------------------------- MODULE InboundCallProofs -------------------------
(***************************************************************************)
(* Theorems about InboundCall, for every set of BYE requests, every retry  *)
(* limit and every combination of the configuration flags.                 *)
(***************************************************************************)
EXTENDS InboundCall, TLAPS

-----------------------------------------------------------------------------
(* Type correctness.  One lemma per part of TypeOK. *)

\* close() is entered by the handler through HandlerCloses alone.
LEMMA HandlerCourse ==
    Handler \/ PinPrompt \/ WaitForCallEnd =>
        \/ UNCHANGED closeVars /\ UNCHANGED callVars
        \/ UNCHANGED callVars /\ \E reason \in Reasons : \E err : HandlerCloses(reason, err)
BY Zenon DEF Handler, Reasons, StartRinging, Goto, Dispatch, RunMedia, AcceptBegin,
             AcceptSend, AcceptReturns, AcceptFails, AcceptWait, RetriesOver,
             WaitMedia, HangupCases, RoomClosedCase, MediaTimeoutCloses,
             SelectUnchanged, JoinRoom, ConnectRoom, ConnectFails, PublishTrack,
             WaitSubscribe, Subscribed, BecomeActive, HandlerClosed, HandlerReturn,
             PinPrompt, WaitForCallEnd

\* The flags of sipInbound stay Boolean.
LEMMA LegFlagsStep == LegFlags /\ [Next]_vars => LegFlags'
<1> SUFFICES ASSUME LegFlags, [Next]_vars PROVE LegFlags'
  OBVIOUS
<1> USE DEF LegFlags, dialogVars, eventVars
<1>1. CASE Handler
  <2>1. CASE StartRinging \/ Dispatch \/ RunMedia
    BY <2>1, Zenon
       DEF StartRinging, Goto, Dispatch, RespondAndDrop, Respond, Drop, HandlerCloses, RunMedia
  <2>2. CASE AcceptBegin \/ AcceptSend \/ AcceptWait
    BY <2>2, Zenon
       DEF AcceptBegin, AcceptSend, AcceptReturns, AcceptFails, Accepted, AcceptWait,
           RetriesOver, Goto, Respond, Drop, HandlerCloses
  <2>3. CASE WaitMedia \/ WaitSubscribe
    BY <2>3, Zenon
       DEF WaitMedia, HangupCases, RoomClosedCase, MediaTimeoutCloses, ReasonRecorded,
           SelectUnchanged, WaitSubscribe, Subscribed, Goto, HandlerCloses
  <2>4. CASE JoinRoom \/ ConnectRoom \/ PublishTrack
    BY <2>4, Zenon
       DEF JoinRoom, ConnectRoom, ConnectFails, PublishTrack, CloseRoomOnce, ReasonRecorded,
           SelectUnchanged, Goto, HandlerCloses
  <2>5. CASE BecomeActive \/ HandlerClosed \/ HandlerReturn
    BY <2>5, Zenon
       DEF BecomeActive, HandlerClosed, HandlerReturn, SelectUnchanged, Goto, HandlerCloses
  <2> QED BY <1>1, <2>1, <2>2, <2>3, <2>4, <2>5 DEF Handler
<1>2. CASE PinPrompt \/ WaitForCallEnd
  BY <1>2, Zenon
     DEF PinPrompt, HangupCases, MediaTimeoutCloses, ReasonRecorded, SelectUnchanged, Goto,
         HandlerCloses, WaitForCallEnd
<1>3. ASSUME NEW t \in Closers, Close(t) PROVE LegFlags'
  BY <1>3, Zenon
     DEF Close, CloseCAS, AlreadyClosed, CloseGoto, CloseWithStatus, Established, Drop, Respond,
         ByeAnswered, CloseRoom, CloseRoomOnce, CloseMediaPort, CloseRegistry, Deregister,
         CloseCancel
<1>4. CASE ServerStop \/ Ringer \/ AckArrives \/ TxAckArrives
  BY <1>4, Zenon
     DEF Ringer, ServerStop, RingerStops, CallUnchanged, RingerTick, RingerSend, Respond,
         RingerCancel, AckArrives, TxAckArrives
<1>5. ASSUME NEW b \in Byes, ByeArrives(b) \/ OnBye(b) PROVE LegFlags'
  BY <1>5, Zenon
     DEF OnBye, ByeArrives, LegUnchanged, AcceptBye, Drop, ByeCancels
<1>6. CASE TransferHangup \/ MaxDuration \/ RoomDisconnects
  BY <1>6, Zenon
     DEF TransferHangup, LegUnchanged, MaxDuration, RoomDisconnects
<1>7. CASE UNCHANGED vars
  BY <1>7, Zenon DEF vars
<1> QED BY <1>1, <1>2, <1>3, <1>4, <1>5, <1>6, <1>7 DEF Next

\* So do those of the handler and of inboundCall,
LEMMA CallFlagsStep == CallFlags /\ [Next]_vars => CallFlags'
<1> SUFFICES ASSUME CallFlags, [Next]_vars PROVE CallFlags'
  OBVIOUS
<1> USE DEF CallFlags, handlerVars, callVars
<1>1. CASE Handler
  <2>1. CASE StartRinging \/ Dispatch \/ RunMedia
    BY <2>1, Zenon
       DEF StartRinging, Goto, Dispatch, RespondAndDrop, Respond, Drop, HandlerCloses, RunMedia
  <2>2. CASE AcceptBegin \/ AcceptSend \/ AcceptWait
    BY <2>2, Zenon
       DEF AcceptBegin, AcceptSend, AcceptReturns, AcceptFails, Accepted, AcceptWait,
           RetriesOver, Goto, Respond, Drop, HandlerCloses
  <2>3. CASE WaitMedia \/ WaitSubscribe
    BY <2>3, Zenon
       DEF WaitMedia, HangupCases, RoomClosedCase, MediaTimeoutCloses, ReasonRecorded,
           SelectUnchanged, WaitSubscribe, Subscribed, Goto, HandlerCloses
  <2>4. CASE JoinRoom \/ ConnectRoom \/ PublishTrack
    BY <2>4, Zenon
       DEF JoinRoom, ConnectRoom, ConnectFails, PublishTrack, CloseRoomOnce, ReasonRecorded,
           SelectUnchanged, Goto, HandlerCloses
  <2>5. CASE BecomeActive \/ HandlerClosed \/ HandlerReturn
    BY <2>5, Zenon
       DEF BecomeActive, HandlerClosed, HandlerReturn, SelectUnchanged, Goto, HandlerCloses
  <2> QED BY <1>1, <2>1, <2>2, <2>3, <2>4, <2>5 DEF Handler
<1>2. CASE PinPrompt \/ WaitForCallEnd
  BY <1>2, Zenon
     DEF PinPrompt, HangupCases, MediaTimeoutCloses, ReasonRecorded, SelectUnchanged, Goto,
         HandlerCloses, WaitForCallEnd
<1>3. ASSUME NEW t \in Closers, Close(t) PROVE CallFlags'
  BY <1>3, Zenon
     DEF Close, CloseCAS, AlreadyClosed, CloseGoto, CloseWithStatus, Established, Drop, Respond,
         ByeAnswered, CloseRoom, CloseRoomOnce, CloseMediaPort, CloseRegistry, Deregister,
         CloseCancel
<1>4. CASE ServerStop \/ Ringer \/ AckArrives \/ TxAckArrives
  BY <1>4, Zenon
     DEF Ringer, ServerStop, RingerStops, CallUnchanged, RingerTick, RingerSend, Respond,
         RingerCancel, AckArrives, TxAckArrives
<1>5. ASSUME NEW b \in Byes, ByeArrives(b) \/ OnBye(b) PROVE CallFlags'
  BY <1>5, Zenon
     DEF OnBye, ByeArrives, LegUnchanged, AcceptBye, Drop, ByeCancels
<1>6. CASE TransferHangup \/ MaxDuration \/ RoomDisconnects
  BY <1>6, Zenon
     DEF TransferHangup, LegUnchanged, MaxDuration, RoomDisconnects
<1>7. CASE UNCHANGED vars
  BY <1>7, Zenon DEF vars
<1> QED BY <1>1, <1>2, <1>3, <1>4, <1>5, <1>6, <1>7 DEF Next

\* those of the registry and of the room,
LEMMA HeldFlagsStep == HeldFlags /\ [Next]_vars => HeldFlags'
<1> SUFFICES ASSUME HeldFlags, [Next]_vars PROVE HeldFlags'
  OBVIOUS
<1> USE DEF HeldFlags, regVars, roomVars
<1>1. CASE Handler
  <2>1. CASE StartRinging \/ Dispatch \/ RunMedia
    BY <2>1, Zenon
       DEF StartRinging, Goto, Dispatch, RespondAndDrop, Respond, Drop, HandlerCloses, RunMedia
  <2>2. CASE AcceptBegin \/ AcceptSend \/ AcceptWait
    BY <2>2, Zenon
       DEF AcceptBegin, AcceptSend, AcceptReturns, AcceptFails, Accepted, AcceptWait,
           RetriesOver, Goto, Respond, Drop, HandlerCloses
  <2>3. CASE WaitMedia \/ WaitSubscribe
    BY <2>3, Zenon
       DEF WaitMedia, HangupCases, RoomClosedCase, MediaTimeoutCloses, ReasonRecorded,
           SelectUnchanged, WaitSubscribe, Subscribed, Goto, HandlerCloses
  <2>4. CASE JoinRoom \/ ConnectRoom \/ PublishTrack
    BY <2>4, Zenon
       DEF JoinRoom, ConnectRoom, ConnectFails, PublishTrack, CloseRoomOnce, ReasonRecorded,
           SelectUnchanged, Goto, HandlerCloses
  <2>5. CASE BecomeActive \/ HandlerClosed \/ HandlerReturn
    BY <2>5, Zenon
       DEF BecomeActive, HandlerClosed, HandlerReturn, SelectUnchanged, Goto, HandlerCloses
  <2> QED BY <1>1, <2>1, <2>2, <2>3, <2>4, <2>5 DEF Handler
<1>2. CASE PinPrompt \/ WaitForCallEnd
  BY <1>2, Zenon
     DEF PinPrompt, HangupCases, MediaTimeoutCloses, ReasonRecorded, SelectUnchanged, Goto,
         HandlerCloses, WaitForCallEnd
<1>3. ASSUME NEW t \in Closers, Close(t) PROVE HeldFlags'
  BY <1>3, Zenon
     DEF Close, CloseCAS, AlreadyClosed, CloseGoto, CloseWithStatus, Established, Drop, Respond,
         ByeAnswered, CloseRoom, CloseRoomOnce, CloseMediaPort, CloseRegistry, Deregister,
         CloseCancel
<1>4. CASE ServerStop \/ Ringer \/ AckArrives \/ TxAckArrives
  BY <1>4, Zenon
     DEF Ringer, ServerStop, RingerStops, CallUnchanged, RingerTick, RingerSend, Respond,
         RingerCancel, AckArrives, TxAckArrives
<1>5. ASSUME NEW b \in Byes, ByeArrives(b) \/ OnBye(b) PROVE HeldFlags'
  BY <1>5, Zenon
     DEF OnBye, ByeArrives, LegUnchanged, AcceptBye, Drop, ByeCancels
<1>6. CASE TransferHangup \/ MaxDuration \/ RoomDisconnects
  BY <1>6, Zenon
     DEF TransferHangup, LegUnchanged, MaxDuration, RoomDisconnects
<1>7. CASE UNCHANGED vars
  BY <1>7, Zenon DEF vars
<1> QED BY <1>1, <1>2, <1>3, <1>4, <1>5, <1>6, <1>7 DEF Next

\* and those of the media timeout and of CallState.
LEMMA InfoFlagsStep == InfoFlags /\ [Next]_vars => InfoFlags'
<1> SUFFICES ASSUME InfoFlags, [Next]_vars PROVE InfoFlags'
  OBVIOUS
<1> USE DEF InfoFlags, mediaVars, infoVars
<1>1. CASE Handler
  <2>1. CASE StartRinging \/ Dispatch \/ RunMedia
    BY <2>1, Zenon
       DEF StartRinging, Goto, Dispatch, RespondAndDrop, Respond, Drop, HandlerCloses, RunMedia
  <2>2. CASE AcceptBegin \/ AcceptSend \/ AcceptWait
    BY <2>2, Zenon
       DEF AcceptBegin, AcceptSend, AcceptReturns, AcceptFails, Accepted, AcceptWait,
           RetriesOver, Goto, Respond, Drop, HandlerCloses
  <2>3. CASE WaitMedia \/ WaitSubscribe
    BY <2>3, Zenon
       DEF WaitMedia, HangupCases, RoomClosedCase, MediaTimeoutCloses, ReasonRecorded,
           SelectUnchanged, WaitSubscribe, Subscribed, Goto, HandlerCloses
  <2>4. CASE JoinRoom \/ ConnectRoom \/ PublishTrack
    BY <2>4, Zenon
       DEF JoinRoom, ConnectRoom, ConnectFails, PublishTrack, CloseRoomOnce, ReasonRecorded,
           SelectUnchanged, Goto, HandlerCloses
  <2>5. CASE BecomeActive \/ HandlerClosed \/ HandlerReturn
    BY <2>5, Zenon
       DEF BecomeActive, HandlerClosed, HandlerReturn, SelectUnchanged, Goto, HandlerCloses
  <2> QED BY <1>1, <2>1, <2>2, <2>3, <2>4, <2>5 DEF Handler
<1>2. CASE PinPrompt \/ WaitForCallEnd
  BY <1>2, Zenon
     DEF PinPrompt, HangupCases, MediaTimeoutCloses, ReasonRecorded, SelectUnchanged, Goto,
         HandlerCloses, WaitForCallEnd
<1>3. ASSUME NEW t \in Closers, Close(t) PROVE InfoFlags'
  BY <1>3, Zenon
     DEF Close, CloseCAS, AlreadyClosed, CloseGoto, CloseWithStatus, Established, Drop, Respond,
         ByeAnswered, CloseRoom, CloseRoomOnce, CloseMediaPort, CloseRegistry, Deregister,
         CloseCancel
<1>4. CASE ServerStop \/ Ringer \/ AckArrives \/ TxAckArrives
  BY <1>4, Zenon
     DEF Ringer, ServerStop, RingerStops, CallUnchanged, RingerTick, RingerSend, Respond,
         RingerCancel, AckArrives, TxAckArrives
<1>5. ASSUME NEW b \in Byes, ByeArrives(b) \/ OnBye(b) PROVE InfoFlags'
  BY <1>5, Zenon
     DEF OnBye, ByeArrives, LegUnchanged, AcceptBye, Drop, ByeCancels
<1>6. CASE TransferHangup \/ MaxDuration \/ RoomDisconnects
  BY <1>6, Zenon
     DEF TransferHangup, LegUnchanged, MaxDuration, RoomDisconnects
<1>7. CASE UNCHANGED vars
  BY <1>7, Zenon DEF vars
<1> QED BY <1>1, <1>2, <1>3, <1>4, <1>5, <1>6, <1>7 DEF Next

\* The lock, the ringing goroutine and the last response.
LEMMA SignalTypesStep == SignalTypes /\ [Next]_vars => SignalTypes'
<1> SUFFICES ASSUME SignalTypes, [Next]_vars PROVE SignalTypes'
  OBVIOUS
<1> USE DEF SignalTypes, Closers, Resps, wireVars
<1>1. CASE Handler
  <2>1. CASE StartRinging \/ Dispatch \/ RunMedia
    BY <2>1, Zenon
       DEF StartRinging, Goto, Dispatch, RespondAndDrop, Respond, Drop, HandlerCloses, RunMedia
  <2>2. CASE AcceptBegin \/ AcceptSend \/ AcceptWait
    BY <2>2, Zenon
       DEF AcceptBegin, AcceptSend, AcceptReturns, AcceptFails, Accepted, AcceptWait,
           RetriesOver, Goto, Respond, Drop, HandlerCloses
  <2>3. CASE WaitMedia \/ WaitSubscribe
    BY <2>3, Zenon
       DEF WaitMedia, HangupCases, RoomClosedCase, MediaTimeoutCloses, ReasonRecorded,
           SelectUnchanged, WaitSubscribe, Subscribed, Goto, HandlerCloses
  <2>4. CASE JoinRoom \/ ConnectRoom \/ PublishTrack
    BY <2>4, Zenon
       DEF JoinRoom, ConnectRoom, ConnectFails, PublishTrack, CloseRoomOnce, ReasonRecorded,
           SelectUnchanged, Goto, HandlerCloses
  <2>5. CASE BecomeActive \/ HandlerClosed \/ HandlerReturn
    BY <2>5, Zenon
       DEF BecomeActive, HandlerClosed, HandlerReturn, SelectUnchanged, Goto, HandlerCloses
  <2> QED BY <1>1, <2>1, <2>2, <2>3, <2>4, <2>5 DEF Handler
<1>2. CASE PinPrompt \/ WaitForCallEnd
  BY <1>2, Zenon
     DEF PinPrompt, HangupCases, MediaTimeoutCloses, ReasonRecorded, SelectUnchanged, Goto,
         HandlerCloses, WaitForCallEnd
<1>3. ASSUME NEW t \in Closers, Close(t) PROVE SignalTypes'
  BY <1>3, Zenon
     DEF Close, CloseCAS, AlreadyClosed, CloseGoto, CloseWithStatus, Established, Drop, Respond,
         ByeAnswered, CloseRoom, CloseRoomOnce, CloseMediaPort, CloseRegistry, Deregister,
         CloseCancel
<1>4. CASE ServerStop \/ Ringer \/ AckArrives \/ TxAckArrives
  BY <1>4, Zenon
     DEF Ringer, ServerStop, RingerStops, CallUnchanged, RingerTick, RingerSend, Respond,
         RingerCancel, AckArrives, TxAckArrives
<1>5. ASSUME NEW b \in Byes, ByeArrives(b) \/ OnBye(b) PROVE SignalTypes'
  BY <1>5, Zenon
     DEF OnBye, ByeArrives, LegUnchanged, AcceptBye, Drop, ByeCancels
<1>6. CASE TransferHangup \/ MaxDuration \/ RoomDisconnects
  BY <1>6, Zenon
     DEF TransferHangup, LegUnchanged, MaxDuration, RoomDisconnects
<1>7. CASE UNCHANGED vars
  BY <1>7, Zenon DEF vars
<1> QED BY <1>1, <1>2, <1>3, <1>4, <1>5, <1>6, <1>7 DEF Next

\* The handler, the media port, the status and the BYE requests.
LEMMA CallTypesStep == CallTypes /\ [Next]_vars => CallTypes'
<1> SUFFICES ASSUME CallTypes, [Next]_vars PROVE CallTypes'
  OBVIOUS
<1> USE DEF CallTypes, HandlerPC, Statuses, ByeStep, handlerVars, mediaVars, infoVars
<1>1. CASE Handler
  <2>1. CASE StartRinging \/ Dispatch \/ RunMedia
    BY <2>1, Zenon
       DEF StartRinging, Goto, Dispatch, RespondAndDrop, Respond, Drop, HandlerCloses, RunMedia
  <2>2. CASE AcceptBegin \/ AcceptSend \/ AcceptWait
    BY <2>2, Zenon
       DEF AcceptBegin, AcceptSend, AcceptReturns, AcceptFails, Accepted, AcceptWait,
           RetriesOver, Goto, Respond, Drop, HandlerCloses
  <2>3. CASE WaitMedia \/ WaitSubscribe
    BY <2>3, Zenon
       DEF WaitMedia, HangupCases, RoomClosedCase, MediaTimeoutCloses, ReasonRecorded,
           SelectUnchanged, WaitSubscribe, Subscribed, Goto, HandlerCloses
  <2>4. CASE JoinRoom \/ ConnectRoom \/ PublishTrack
    BY <2>4, Zenon
       DEF JoinRoom, ConnectRoom, ConnectFails, PublishTrack, CloseRoomOnce, ReasonRecorded,
           SelectUnchanged, Goto, HandlerCloses
  <2>5. CASE BecomeActive \/ HandlerClosed \/ HandlerReturn
    BY <2>5, Zenon
       DEF BecomeActive, HandlerClosed, HandlerReturn, SelectUnchanged, Goto, HandlerCloses
  <2> QED BY <1>1, <2>1, <2>2, <2>3, <2>4, <2>5 DEF Handler
<1>2. CASE PinPrompt \/ WaitForCallEnd
  BY <1>2, Zenon
     DEF PinPrompt, HangupCases, MediaTimeoutCloses, ReasonRecorded, SelectUnchanged, Goto,
         HandlerCloses, WaitForCallEnd
<1>3. ASSUME NEW t \in Closers, Close(t) PROVE CallTypes'
  BY <1>3, Zenon
     DEF Close, CloseCAS, AlreadyClosed, CloseGoto, CloseWithStatus, Established, Drop, Respond,
         ByeAnswered, CloseRoom, CloseRoomOnce, CloseMediaPort, CloseRegistry, Deregister,
         CloseCancel
<1>4. CASE ServerStop \/ Ringer \/ AckArrives \/ TxAckArrives
  BY <1>4, Zenon
     DEF Ringer, ServerStop, RingerStops, CallUnchanged, RingerTick, RingerSend, Respond,
         RingerCancel, AckArrives, TxAckArrives
<1>5. ASSUME NEW b \in Byes, ByeArrives(b) \/ OnBye(b) PROVE CallTypes'
  BY <1>5, Zenon
     DEF OnBye, ByeArrives, LegUnchanged, AcceptBye, Drop, ByeCancels
<1>6. CASE TransferHangup \/ MaxDuration \/ RoomDisconnects
  BY <1>6, Zenon
     DEF TransferHangup, LegUnchanged, MaxDuration, RoomDisconnects
<1>7. CASE UNCHANGED vars
  BY <1>7, Zenon DEF vars
<1> QED BY <1>1, <1>2, <1>3, <1>4, <1>5, <1>6, <1>7 DEF Next

\* The closers and the reasons.
LEMMA CloseTypesStep == CloseTypes /\ [Next]_vars => CloseTypes'
<1> SUFFICES ASSUME CloseTypes, [Next]_vars PROVE CloseTypes'
  OBVIOUS
<1> USE DEF CloseTypes, CloseStep, Reasons, Closers, closeVars, callVars
<1>1. CASE Handler \/ PinPrompt \/ WaitForCallEnd
  <2>1. CASE UNCHANGED closeVars /\ UNCHANGED callVars
    BY <2>1
  <2>2. ASSUME UNCHANGED callVars, NEW reason \in Reasons, NEW err, HandlerCloses(reason, err)
        PROVE  CloseTypes'
    BY <2>2 DEF HandlerCloses
  <2> QED BY <1>1, <2>1, <2>2, HandlerCourse
<1>2. ASSUME NEW t \in Closers, Close(t) PROVE CloseTypes'
  BY <1>2
     DEF Close, CloseCAS, AlreadyClosed, CloseGoto, CloseWithStatus, Established, Drop, Respond,
         ByeAnswered, CloseRoom, CloseRoomOnce, CloseMediaPort, CloseRegistry, Deregister,
         CloseCancel
<1>3. CASE ServerStop \/ Ringer \/ AckArrives \/ TxAckArrives
  BY <1>3
     DEF Ringer, ServerStop, RingerStops, CallUnchanged, RingerTick, RingerSend, Respond,
         RingerCancel, AckArrives, TxAckArrives
<1>4. ASSUME NEW b \in Byes, ByeArrives(b) \/ OnBye(b) PROVE CloseTypes'
  BY <1>4
     DEF OnBye, ByeArrives, LegUnchanged, AcceptBye, Drop, ByeCancels
<1>5. CASE TransferHangup \/ MaxDuration \/ RoomDisconnects
  BY <1>5
     DEF TransferHangup, LegUnchanged, MaxDuration, RoomDisconnects
<1>6. CASE UNCHANGED vars
  BY <1>6 DEF vars
<1> QED BY <1>1, <1>2, <1>3, <1>4, <1>5, <1>6 DEF Next

\* The counters.
LEMMA CountersStep == Counters /\ [Next]_vars => Counters'
<1> SUFFICES ASSUME Counters, [Next]_vars PROVE Counters'
  OBVIOUS
<1> USE DEF Counters, wireVars, handlerVars, callVars
<1>1. CASE Handler
  <2>1. CASE AcceptBegin \/ AcceptWait
    BY <2>1 DEF AcceptBegin, HandlerCloses, AcceptWait, RetriesOver, AcceptReturns, Accepted
  <2>2. CASE StartRinging \/ Dispatch \/ RunMedia \/ AcceptSend \/ WaitMedia \/ JoinRoom \/ ConnectRoom
             \/ PublishTrack \/ WaitSubscribe \/ BecomeActive \/ HandlerClosed \/ HandlerReturn
    BY <2>2, Zenon
    DEF StartRinging, Goto, Dispatch, RespondAndDrop, Respond, Drop, HandlerCloses,
         RunMedia, AcceptSend, AcceptReturns, AcceptFails, Accepted, WaitMedia,
         HangupCases, RoomClosedCase, MediaTimeoutCloses, ReasonRecorded, SelectUnchanged,
         JoinRoom, ConnectRoom, ConnectFails, PublishTrack, CloseRoomOnce, WaitSubscribe,
         Subscribed, BecomeActive, HandlerClosed, HandlerReturn
  <2> QED BY <1>1, <2>1, <2>2 DEF Handler
<1>2. CASE PinPrompt \/ WaitForCallEnd
  BY <1>2
     DEF PinPrompt, HangupCases, MediaTimeoutCloses, ReasonRecorded, SelectUnchanged, Goto,
         HandlerCloses, WaitForCallEnd
<1>3. ASSUME NEW t \in Closers, Close(t) PROVE Counters'
  BY <1>3
     DEF Close, CloseCAS, AlreadyClosed, CloseGoto, CloseWithStatus, Established, Drop, Respond,
         ByeAnswered, CloseRoom, CloseRoomOnce, CloseMediaPort, CloseRegistry, Deregister,
         CloseCancel
<1>4. CASE ServerStop \/ Ringer \/ AckArrives \/ TxAckArrives
  BY <1>4
     DEF Ringer, ServerStop, RingerStops, CallUnchanged, RingerTick, RingerSend, Respond,
         RingerCancel, AckArrives, TxAckArrives
<1>5. ASSUME NEW b \in Byes, ByeArrives(b) \/ OnBye(b) PROVE Counters'
  BY <1>5
     DEF OnBye, ByeArrives, LegUnchanged, AcceptBye, Drop, ByeCancels
<1>6. CASE TransferHangup \/ MaxDuration \/ RoomDisconnects
  BY <1>6
     DEF TransferHangup, LegUnchanged, MaxDuration, RoomDisconnects
<1>7. CASE UNCHANGED vars
  BY <1>7 DEF vars
<1> QED BY <1>1, <1>2, <1>3, <1>4, <1>5, <1>6, <1>7 DEF Next

\* The fields of sipInbound, inboundCall, CallState and Room keep their types,
\* whatever the interleaving of their threads.
THEOREM TypeCorrect == Spec => []TypeOK
<1>1. Init => LegFlags /\ CallFlags /\ HeldFlags /\ InfoFlags
  BY Zenon DEF Init, LegFlags, CallFlags, HeldFlags, InfoFlags
<1>2. Init => SignalTypes /\ CallTypes /\ CloseTypes /\ Counters
  BY DEF Init, SignalTypes, CallTypes, CloseTypes, Counters, Closers, Reasons, HandlerPC,
         CloseStep, Resps, Statuses, ByeStep
<1> QED BY <1>1, <1>2, LegFlagsStep, CallFlagsStep, HeldFlagsStep, InfoFlagsStep,
           SignalTypesStep, CallTypesStep, CloseTypesStep, CountersStep, PTL DEF Spec,
           TypeOK

-----------------------------------------------------------------------------
(* The inductive invariant, as a conjunction of named parts *)

\* inviteTx, invite and inviteOk: pending, accepted or dropped.
DialogInv ==
    /\ tx => invite /\ ~inviteOk
    /\ inviteOk => invite

\* c.mu is held over steps by Accept and by sendBye, and by nobody else.
LockInv ==
    /\ mu = "handler" <=> (pc \in {"send", "ackwait"} \/ cl["handler"] = "byewait")
    /\ mu = "stop" <=> cl["stop"] = "byewait"

\* The handler calls close() once, and returns only with done set.
StageInv ==
    /\ pc \notin {"closing", "return", "ended"} => cl["handler"] = "idle" /\ why["handler"] = "none"
    /\ pc = "closing" => cl["handler"] # "idle"
    /\ pc \in {"return", "ended"} => cl["handler"] = "done"
    /\ \A t \in Closers : cl[t] \notin {"idle", "cas"} => done

\* A closer that has started has a reason; done records that of the winner.
EmitInv ==
    /\ \A t \in Closers : cl[t] # "idle" => why[t] # "none"
    /\ emits = IF done THEN 1 ELSE 0
    /\ done => term # "none"
    /\ pc = "ended" => done

\* While Accept holds the lock the INVITE transaction stays.
AcceptInv ==
    /\ pc \in {"send", "ackwait"} => tx
    /\ pc \in {"send", "ackwait"} => try >= 1

\* Until Accept there is no established call; without a pin, Accept comes last.
EarlyInv ==
    /\ pc \in {"ring", "dispatch", "media", "accept", "waitsub"} => ~inviteOk
    /\ pc \in {"join", "connect", "publish"} /\ ~pin => ~inviteOk
    /\ pc = "pin" => pin

\* An accepted INVITE was answered with 200, and by nobody but Accept.
OkInv ==
    /\ pc \in {"ring", "dispatch"} => resp # "200"
    /\ pc = "ackwait" => resp = "200"
    /\ inviteOk => resp = "200"

\* A BYE of ours, and an accepted BYE of the caller, leave nothing to end.
ByeInv ==
    /\ byesSent = 0 \/ (byesSent = 1 /\ ~tx /\ ~inviteOk /\ resp = "200")
    /\ CallerHungUp => ~tx /\ ~inviteOk

\* However the leg was dropped, the caller knows.
ToldInv ==
    ~tx /\ ~inviteOk => /\ resp = "200" => byesSent = 1 \/ CallerHungUp
                        /\ resp \in Final \/ CallerHungUp \/ DroppedAsFlood

\* done is set by a closer that then goes through CloseWithStatus.
CloseInv == done => (\E t \in Closers : cl[t] = "signal") \/ (~tx /\ ~inviteOk)

\* A pending INVITE has no final response, unless Accept is sending its 200s.
AnswerInv ==
    /\ tx /\ resp \in Final => pc \in {"send", "ackwait"} /\ resp = "200"
    /\ pc = "send" /\ try = 1 => resp \notin Final

\* What holds under every configuration ...
LegInv    == DialogInv /\ LockInv /\ AcceptInv /\ EarlyInv
CloserInv == StageInv /\ EmitInv
IInv      == TypeOK /\ LegInv /\ CloserInv
TalkInv   == OkInv /\ ByeInv /\ ToldInv /\ CloseInv
TInv      == IInv /\ TalkInv

\* ... and what needs the retransmission of a 200 to succeed.
AInv == TInv /\ AnswerInv

\* What a step may do to the BYEs: send ours in an answered dialog, or accept
\* that of the caller, after which nothing is sent.
ByeMove ==
    /\ CallerHungUp => CallerHungUp' /\ UNCHANGED wireVars
    /\ \/ UNCHANGED byesSent
       \/ byesSent = 0 /\ byesSent' = 1 /\ resp = "200" /\ UNCHANGED <<resp, bye>>

\* What it may do to the responses: respond while there is no final one.
AnswerMove ==
    \/ UNCHANGED resp
    \/ resp \notin Final /\ resp' \in Final \cup {"180"} /\ UNCHANGED <<byesSent, bye>>

\* The abstract leg's byeIn, and what a step may do to it: onBye alone moves it,
\* and sends nothing to the INVITE or in a BYE of ours.
Phase == IF CallerHungUp THEN "dropped" ELSE IF ByeAccepted THEN "accepted" ELSE "none"

PhaseMove ==
    \/ Phase' = Phase
    \/ Phase = "none" /\ Phase' = "accepted" /\ UNCHANGED wireVars
    \/ Phase = "accepted" /\ Phase' = "dropped" /\ UNCHANGED wireVars

-----------------------------------------------------------------------------
(* What the handler's steps do, for the lemmas below *)

\* The steps of the handler that leave the leg alone ...
SignalVars == <<dialogVars, mu, wireVars, callVars, bye>>

Quiet ==
    \/ WaitMedia \/ PinPrompt \/ JoinRoom \/ ConnectRoom \/ PublishTrack \/ WaitSubscribe
    \/ BecomeActive \/ WaitForCallEnd \/ HandlerClosed \/ HandlerReturn

\* ... either move on,
Moves ==
    /\ UNCHANGED <<try, pin, closeVars>>
    /\ \/ pc = "waitmedia" /\ pc' = "pin" /\ pin
       \/ pc = "waitmedia" /\ pc' = "active"
       \/ pc = "pin" /\ pc' = "join"
       \/ pc = "join" /\ pc' = "connect"
       \/ pc = "connect" /\ pc' = "publish"
       \/ pc = "publish" /\ pc' \in {"active", "crashed"}
       \/ pc = "publish" /\ pc' = "waitsub" /\ ~pin
       \/ pc = "waitsub" /\ pc' = "accept"
       \/ pc \in {"active", "waitend"} /\ pc' = "waitend"
       \/ pc = "closing" /\ pc' = "return" /\ cl["handler"] = "done"
       \/ pc = "return" /\ pc' = "ended" /\ done

\* or call close().
Closes ==
    /\ \/ pc \in {"waitmedia", "pin", "join", "connect", "publish", "waitsub", "waitend"}
       \/ pc = "return" /\ ~done
    /\ \E reason \in Reasons \ {"none", "flood"} : \E err : HandlerCloses(reason, err)

\* A quiet step changes nothing the caller can see.
LEMMA QuietStep == Quiet => UNCHANGED SignalVars /\ (Moves \/ Closes)
<1> USE DEF SignalVars, Moves, Closes, handlerVars, Reasons, SelectUnchanged, Goto,
            HangupCases, RoomClosedCase, MediaTimeoutCloses
<1>1. WaitMedia => UNCHANGED SignalVars /\ (Moves \/ Closes)
  BY Zenon DEF WaitMedia
<1>2. PinPrompt => UNCHANGED SignalVars /\ (Moves \/ Closes)
  BY Zenon DEF PinPrompt
<1>3. JoinRoom \/ ConnectRoom \/ PublishTrack => UNCHANGED SignalVars /\ (Moves \/ Closes)
  BY Zenon DEF JoinRoom, ConnectRoom, ConnectFails, PublishTrack
<1>4. WaitSubscribe => UNCHANGED SignalVars /\ (Moves \/ Closes)
  BY Zenon DEF WaitSubscribe, Subscribed
<1>5. BecomeActive \/ HandlerClosed \/ HandlerReturn => UNCHANGED SignalVars /\ (Moves \/ Closes)
  BY Zenon DEF BecomeActive, HandlerClosed, HandlerReturn
<1>6. WaitForCallEnd => UNCHANGED SignalVars /\ (Moves \/ Closes)
  BY Zenon DEF WaitForCallEnd, handlerVars
<1> QED BY <1>1, <1>2, <1>3, <1>4, <1>5, <1>6 DEF Quiet

\* What the loop of Accept never touches.
AnswerVars == <<invite, byesSent, callVars, bye>>

\* Accept returns after accepted(r), with or without the missing-ACK error;
Answers ==
    /\ \/ pc = "send" /\ resp' = "200"
       \/ pc = "ackwait" /\ UNCHANGED resp
    /\ inviteOk' /\ ~tx'
    /\ mu' = "free"
    /\ \/ HandlerCloses("no-ack", TRUE)
       \/ pc' = "waitmedia" /\ UNCHANGED <<try, pin, closeVars>>

\* its loop sends the 200 or waits;
Retries ==
    /\ \/ pc = "send" /\ pc' = "ackwait" /\ resp' = "200" /\ UNCHANGED try
       \/ pc = "ackwait" /\ pc' = "send" /\ try' = try + 1 /\ UNCHANGED resp
    /\ UNCHANGED <<tx, inviteOk, mu, pin, closeVars>>

\* or Respond fails and Accept returns at once.
GivesUp ==
    /\ pc = "send" /\ (try = 1 \/ RetransmitMayFail)
    /\ mu' = "free"
    /\ HandlerCloses("accept-failed", TRUE)
    /\ UNCHANGED <<tx, inviteOk, resp>>

\* The two actions of Accept do one of the three.
LEMMA AcceptStep ==
    AcceptSend \/ AcceptWait => UNCHANGED AnswerVars /\ (Answers \/ Retries \/ GivesUp)
<1> USE DEF AnswerVars, Answers, Retries, GivesUp, AcceptReturns, Accepted, AcceptFails, Goto,
            wireVars
<1>1. AcceptSend => UNCHANGED AnswerVars /\ (Answers \/ Retries \/ GivesUp)
  BY Zenon DEF AcceptSend
<1>2. AcceptWait => UNCHANGED AnswerVars /\ (Answers \/ Retries \/ GivesUp)
  BY Zenon DEF AcceptWait, RetriesOver
<1> QED BY <1>1, <1>2, Zenon

-----------------------------------------------------------------------------
(* The invariant is inductive *)

\* The signalling leg and its lock.
LEMMA LegInvStep ==
    ASSUME IInv, [Next]_vars
    PROVE  LegInv'
<1> USE DEF IInv, TypeOK, LegInv, CloserInv, SignalTypes, CallTypes, CloseTypes,
            Counters, AcceptInv, DialogInv, StageInv, LockInv, EarlyInv, dialogVars,
            Closers, closeVars, handlerVars
<1>1. CASE Quiet
  <2>1. UNCHANGED SignalVars /\ (Moves \/ Closes)
    BY <1>1, QuietStep
  <2>2. CASE Moves
    BY <2>1, <2>2 DEF SignalVars, Moves
  <2>3. CASE Closes
    BY <2>1, <2>3 DEF SignalVars, Closes, HandlerCloses
  <2> QED BY <2>1, <2>2, <2>3
<1>2. CASE StartRinging
  BY <1>2 DEF StartRinging, Goto
<1>3. CASE Dispatch
  BY <1>3 DEF Dispatch, RespondAndDrop, Respond, Drop, HandlerCloses
<1>4. CASE RunMedia
  BY <1>4 DEF RunMedia, Goto, RespondAndDrop, Respond, Drop, HandlerCloses
<1>5. CASE AcceptBegin
  BY <1>5 DEF AcceptBegin, HandlerCloses
<1>6. CASE AcceptSend \/ AcceptWait
  <2>1. UNCHANGED AnswerVars /\ (Answers \/ Retries \/ GivesUp)
    BY <1>6, AcceptStep
  <2>2. CASE Answers
    BY <2>1, <2>2 DEF AnswerVars, Answers, HandlerCloses
  <2>3. CASE Retries
    BY <2>1, <2>3 DEF AnswerVars, Retries
  <2>4. CASE GivesUp
    BY <2>1, <2>4 DEF AnswerVars, GivesUp, HandlerCloses
  <2> QED BY <2>1, <2>2, <2>3, <2>4
<1>7. ASSUME NEW t \in Closers, Close(t) PROVE LegInv'
  BY <1>7
     DEF Close, CloseCAS, AlreadyClosed, CloseGoto, CloseWithStatus, Established, Drop, Respond,
         ByeAnswered, CloseRoom, CloseRoomOnce, CloseMediaPort, CloseRegistry, Deregister,
         CloseCancel
<1>8. CASE ServerStop \/ Ringer \/ AckArrives \/ TxAckArrives
  BY <1>8
     DEF Ringer, ServerStop, RingerStops, CallUnchanged, RingerTick, RingerSend, Respond,
         RingerCancel, AckArrives, TxAckArrives
<1>9. ASSUME NEW b \in Byes, ByeArrives(b) \/ OnBye(b) PROVE LegInv'
  BY <1>9
     DEF OnBye, ByeArrives, LegUnchanged, AcceptBye, Drop, ByeCancels
<1>10. CASE TransferHangup \/ MaxDuration \/ RoomDisconnects
  BY <1>10
     DEF TransferHangup, LegUnchanged, MaxDuration, RoomDisconnects
<1>11. CASE UNCHANGED vars
  BY <1>11 DEF vars
<1> QED BY <1>1, <1>2, <1>3, <1>4, <1>5, <1>6, <1>7, <1>8, <1>9, <1>10, <1>11
     DEF Next, Handler, Quiet

\* The closers and CallTerminate.
LEMMA CloserInvStep ==
    ASSUME IInv, [Next]_vars
    PROVE  CloserInv'
<1> USE DEF IInv, TypeOK, LegInv, CloserInv, SignalTypes, CallTypes, CloseTypes,
            Counters, StageInv, EmitInv, Closers, closeVars, handlerVars, callVars,
            Reasons
<1>1. CASE Quiet
  <2>1. UNCHANGED SignalVars /\ (Moves \/ Closes)
    BY <1>1, QuietStep
  <2>2. CASE Moves
    BY <2>1, <2>2 DEF SignalVars, Moves
  <2>3. CASE Closes
    BY <2>1, <2>3 DEF SignalVars, Closes, HandlerCloses
  <2> QED BY <2>1, <2>2, <2>3
<1>2. CASE StartRinging
  BY <1>2 DEF StartRinging, Goto
<1>3. CASE Dispatch
  BY <1>3 DEF Dispatch, RespondAndDrop, Respond, Drop, HandlerCloses
<1>4. CASE RunMedia
  BY <1>4 DEF RunMedia, Goto, RespondAndDrop, Respond, Drop, HandlerCloses
<1>5. CASE AcceptBegin
  BY <1>5 DEF AcceptBegin, HandlerCloses
<1>6. CASE AcceptSend \/ AcceptWait
  <2>1. UNCHANGED AnswerVars /\ (Answers \/ Retries \/ GivesUp)
    BY <1>6, AcceptStep
  <2>2. CASE Answers
    BY <2>1, <2>2 DEF AnswerVars, Answers, HandlerCloses
  <2>3. CASE Retries
    BY <2>1, <2>3 DEF AnswerVars, Retries
  <2>4. CASE GivesUp
    BY <2>1, <2>4 DEF AnswerVars, GivesUp, HandlerCloses
  <2> QED BY <2>1, <2>2, <2>3, <2>4
<1>7. ASSUME NEW t \in Closers, Close(t) PROVE CloserInv'
  BY <1>7
     DEF Close, CloseCAS, AlreadyClosed, CloseGoto, CloseWithStatus, Established, Drop, Respond,
         ByeAnswered, CloseRoom, CloseRoomOnce, CloseMediaPort, CloseRegistry, Deregister,
         CloseCancel
<1>8. CASE ServerStop \/ Ringer \/ AckArrives \/ TxAckArrives
  BY <1>8
     DEF Ringer, ServerStop, RingerStops, CallUnchanged, RingerTick, RingerSend, Respond,
         RingerCancel, AckArrives, TxAckArrives
<1>9. ASSUME NEW b \in Byes, ByeArrives(b) \/ OnBye(b) PROVE CloserInv'
  BY <1>9
     DEF OnBye, ByeArrives, LegUnchanged, AcceptBye, Drop, ByeCancels
<1>10. CASE TransferHangup \/ MaxDuration \/ RoomDisconnects
  BY <1>10
     DEF TransferHangup, LegUnchanged, MaxDuration, RoomDisconnects
<1>11. CASE UNCHANGED vars
  BY <1>11 DEF vars
<1> QED BY <1>1, <1>2, <1>3, <1>4, <1>5, <1>6, <1>7, <1>8, <1>9, <1>10, <1>11
     DEF Next, Handler, Quiet

\* What the caller is told.
LEMMA TalkStep ==
    ASSUME TInv, [Next]_vars
    PROVE  TalkInv' /\ ByeMove
<1> USE DEF IInv, TypeOK, LegInv, CloserInv, TInv, TalkInv, SignalTypes, CallTypes,
            CloseTypes, Counters, LockInv, AcceptInv, OkInv, ByeInv, DialogInv, EarlyInv,
            StageInv, ToldInv, CloseInv, dialogVars, handlerVars, wireVars, Final,
            CallerHungUp, ByeStep, Closers, closeVars, DroppedAsFlood, callVars, ByeMove
<1>1. CASE Quiet
  <2>1. UNCHANGED SignalVars /\ (Moves \/ Closes)
    BY <1>1, QuietStep
  <2>2. CASE Moves
    BY <2>1, <2>2 DEF SignalVars, Moves
  <2>3. CASE Closes
    BY <2>1, <2>3 DEF SignalVars, Closes, HandlerCloses
  <2> QED BY <2>1, <2>2, <2>3
<1>2. CASE StartRinging
  BY <1>2 DEF StartRinging, Goto
<1>3. CASE Dispatch
  BY <1>3 DEF Dispatch, RespondAndDrop, Respond, Drop, HandlerCloses
<1>4. CASE RunMedia
  BY <1>4 DEF RunMedia, Goto, RespondAndDrop, Respond, Drop, HandlerCloses
<1>5. CASE AcceptBegin
  BY <1>5 DEF AcceptBegin, HandlerCloses
<1>6. CASE AcceptSend \/ AcceptWait
  <2>1. UNCHANGED AnswerVars /\ (Answers \/ Retries \/ GivesUp)
    BY <1>6, AcceptStep
  <2>2. CASE Answers
    BY <2>1, <2>2 DEF AnswerVars, Answers, HandlerCloses
  <2>3. CASE Retries
    BY <2>1, <2>3 DEF AnswerVars, Retries
  <2>4. CASE GivesUp
    BY <2>1, <2>4 DEF AnswerVars, GivesUp, HandlerCloses
  <2> QED BY <2>1, <2>2, <2>3, <2>4
<1>7. ASSUME NEW t \in Closers, Close(t) PROVE TalkInv' /\ ByeMove
  BY <1>7
     DEF Close, CloseCAS, AlreadyClosed, CloseGoto, CloseWithStatus, Established, Drop, Respond,
         ByeAnswered, CloseRoom, CloseRoomOnce, CloseMediaPort, CloseRegistry, Deregister,
         CloseCancel
<1>8. CASE ServerStop \/ Ringer \/ AckArrives \/ TxAckArrives
  BY <1>8
     DEF Ringer, ServerStop, RingerStops, CallUnchanged, RingerTick, RingerSend, Respond,
         RingerCancel, AckArrives, TxAckArrives
<1>9. ASSUME NEW b \in Byes, ByeArrives(b) \/ OnBye(b) PROVE TalkInv' /\ ByeMove
  BY <1>9
     DEF OnBye, ByeArrives, LegUnchanged, AcceptBye, Drop, ByeCancels
<1>10. CASE TransferHangup \/ MaxDuration \/ RoomDisconnects
  BY <1>10
     DEF TransferHangup, LegUnchanged, MaxDuration, RoomDisconnects
<1>11. CASE UNCHANGED vars
  BY <1>11 DEF vars
<1> QED BY <1>1, <1>2, <1>3, <1>4, <1>5, <1>6, <1>7, <1>8, <1>9, <1>10, <1>11
     DEF Next, Handler, Quiet

\* How the INVITE is answered.
LEMMA AnswerStep ==
    ASSUME AInv, ~RetransmitMayFail, [Next]_vars
    PROVE  AnswerInv' /\ AnswerMove
<1> USE DEF AInv, TInv, IInv, TypeOK, LegInv, CloserInv, TalkInv, SignalTypes, CallTypes,
            CloseTypes, Counters, OkInv, AnswerInv, AcceptInv, DialogInv, LockInv, ByeInv,
            StageInv, EarlyInv, dialogVars, handlerVars, closeVars, wireVars, Final,
            AnswerMove, Closers
<1>1. CASE Quiet
  <2>1. UNCHANGED SignalVars /\ (Moves \/ Closes)
    BY <1>1, QuietStep
  <2>2. CASE Moves
    BY <2>1, <2>2 DEF SignalVars, Moves
  <2>3. CASE Closes
    BY <2>1, <2>3 DEF SignalVars, Closes, HandlerCloses
  <2> QED BY <2>1, <2>2, <2>3
<1>2. CASE StartRinging
  BY <1>2 DEF StartRinging, Goto
<1>3. CASE Dispatch
  BY <1>3 DEF Dispatch, RespondAndDrop, Respond, Drop, HandlerCloses
<1>4. CASE RunMedia
  BY <1>4 DEF RunMedia, Goto, RespondAndDrop, Respond, Drop, HandlerCloses
<1>5. CASE AcceptBegin
  BY <1>5 DEF AcceptBegin, HandlerCloses
<1>6. CASE AcceptSend \/ AcceptWait
  <2>1. UNCHANGED AnswerVars /\ (Answers \/ Retries \/ GivesUp)
    BY <1>6, AcceptStep
  <2>2. CASE Answers
    BY <2>1, <2>2 DEF AnswerVars, Answers, HandlerCloses
  <2>3. CASE Retries
    BY <2>1, <2>3 DEF AnswerVars, Retries
  <2>4. CASE GivesUp
    BY <2>1, <2>4 DEF AnswerVars, GivesUp, HandlerCloses
  <2> QED BY <2>1, <2>2, <2>3, <2>4
<1>7. ASSUME NEW t \in Closers, Close(t) PROVE AnswerInv' /\ AnswerMove
  BY <1>7
     DEF Close, CloseCAS, AlreadyClosed, CloseGoto, CloseWithStatus, Established, Drop, Respond,
         ByeAnswered, CloseRoom, CloseRoomOnce, CloseMediaPort, CloseRegistry, Deregister,
         CloseCancel
<1>8. CASE ServerStop \/ Ringer \/ AckArrives \/ TxAckArrives
  BY <1>8
     DEF Ringer, ServerStop, RingerStops, CallUnchanged, RingerTick, RingerSend, Respond,
         RingerCancel, AckArrives, TxAckArrives
<1>9. ASSUME NEW b \in Byes, ByeArrives(b) \/ OnBye(b) PROVE AnswerInv' /\ AnswerMove
  BY <1>9
     DEF OnBye, ByeArrives, LegUnchanged, AcceptBye, Drop, ByeCancels
<1>10. CASE TransferHangup \/ MaxDuration \/ RoomDisconnects
  BY <1>10
     DEF TransferHangup, LegUnchanged, MaxDuration, RoomDisconnects
<1>11. CASE UNCHANGED vars
  BY <1>11 DEF vars
<1> QED BY <1>1, <1>2, <1>3, <1>4, <1>5, <1>6, <1>7, <1>8, <1>9, <1>10, <1>11
     DEF Next, Handler, Quiet

\* IInv holds throughout.
LEMMA Invariant == Spec => []IInv
<1>1. Init => LegInv /\ CloserInv
  BY DEF Init, LegInv, CloserInv, DialogInv, LockInv, AcceptInv, EarlyInv, StageInv, EmitInv,
         Closers
<1>2. TypeOK /\ LegInv /\ CloserInv /\ [Next]_vars => LegInv' /\ CloserInv'
  BY LegInvStep, CloserInvStep DEF IInv
<1> QED BY <1>1, <1>2, TypeCorrect, PTL DEF Spec, IInv

\* So does TInv, ...
LEMMA TalkInvariant == Spec => []TInv
<1>1. Init => TalkInv
  BY DEF Init, TalkInv, OkInv, ByeInv, ToldInv, CloseInv, CallerHungUp, Final
<1>2. IInv /\ TalkInv /\ [Next]_vars => TalkInv'
  BY TalkStep DEF TInv
<1> QED BY <1>1, <1>2, Invariant, PTL DEF Spec, TInv

\* ... and AInv, if the retransmission of a 200 never fails.
LEMMA AnsweredInvariant ==
    ASSUME ~RetransmitMayFail
    PROVE  Spec => []AInv
<1>1. Init => AnswerInv
  BY DEF Init, AnswerInv, Final
<1>2. TInv /\ AnswerInv /\ [Next]_vars => AnswerInv'
  BY AnswerStep DEF AInv
<1> QED BY <1>1, <1>2, TalkInvariant, PTL DEF Spec, AInv

-----------------------------------------------------------------------------
(* What needs Server.Stop to stay away, and what InboundWaitACK adds *)

\* Nobody but the handler closes the call.
AloneInv == cl["stop"] = "idle" /\ (cl["handler"] \in {"idle", "cas"} => ~done)

\* Before StartRinging the caller has no dialog, so its INVITE cannot have been
\* dropped; the room is not closed under the handler that publishes to it.
ReadyInv ==
    /\ pc # "crashed"
    /\ pc = "ring" => /\ tx /\ ringer = "none" /\ resp \in {"none", "100"}
                      /\ \A b \in Byes : bye[b] = "unsent"
    /\ pc = "publish" => roomConn
    /\ roomClosed => ~roomConn /\ pc \in {"closing", "return", "ended"}

\* What close() has released by each of its steps, and nobody takes again.
ReleaseInv ==
    /\ cl["handler"] \notin {"idle", "cas", "signal"} => ~ringing
    /\ cl["handler"] \in {"media", "registry", "cancel", "done"} => roomClosed
    /\ cl["handler"] \in {"registry", "cancel", "done"} => port # "open"
    /\ cl["handler"] \in {"cancel", "done"} => ~registered /\ ~xferTopic

HoldInv == AloneInv /\ ReadyInv /\ ReleaseInv

\* With InboundWaitACK, Accept returns without an error only after an ACK, and
\* every way to ACTIVE leads through Accept.
AckInv ==
    WaitACK /\ (\/ status = "ACTIVE"
                \/ pc \in {"waitmedia", "pin", "active", "waitend"}
                \/ pin /\ pc \in {"join", "connect", "publish"})
        => acked \/ txAck

\* Neither the caller nor a timer releases or takes anything, and no BYE comes
\* before the 180.
LEMMA HoldStep ==
    ASSUME IInv, HoldInv, ~Shutdown, [Next]_vars
    PROVE  HoldInv'
<1> USE DEF HoldInv, AloneInv, ReadyInv, ReleaseInv, Closers, callVars, regVars, roomVars,
            mediaVars
<1>0. /\ pc \notin {"closing", "return", "ended"} => cl["handler"] = "idle"
      /\ pc \in {"return", "ended"} => done
      /\ cl \in [Closers -> CloseStep]
      /\ bye \in [Byes -> ByeStep]
  BY DEF IInv, TypeOK, CallTypes, CloseTypes, CloserInv, StageInv
<1>1. CASE StartRinging
  BY <1>0, <1>1 DEF StartRinging, Goto, closeVars
<1>2. CASE Dispatch
  BY <1>0, <1>2 DEF Dispatch, HandlerCloses, Drop, RespondAndDrop, closeVars, dialogVars
<1>3. CASE RunMedia
  BY <1>0, <1>3 DEF RunMedia, Goto, HandlerCloses, Drop, RespondAndDrop, closeVars, dialogVars
<1>4. CASE AcceptBegin
  BY <1>0, <1>4 DEF AcceptBegin, HandlerCloses, closeVars
<1>5. CASE AcceptSend \/ AcceptWait
  BY <1>0, <1>5 DEF AcceptSend, AcceptWait, AcceptReturns, AcceptFails, RetriesOver, Accepted, Goto,
                    HandlerCloses, closeVars
<1>6. CASE WaitMedia \/ WaitSubscribe \/ PinPrompt \/ WaitForCallEnd
  BY <1>0, <1>6
     DEF WaitMedia, WaitSubscribe, Subscribed, PinPrompt, WaitForCallEnd, HangupCases, RoomClosedCase,
         MediaTimeoutCloses, SelectUnchanged, Goto, HandlerCloses, closeVars, dialogVars, wireVars
<1>7. CASE JoinRoom \/ ConnectRoom
  BY <1>0, <1>7 DEF JoinRoom, ConnectRoom, ConnectFails, Goto, HandlerCloses, closeVars, dialogVars
<1>8. CASE PublishTrack
  <2>1. pc = "publish" /\ roomConn /\ ~roomClosed /\ UNCHANGED <<dialogVars, callVars, regVars, mediaVars>>
    BY <1>8, Zenon DEF PublishTrack
  <2>2. CASE UNCHANGED roomVars
    BY <1>0, <1>8, <2>1, <2>2 DEF PublishTrack, Goto, HandlerCloses, closeVars, dialogVars
  <2>3. CASE HandlerCloses("publish-failed", TRUE) /\ CloseRoomOnce
    <3>1. ~roomConn'
      BY <2>1, <2>3, Zenon DEF CloseRoomOnce
    <3> QED BY <1>0, <2>1, <2>3, <3>1 DEF HandlerCloses, dialogVars
  <2> QED BY <1>8, <2>1, <2>2, <2>3, Zenon DEF PublishTrack
<1>9. CASE BecomeActive \/ HandlerClosed \/ HandlerReturn
  BY <1>0, <1>9 DEF BecomeActive, HandlerClosed, HandlerReturn, SelectUnchanged, Goto,
     HandlerCloses,
                    closeVars, dialogVars
<1>10. ASSUME NEW t \in Closers, Close(t) PROVE HoldInv'
  <2>1. t = "handler" /\ pc # "ring"
    BY <1>0, <1>10 DEF Close, CloseCAS, CloseWithStatus, ByeAnswered, CloseRoom, CloseMediaPort,
                       CloseRegistry, CloseCancel
  <2>2. CASE CloseCAS(t)
    BY <1>0, <2>1, <2>2 DEF CloseCAS, AlreadyClosed, CloseGoto, handlerVars, dialogVars
  <2>3. CASE CloseWithStatus(t)
    BY <1>0, <2>1, <2>3 DEF CloseWithStatus, CloseGoto, Drop, handlerVars
  <2>4. CASE ByeAnswered(t) \/ CloseMediaPort(t) \/ CloseRegistry(t) \/ CloseCancel(t)
    BY <1>0, <2>1, <2>4 DEF ByeAnswered, CloseMediaPort, CloseRegistry, Deregister, CloseCancel,
                            CloseGoto, handlerVars, dialogVars
  <2>5. CASE CloseRoom(t)
    BY <1>0, <2>1, <2>5 DEF CloseRoom, CloseRoomOnce, CloseGoto, handlerVars, dialogVars
  <2> QED BY <1>10, <2>2, <2>3, <2>4, <2>5 DEF Close
<1>11. CASE ServerStop
  BY <1>11 DEF ServerStop
<1>12. CASE Ringer \/ AckArrives \/ TxAckArrives
  BY <1>0, <1>12 DEF Ringer, RingerStops, RingerTick, RingerSend, RingerCancel, Respond, AckArrives,
               TxAckArrives, CallUnchanged, handlerVars, closeVars, dialogVars
<1>13. ASSUME NEW b \in Byes, ByeArrives(b) \/ OnBye(b) PROVE HoldInv'
  BY <1>0, <1>13 DEF ByeArrives, OnBye, AcceptBye, ByeCancels, Drop, LegUnchanged, handlerVars,
                     closeVars, dialogVars, wireVars
<1>14. CASE TransferHangup \/ MaxDuration \/ RoomDisconnects
  BY <1>14 DEF TransferHangup, MaxDuration, RoomDisconnects, LegUnchanged, handlerVars, closeVars,
               dialogVars, wireVars
<1>15. CASE UNCHANGED vars
  BY <1>15 DEF vars, handlerVars, closeVars, dialogVars, wireVars
<1> QED BY <1>1, <1>2, <1>3, <1>4, <1>5, <1>6, <1>7, <1>8, <1>9, <1>10, <1>11, <1>12, <1>13,
           <1>14, <1>15 DEF Next, Handler

\* An ACK is never forgotten, and nothing but Accept gets past "ackwait".
LEMMA AckStep == TypeOK /\ AckInv /\ [Next]_vars => AckInv'
<1> SUFFICES ASSUME TypeOK, AckInv, [Next]_vars PROVE AckInv'
  OBVIOUS
<1> USE DEF AckInv, eventVars, handlerVars, infoVars
<1>1. CASE StartRinging \/ Dispatch \/ RunMedia \/ AcceptBegin
  BY <1>1, Zenon DEF StartRinging, Dispatch, RunMedia, AcceptBegin, Goto, HandlerCloses
<1>2. CASE AcceptSend \/ AcceptWait
  BY <1>2, Zenon DEF AcceptSend, AcceptWait, AcceptReturns, AcceptFails, RetriesOver, Goto,
     HandlerCloses
<1>3. CASE WaitMedia \/ WaitSubscribe \/ PinPrompt \/ WaitForCallEnd
  BY <1>3, Zenon
     DEF WaitMedia, WaitSubscribe, Subscribed, PinPrompt, WaitForCallEnd, HangupCases, RoomClosedCase,
         MediaTimeoutCloses, ReasonRecorded, SelectUnchanged, Goto, HandlerCloses
<1>4. CASE JoinRoom \/ ConnectRoom \/ PublishTrack
  BY <1>4, Zenon DEF JoinRoom, ConnectRoom, ConnectFails, PublishTrack, Goto, HandlerCloses
<1>5. CASE BecomeActive \/ HandlerClosed \/ HandlerReturn
  BY <1>5, Zenon DEF BecomeActive, HandlerClosed, HandlerReturn, SelectUnchanged, Goto,
     HandlerCloses
<1>6. ASSUME NEW t \in Closers, Close(t) PROVE AckInv'
  BY <1>6, Zenon DEF Close, CloseCAS, CloseWithStatus, ByeAnswered, CloseRoom, CloseMediaPort,
     CloseRegistry,
              CloseCancel, CloseGoto
<1>7. CASE ServerStop \/ Ringer \/ AckArrives \/ TxAckArrives
  BY <1>7, Zenon DEF ServerStop, Ringer, RingerStops, RingerTick, RingerSend, RingerCancel,
     AckArrives,
              TxAckArrives, CallUnchanged
<1>8. ASSUME NEW b \in Byes, ByeArrives(b) \/ OnBye(b) PROVE AckInv'
  BY <1>8, Zenon DEF ByeArrives, OnBye, AcceptBye, ByeCancels, LegUnchanged
<1>9. CASE TransferHangup \/ MaxDuration \/ RoomDisconnects
  BY <1>9, Zenon DEF TransferHangup, MaxDuration, RoomDisconnects, LegUnchanged
<1>10. CASE UNCHANGED vars
  BY <1>10, Zenon DEF vars
<1> QED BY <1>1, <1>2, <1>3, <1>4, <1>5, <1>6, <1>7, <1>8, <1>9, <1>10 DEF Next, Handler

\* HoldInv holds throughout, as long as Server.Stop does not run.
LEMMA HoldInvariant ==
    ASSUME ~Shutdown
    PROVE  Spec => [](IInv /\ HoldInv)
<1>1. Init => HoldInv
  BY DEF Init, HoldInv, AloneInv, ReadyInv, ReleaseInv, Closers
<1>2. IInv /\ HoldInv /\ [Next]_vars => HoldInv'
  BY HoldStep
<1> QED BY <1>1, <1>2, Invariant, PTL DEF Spec

-----------------------------------------------------------------------------
(* The theorems *)

\* CallTerminate is emitted once per call, by whichever of the handler and
\* Server.Stop wins the CAS on done, and before handleInvite returns.
THEOREM TerminateOnce == Spec => []EmittedOnce
<1>1. IInv => EmittedOnce
  BY DEF IInv, CloserInv, EmitInv, EmittedOnce
<1> QED BY <1>1, Invariant, PTL

\* The INVITE is answered for good once: neither the ringing goroutine nor a
\* racing close() sends anything after a 200 or an error.
THEOREM FinalResponseOnce ==
    ASSUME ~RetransmitMayFail
    PROVE  Spec => FinalIsFinal
<1>1. AInv /\ [Next]_vars => [(resp \in Final) => UNCHANGED resp]_vars
  BY AnswerStep DEF AnswerMove
<1> QED BY <1>1, AnsweredInvariant, PTL DEF Spec, FinalIsFinal

\* sendBye runs at most once per call, and only in an answered dialog.
THEOREM ByeOnce == Spec => []ByeLegal
<1>1. TInv => ByeLegal
  BY DEF TInv, TalkInv, ByeInv, ByeLegal
<1> QED BY <1>1, TalkInvariant, PTL

\* It may cross a BYE of the caller that waits for c.mu, and never follows one
\* that has dropped the dialog.
THEOREM NoByeCrossing == Spec => NoByeAfterBye
<1>1. TInv => byesSent \in Nat
  BY DEF TInv, IInv, TypeOK, Counters
<1>2. TInv /\ [Next]_vars => [byesSent' > byesSent => ~CallerHungUp]_vars
  BY <1>1, TalkStep DEF ByeMove, wireVars
<1> QED BY <1>2, TalkInvariant, PTL DEF Spec, NoByeAfterBye

\* Only onBye moves the abstract byeIn, in the order of AcceptBye.
LEMMA PhaseStep ==
    ASSUME TypeOK, [Next]_vars
    PROVE  PhaseMove
<1> USE DEF PhaseMove, Phase, CallerHungUp, ByeAccepted
<1>1. ASSUME NEW b \in Byes, ByeArrives(b)
      PROVE  PhaseMove
  BY <1>1 DEF ByeArrives, LegUnchanged, TypeOK, CallTypes, ByeStep, wireVars
<1>2. ASSUME NEW b \in Byes, AcceptBye(b)
      PROVE  PhaseMove
  BY <1>2 DEF AcceptBye, LegUnchanged, TypeOK, CallTypes, ByeStep, wireVars
<1>3. ASSUME NEW b \in Byes, ByeCancels(b)
      PROVE  PhaseMove
  BY <1>3 DEF ByeCancels, LegUnchanged, TypeOK, CallTypes, ByeStep, wireVars
<1>4. CASE UNCHANGED bye
  BY <1>4
<1>5. CASE StartRinging \/ Dispatch \/ RunMedia \/ AcceptBegin
  BY <1>4, <1>5, Zenon DEF StartRinging, Dispatch, RunMedia, AcceptBegin
<1>6. CASE AcceptSend \/ AcceptWait
  BY <1>4, <1>6, Zenon DEF AcceptSend, AcceptWait
<1>7. CASE Quiet
  BY <1>4, <1>7, QuietStep, Zenon DEF SignalVars
<1>8. ASSUME NEW t \in Closers, Close(t)
      PROVE  PhaseMove
  BY <1>4, <1>8, Zenon DEF Close, CloseCAS, CloseWithStatus, ByeAnswered, CloseRoom, CloseMediaPort,
                           CloseRegistry, CloseCancel, CloseGoto
<1>9. CASE ServerStop \/ Ringer \/ AckArrives \/ TxAckArrives
  BY <1>4, <1>9, Zenon DEF ServerStop, Ringer, RingerStops, RingerTick, RingerSend, RingerCancel,
                           AckArrives, TxAckArrives, CallUnchanged
<1>10. CASE TransferHangup \/ MaxDuration \/ RoomDisconnects
  BY <1>4, <1>10, Zenon DEF TransferHangup, MaxDuration, RoomDisconnects
<1>11. CASE UNCHANGED vars
  BY <1>4, <1>11, Zenon DEF vars
<1> QED BY <1>1, <1>2, <1>3, <1>5, <1>6, <1>7, <1>8, <1>9, <1>10, <1>11
        DEF Next, Handler, Quiet, OnBye

\* The detailed call implements the abstract call leg: its responses and BYEs,
\* from whichever goroutine, are the steps of CallLeg.
THEOREM InboundImplementsCallLeg ==
    ASSUME ~RetransmitMayFail
    PROVE  Spec => ImplementsCallLeg
<1>1. Init => Leg!Init
  BY DEF Init, Leg!Init, CallerHungUp, ByeAccepted
<1>2. ASSUME AInv, [Next]_vars
      PROVE  [Leg!Next]_(Leg!legVars)
  <2>1. ByeMove /\ AnswerMove /\ PhaseMove
    BY <1>2, TalkStep, AnswerStep, PhaseStep DEF AInv, TInv, IInv
  <2>2. resp \in Resps
    BY <1>2 DEF AInv, TInv, IInv, TypeOK, SignalTypes
  <2>3. UNCHANGED bye => Phase' = Phase
    BY DEF Phase, CallerHungUp, ByeAccepted
  <2>4. Phase = "dropped" => UNCHANGED wireVars
    BY <2>1 DEF ByeMove, Phase
  <2>5. CASE resp' # resp
    BY <2>1, <2>2, <2>3, <2>4, <2>5
       DEF ByeMove, AnswerMove, wireVars, Phase, Leg!Next, Leg!Answer, Leg!Provisional, Resps, Final
  <2>6. CASE byesSent' # byesSent
    BY <2>1, <2>3, <2>4, <2>6 DEF ByeMove, AnswerMove, wireVars, Phase, Leg!Next, Leg!HangUp
  <2>7. CASE UNCHANGED wireVars
    BY <2>1, <2>7 DEF PhaseMove, Phase, wireVars, Leg!Next, Leg!PeerHangsUp, Leg!DropDialog,
                      Leg!legVars
  <2> QED BY <2>5, <2>6, <2>7 DEF wireVars
<1> QED BY <1>1, <1>2, AnsweredInvariant, PTL DEF Spec, ImplementsCallLeg, Leg!Spec

\* Whichever way and by whichever thread the call is ended, the caller is not
\* left with a dialog that nobody ends or with an INVITE nobody answers.
THEOREM CallerAlwaysTold == Spec => []CallerIsTold
<1>1. TInv => CallerIsTold
  BY DEF TInv, IInv, CloserInv, EmitInv, TalkInv, ToldInv, CloseInv, CallerIsTold, Over
<1> QED BY <1>1, TalkInvariant, PTL

\* Unless Server.Stop interferes, a call that is over holds nothing, on whatever
\* path the handler left.
THEOREM AllReleased ==
    ASSUME ~Shutdown
    PROVE  Spec => []Released
<1>1. IInv /\ HoldInv => Released
  BY DEF IInv, CloserInv, StageInv, HoldInv, ReadyInv, ReleaseInv, Released, Over
<1> QED BY <1>1, HoldInvariant, PTL

\* With InboundWaitACK no call becomes ACTIVE before its ACK, with or without
\* a pin, and whether or not the transaction layer took the ACK.
THEOREM ActiveAfterAck == Spec => []ActiveIsAcked
<1>1. Init => AckInv
  BY DEF Init, AckInv
<1>2. AckInv => ActiveIsAcked
  BY DEF AckInv, ActiveIsAcked
<1> QED BY <1>1, <1>2, AckStep, TypeCorrect, PTL DEF Spec
=============================================================================
