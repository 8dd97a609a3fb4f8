--------------------------- MODULE TransferProofs ---------------------------
(***************************************************************************)
(* Proofs about Transfer, for any number of requests and targets.          *)
(***************************************************************************)
EXTENDS Transfer, TLAPS

\* What every action does to a worker: nothing, or a step of one of them.
WorkerTypes ==
    /\ pending \in 0..MaxRequests
    /\ worker \in [Requests -> {"none", "find", "start", "dialtone", "refer", "response", "await",
                                "end", "send", "close", "delete", "done"}]

\* The inductive invariant behind OneTransfer: a worker that runs is the one
\* pendingTransfers knows of, from before its first step until after its last.
PendingInv == \A p \in Requests : Running(p) => pending = p

ShareInv == WorkerTypes /\ PendingInv

USE MaxRequestsAssumption DEF Requests

LEMMA ShareInit == Init => ShareInv
  BY DEF Init, ShareInv, WorkerTypes, PendingInv, Running

LEMMA ShareNext == ShareInv /\ [Next]_vars => ShareInv'
  <1> SUFFICES ASSUME ShareInv, [Next]_vars PROVE ShareInv'
    OBVIOUS
  <1> USE DEF ShareInv, WorkerTypes, PendingInv, Running
  <1>1. ASSUME NEW r \in Requests, RequestArrives(r) \/ Request(r) \/ RequestCanceled(r)
        PROVE  ShareInv'
    <2>1. CASE RequestArrives(r) \/ CheckProvider(r) \/ ReceiveDone(r) \/ RequestCanceled(r)
      BY <2>1 DEF RequestArrives, CheckProvider, ReceiveDone, RequestCanceled, chanVars, workVars
    <2>2. CASE GetOrCreatePendingTransfer(r)
      BY <2>2 DEF GetOrCreatePendingTransfer, NotPending
    <2> QED BY <1>1, <2>1, <2>2 DEF Request
  <1>2. ASSUME NEW p \in Requests, Worker(p)
        PROVE  ShareInv'
    <2>1. CASE DeletePending(p)
      BY <2>1 DEF DeletePending, WorkerAt
    <2>2. CASE FindCall(p) \/ StartTransfer(p) \/ PlayDialtone(p)
      BY <2>2 DEF FindCall, StartTransfer, PlayDialtone, WorkerAt, chanVars
    <2>3. CASE NewReferReq(p) \/ SendRefer(p) \/ AwaitNotify(p)
      BY <2>3 DEF NewReferReq, ReferRecorded, SendRefer, AwaitNotify, Ends, WorkerAt, chanVars
    <2>4. CASE EndTransfer(p) \/ SendDone(p) \/ CloseDone(p)
      BY <2>4 DEF EndTransfer, SendDone, CloseDone, WorkerAt, chanVars
    <2> QED BY <1>2, <2>1, <2>2, <2>3, <2>4 DEF Worker
  <1>3. ASSUME NEW p \in Requests, HangupFires(p) \/ PeerDecides(p) \/ OnNotify(p)
        PROVE  ShareInv'
    BY <1>3 DEF HangupFires, PeerDecides, OnNotify, HandleNotify, NotifyTimesOut, chanVars, workVars
  <1>4. CASE ByeArrives \/ CallCloses
    BY <1>4 DEF ByeArrives, CallCloses, chanVars, workVars
  <1>5. CASE UNCHANGED vars
    BY <1>5 DEF vars, chanVars, workVars
  <1> QED BY <1>1, <1>2, <1>3, <1>4, <1>5 DEF Next

\* However many requests and retries race with the end of a transfer, no two
\* workers of a call run at once.
THEOREM SharedTransfer == Spec => []OneTransfer
  <1>1. ShareInv => OneTransfer
    BY DEF ShareInv, PendingInv, OneTransfer
  <1> QED BY ShareInit, ShareNext, <1>1, PTL DEF Spec

-----------------------------------------------------------------------------

\* The types that the argument about the results needs.
NotifyTypes ==
    /\ outcome \in [Requests -> Errors]
    /\ peer \in [Requests -> Errors]
    /\ notify \in [Requests -> {"none", "due", "blocked", "done"}]
    /\ referCseq \in 0..MaxRequests

\* Between its REFER and its result a worker is the one referCseq names, and
\* has no result yet.
AwaitInv ==
    \A p \in Requests :
        /\ worker[p] \in {"response", "await"} => referCseq = p
        /\ worker[p] \in {"none", "find", "start", "dialtone", "refer", "response", "await"}
               => outcome[p] = "none"

\* A NOTIFY that waits to deliver its result was sent for the last REFER: it
\* holds c.mu, which the next REFER needs.
BlockedInv ==
    \A n \in Requests : notify[n] = "blocked" => n = referCseq

\* A success was reported before, and what was reported stays.
OwnInv ==
    \A p \in Requests : outcome[p] = "ok" => ctxDone \/ (peer[p] = "ok" /\ notify[p] # "none")

\* A request starts at most one worker.
FreshInv ==
    /\ req \in [Requests -> {"idle", "check", "create", "wait", "returned"}]
    /\ \A r \in Requests : req[r] \in {"idle", "check", "create"} => worker[r] = "none"

OwnerInv == ShareInv /\ FreshInv /\ NotifyTypes /\ AwaitInv /\ BlockedInv /\ OwnInv

LEMMA OwnerInit == Init => OwnerInv
  BY ShareInit DEF Init, OwnerInv, NotifyTypes, FreshInv, AwaitInv, BlockedInv, OwnInv, Errors

LEMMA OwnerNext ==
  ASSUME NotifyHasId PROVE OwnerInv /\ [Next]_vars => OwnerInv'
  <1> SUFFICES ASSUME OwnerInv, [Next]_vars PROVE OwnerInv'
    OBVIOUS
  <1>0. ShareInv'
    BY ShareNext DEF OwnerInv
  <1> USE DEF OwnerInv, NotifyTypes, FreshInv, AwaitInv, BlockedInv, OwnInv, Errors
  <1>1. ASSUME NEW r \in Requests, RequestArrives(r) \/ Request(r) \/ RequestCanceled(r)
        PROVE  OwnerInv'
    <2>1. CASE RequestArrives(r) \/ CheckProvider(r) \/ ReceiveDone(r) \/ RequestCanceled(r)
      <3>1. UNCHANGED <<worker, outcome, referCseq, peer, notify, ctxDone>>
        BY <2>1 DEF RequestArrives, CheckProvider, ReceiveDone, RequestCanceled, workVars, callVars,
                    notifyVars
      <3>2. \/ req[r] = "idle" /\ req' = [req EXCEPT ![r] = "check"]
            \/ req[r] = "check" /\ req' = [req EXCEPT ![r] = "create"]
            \/ req' = [req EXCEPT ![r] = "returned"]
        BY <2>1 DEF RequestArrives, CheckProvider, ReceiveDone, RequestCanceled, Returns
      <3>3. FreshInv'
        BY <3>1, <3>2
      <3> QED BY <1>0, <3>1, <3>3
    <2>2. CASE GetOrCreatePendingTransfer(r)
      BY <1>0, <2>2 DEF GetOrCreatePendingTransfer, Returns, callVars, notifyVars, ShareInv,
                        WorkerTypes
    <2> QED BY <1>1, <2>1, <2>2 DEF Request
  <1>2. ASSUME NEW p \in Requests, Worker(p)
        PROVE  OwnerInv'
    <2> USE DEF ShareInv, WorkerTypes
    <2>1. CASE NewReferReq(p)
      <3>1. \A q \in Requests : worker[q] \in {"response", "await"} => q = p
        BY <2>1 DEF NewReferReq, PendingInv, Running
      <3>2. CASE ReferRecorded(p) /\ UNCHANGED outcome
        <4>1. worker' = [worker EXCEPT ![p] = "response"] /\ referCseq' = p /\ worker[p] = "refer"
          BY <3>2 DEF ReferRecorded, WorkerAt
        <4>2. req' = req /\ notify' = notify /\ peer' = peer /\ ctxDone' = ctxDone
          BY <2>1 DEF NewReferReq, reqVars, notifyVars, callVars
        <4>3. \A n \in Requests : notify[n] # "blocked"
          BY <3>2 DEF ReferRecorded, ReadLocked
        <4>4. AwaitInv'
          BY <3>1, <3>2, <4>1
        <4>5. FreshInv' /\ NotifyTypes' /\ BlockedInv' /\ OwnInv'
          BY <3>2, <4>1, <4>2, <4>3
        <4> QED BY <1>0, <4>4, <4>5
      <3>3. CASE Ends(p, "error") /\ UNCHANGED referCseq
        <4>1. worker[p] = "refer" /\ UNCHANGED <<req, notify, peer, ctxDone>>
          BY <2>1 DEF NewReferReq, reqVars, notifyVars, callVars
        <4>2. AwaitInv'
          BY <3>3, <4>1 DEF Ends
        <4>3. FreshInv' /\ NotifyTypes' /\ BlockedInv' /\ OwnInv'
          BY <3>3, <4>1 DEF Ends
        <4> QED BY <1>0, <4>2, <4>3
      <3> QED BY <2>1, <3>2, <3>3 DEF NewReferReq
    <2>2. CASE AwaitNotify(p)
      <3>0. worker[p] = "await" /\ UNCHANGED <<req, referCseq, peer, ctxDone>>
        BY ONLY <2>2 DEF AwaitNotify, reqVars, callVars
      <3>1. referCseq = p
        BY <3>0
      <3>2. PICK err \in Errors :
                /\ Ends(p, err)
                /\ err = "ok" => ctxDone \/ (peer[p] = "ok" /\ notify[p] = "blocked")
        <4>1. CASE Ends(p, "error")
          BY <4>1
        <4>2. CASE ctxDone /\ Ends(p, "ok")
          <5> WITNESS "ok" \in Errors
          <5> QED BY <4>2, Zenon
        <4>3. CASE \E n \in Requests : notify[n] = "blocked" /\ Ends(p, peer[n])
          BY <3>1, <4>3
        <4> QED BY ONLY <2>2, <4>1, <4>2, <4>3 DEF AwaitNotify
      <3>3. \/ notify' = notify
            \/ \E n \in Requests : notify' = [notify EXCEPT ![n] = "done"]
        BY <2>2 DEF AwaitNotify
      <3>4. AwaitInv'
        BY <3>0, <3>1, <3>2 DEF Ends
      <3>5. FreshInv' /\ NotifyTypes' /\ BlockedInv'
        BY <3>0, <3>1, <3>2, <3>3 DEF Ends
      <3>6. OwnInv'
        BY <3>0, <3>1, <3>2, <3>3 DEF Ends
      <3> QED BY <1>0, <3>4, <3>5, <3>6
    <2>3. CASE FindCall(p) \/ SendRefer(p)
      <3>1. UNCHANGED <<req, referCseq, peer, notify, ctxDone>>
        BY <2>3 DEF FindCall, SendRefer, reqVars, callVars, notifyVars
      <3>2. CASE \E w \in {"start", "await"} : /\ worker' = [worker EXCEPT ![p] = w]
                                               /\ UNCHANGED outcome
        BY <1>0, <2>3, <3>1, <3>2 DEF FindCall, SendRefer
      <3>3. CASE \E w \in {"send", "end"} : /\ worker' = [worker EXCEPT ![p] = w]
                                            /\ outcome' = [outcome EXCEPT ![p] = "error"]
        BY <1>0, <2>3, <3>1, <3>3 DEF FindCall, SendRefer
      <3> QED BY <2>3, <3>2, <3>3 DEF FindCall, SendRefer, Ends
    <2>5. CASE StartTransfer(p) \/ PlayDialtone(p)
      <3>1. UNCHANGED <<req, outcome, referCseq, peer, notify, ctxDone>>
        BY <2>5 DEF StartTransfer, PlayDialtone, reqVars, callVars, notifyVars
      <3>2. \/ worker[p] = "start" /\ worker' = [worker EXCEPT ![p] = "dialtone"]
            \/ worker[p] = "dialtone" /\ worker' = [worker EXCEPT ![p] = "refer"]
        BY <2>5 DEF StartTransfer, PlayDialtone, WorkerAt
      <3> QED BY <1>0, <3>1, <3>2
    <2>4. CASE EndTransfer(p) \/ SendDone(p) \/ CloseDone(p) \/ DeletePending(p)
      BY <1>0, <2>4 DEF EndTransfer, SendDone, CloseDone, DeletePending, WorkerAt, reqVars,
                        callVars, notifyVars
    <2> QED BY <1>2, <2>1, <2>2, <2>3, <2>4, <2>5 DEF Worker
  <1>3. ASSUME NEW p \in Requests, HangupFires(p) \/ PeerDecides(p) \/ OnNotify(p)
        PROVE  OwnerInv'
    <2>1. CASE HangupFires(p)
      BY <1>0, <2>1 DEF HangupFires, reqVars, notifyVars
    <2>2. CASE PeerDecides(p)
      BY <1>0, <2>2 DEF PeerDecides, FinalStatus, reqVars, workVars, callVars
    <2>3. CASE OnNotify(p)
      <3>1. UNCHANGED <<req, worker, outcome, referCseq, peer, ctxDone>>
        BY <2>3 DEF OnNotify, HandleNotify, NotifyTimesOut, reqVars, workVars, callVars
      <3>2. \/ notify[p] # "none" /\ notify' = [notify EXCEPT ![p] = "done"]
            \/ p = referCseq /\ notify[p] # "none" /\ notify' = [notify EXCEPT ![p] = "blocked"]
        BY <2>3 DEF OnNotify, HandleNotify, NotifyTimesOut, CurrentRefer
      <3>3. NotifyTypes' /\ BlockedInv' /\ OwnInv'
        BY <3>1, <3>2
      <3> QED BY <1>0, <3>1, <3>3
    <2> QED BY <1>3, <2>1, <2>2, <2>3
  <1>4. CASE ByeArrives \/ CallCloses
    BY <1>0, <1>4 DEF ByeArrives, CallCloses, reqVars, workVars, notifyVars
  <1>5. CASE UNCHANGED vars
    BY <1>0, <1>5 DEF vars, reqVars, workVars, callVars, notifyVars
  <1> QED BY <1>1, <1>2, <1>3, <1>4, <1>5 DEF Next

\* With NOTIFYs that name their REFER, a transfer that succeeds was reported by
\* the peer for its own REFER, or the call ended: c.mu and the unbuffered
\* referDone keep old results away, as the comment on referDone says.
THEOREM OwnResult == ASSUME NotifyHasId PROVE Spec => []ResultIsOwn
  <1>1. OwnerInv => ResultIsOwn
    BY DEF OwnerInv, OwnInv, ResultIsOwn
  <1>2. OwnerInv /\ [Next]_vars => OwnerInv'
    BY OwnerNext
  <1> QED BY OwnerInit, <1>1, <1>2, PTL DEF Spec
-----------------------------------------------------------------------------

\* The types that the argument about the audio needs.
AudioTypes ==
    /\ outcome \in [Requests -> Errors]
    /\ taken \in [Requests -> {"no", "room", "none"}]
    /\ output \in {"room", "none"}
    /\ hangup \in [Requests -> {"off", "armed", "fired"}]
    /\ peer \in [Requests -> Errors]
    /\ notify \in [Requests -> {"none", "due", "blocked", "done"}]

\* A NOTIFY has a result, and a worker that ends has one.
ResultInv ==
    \A p \in Requests :
        /\ notify[p] # "none" => peer[p] \in FinalStatus
        /\ worker[p] = "end" => outcome[p] \in FinalStatus

\* The dial tone plays only while its worker can still take it back, and the
\* timer that hangs up is started by its last step.
ToneInv ==
    \A p \in Requests :
        /\ taken[p] # "no" => worker[p] \in {"refer", "response", "await", "end"}
        /\ hangup[p] # "off" => worker[p] \in {"send", "close", "delete", "done"}

\* Somebody answers for an output that is not the room's: a worker that will
\* restore it, a timer that will hang up, or the end of the call.
OutputInv ==
    /\ \A p \in Requests : taken[p] # "no" => output = "none"
    /\ output # "room" => \/ ~registered \/ ctxDone
                          \/ \E p \in Requests : taken[p] = "room" \/ hangup[p] # "off"

AudioInv == ShareInv /\ FreshInv /\ AudioTypes /\ ResultInv /\ ToneInv /\ OutputInv

LEMMA AudioInit == Init => AudioInv
  BY ShareInit DEF Init, AudioInv, FreshInv, AudioTypes, ResultInv, ToneInv, OutputInv, Errors

\* A request starts its worker once.
LEMMA FreshNext == ShareInv /\ FreshInv /\ [Next]_vars => FreshInv'
  <1> SUFFICES ASSUME ShareInv, FreshInv, [Next]_vars PROVE FreshInv'
    OBVIOUS
  <1> USE DEF ShareInv, WorkerTypes, FreshInv, reqVars, chanVars, workVars, callVars, notifyVars
  <1>1. ASSUME NEW r \in Requests,
               RequestArrives(r) \/ CheckProvider(r) \/ ReceiveDone(r) \/ RequestCanceled(r)
        PROVE  FreshInv'
    BY <1>1 DEF RequestArrives, CheckProvider, ReceiveDone, RequestCanceled, Returns
  <1>2. ASSUME NEW r \in Requests, GetOrCreatePendingTransfer(r)
        PROVE  FreshInv'
    BY <1>2 DEF GetOrCreatePendingTransfer, Returns
  <1>3. ASSUME NEW p \in Requests, FindCall(p) \/ StartTransfer(p)
        PROVE  FreshInv'
    BY <1>3 DEF FindCall, StartTransfer, WorkerAt
  <1>4. ASSUME NEW p \in Requests, PlayDialtone(p)
        PROVE  FreshInv'
    BY <1>4 DEF PlayDialtone, WorkerAt
  <1>5. ASSUME NEW p \in Requests, NewReferReq(p) \/ SendRefer(p)
        PROVE  FreshInv'
    BY <1>5 DEF NewReferReq, ReferRecorded, SendRefer, Ends, WorkerAt
  <1>6. ASSUME NEW p \in Requests, AwaitNotify(p)
        PROVE  FreshInv'
    BY <1>6 DEF AwaitNotify, Ends
  <1>7. ASSUME NEW p \in Requests, EndTransfer(p)
        PROVE  FreshInv'
    BY <1>7 DEF EndTransfer, WorkerAt
  <1>8. ASSUME NEW p \in Requests, SendDone(p) \/ CloseDone(p) \/ DeletePending(p)
        PROVE  FreshInv'
    BY <1>8 DEF SendDone, CloseDone, DeletePending, WorkerAt
  <1>9. ASSUME NEW p \in Requests, HangupFires(p) \/ PeerDecides(p)
        PROVE  FreshInv'
    BY <1>9 DEF HangupFires, PeerDecides
  <1>10. ASSUME NEW p \in Requests, OnNotify(p)
        PROVE  FreshInv'
    BY <1>10 DEF OnNotify, HandleNotify, NotifyTimesOut
  <1>11. CASE ByeArrives \/ CallCloses
    BY <1>11 DEF ByeArrives, CallCloses
  <1>12. CASE UNCHANGED vars
    BY <1>12 DEF vars
  <1> QED BY <1>1, <1>2, <1>3, <1>4, <1>5, <1>6, <1>7, <1>8, <1>9, <1>10, <1>11, <1>12
             DEF Next, Request, Worker

\* The types.
LEMMA AudioTypesNext == AudioTypes /\ [Next]_vars => AudioTypes'
  <1> SUFFICES ASSUME AudioTypes, [Next]_vars PROVE AudioTypes'
    OBVIOUS
  <1> USE DEF AudioTypes, Errors, FinalStatus, reqVars, chanVars, workVars, callVars, notifyVars
  <1>1. ASSUME NEW r \in Requests,
               RequestArrives(r) \/ CheckProvider(r) \/ ReceiveDone(r) \/ RequestCanceled(r)
        PROVE  AudioTypes'
    BY <1>1 DEF RequestArrives, CheckProvider, ReceiveDone, RequestCanceled, Returns
  <1>2. ASSUME NEW r \in Requests, GetOrCreatePendingTransfer(r)
        PROVE  AudioTypes'
    BY <1>2 DEF GetOrCreatePendingTransfer, Returns
  <1>3. ASSUME NEW p \in Requests, FindCall(p) \/ StartTransfer(p)
        PROVE  AudioTypes'
    BY <1>3 DEF FindCall, StartTransfer, WorkerAt
  <1>4. ASSUME NEW p \in Requests, PlayDialtone(p)
        PROVE  AudioTypes'
    BY <1>4 DEF PlayDialtone, WorkerAt
  <1>5. ASSUME NEW p \in Requests, NewReferReq(p) \/ SendRefer(p)
        PROVE  AudioTypes'
    BY <1>5 DEF NewReferReq, ReferRecorded, SendRefer, Ends, WorkerAt
  <1>6. ASSUME NEW p \in Requests, AwaitNotify(p)
        PROVE  AudioTypes'
    BY <1>6 DEF AwaitNotify, Ends
  <1>7. ASSUME NEW p \in Requests, EndTransfer(p)
        PROVE  AudioTypes'
    BY <1>7 DEF EndTransfer, OutputRestored, WorkerAt
  <1>8. ASSUME NEW p \in Requests, SendDone(p) \/ CloseDone(p) \/ DeletePending(p)
        PROVE  AudioTypes'
    BY <1>8 DEF SendDone, CloseDone, DeletePending, WorkerAt
  <1>9. ASSUME NEW p \in Requests, HangupFires(p) \/ PeerDecides(p)
        PROVE  AudioTypes'
    <2>1. CASE HangupFires(p)
      BY <2>1 DEF HangupFires
    <2>2. CASE PeerDecides(p)
      BY <2>2 DEF PeerDecides
    <2> QED BY <1>9, <2>1, <2>2
  <1>10. ASSUME NEW p \in Requests, OnNotify(p)
        PROVE  AudioTypes'
    BY <1>10 DEF OnNotify, HandleNotify, NotifyTimesOut
  <1>11. CASE ByeArrives \/ CallCloses
    BY <1>11 DEF ByeArrives, CallCloses
  <1>12. CASE UNCHANGED vars
    BY <1>12 DEF vars
  <1> QED BY <1>1, <1>2, <1>3, <1>4, <1>5, <1>6, <1>7, <1>8, <1>9, <1>10, <1>11, <1>12
             DEF Next, Request, Worker

\* Results come from the peer, from a timeout or from the end of the call.
LEMMA ResultNext == ShareInv /\ AudioTypes /\ ResultInv /\ [Next]_vars => ResultInv'
  <1> SUFFICES ASSUME ShareInv, AudioTypes, ResultInv, [Next]_vars PROVE ResultInv'
    OBVIOUS
  <1> USE DEF ShareInv, WorkerTypes, AudioTypes, ResultInv, Errors, FinalStatus, reqVars,
              chanVars, workVars, callVars, notifyVars
  <1>1. ASSUME NEW r \in Requests,
               RequestArrives(r) \/ CheckProvider(r) \/ ReceiveDone(r) \/ RequestCanceled(r)
        PROVE  ResultInv'
    BY <1>1 DEF RequestArrives, CheckProvider, ReceiveDone, RequestCanceled, Returns
  <1>2. ASSUME NEW r \in Requests, GetOrCreatePendingTransfer(r)
        PROVE  ResultInv'
    BY <1>2 DEF GetOrCreatePendingTransfer, Returns
  <1>3. ASSUME NEW p \in Requests, FindCall(p) \/ StartTransfer(p)
        PROVE  ResultInv'
    BY <1>3 DEF FindCall, StartTransfer, WorkerAt
  <1>4. ASSUME NEW p \in Requests, PlayDialtone(p)
        PROVE  ResultInv'
    BY <1>4 DEF PlayDialtone, WorkerAt
  <1>5. ASSUME NEW p \in Requests, NewReferReq(p) \/ SendRefer(p)
        PROVE  ResultInv'
    BY <1>5 DEF NewReferReq, ReferRecorded, SendRefer, Ends, WorkerAt
  <1>6. ASSUME NEW p \in Requests, AwaitNotify(p)
        PROVE  ResultInv'
    BY <1>6 DEF AwaitNotify, Ends
  <1>7. ASSUME NEW p \in Requests, EndTransfer(p)
        PROVE  ResultInv'
    BY <1>7 DEF EndTransfer, WorkerAt
  <1>8. ASSUME NEW p \in Requests, SendDone(p) \/ CloseDone(p) \/ DeletePending(p)
        PROVE  ResultInv'
    BY <1>8 DEF SendDone, CloseDone, DeletePending, WorkerAt
  <1>9. ASSUME NEW p \in Requests, HangupFires(p) \/ PeerDecides(p)
        PROVE  ResultInv'
    BY <1>9 DEF HangupFires, PeerDecides
  <1>10. ASSUME NEW p \in Requests, OnNotify(p)
        PROVE  ResultInv'
    BY <1>10 DEF OnNotify, HandleNotify, NotifyTimesOut
  <1>11. CASE ByeArrives \/ CallCloses
    BY <1>11 DEF ByeArrives, CallCloses
  <1>12. CASE UNCHANGED vars
    BY <1>12 DEF vars
  <1> QED BY <1>1, <1>2, <1>3, <1>4, <1>5, <1>6, <1>7, <1>8, <1>9, <1>10, <1>11, <1>12
             DEF Next, Request, Worker

\* The dial tone and the timer.
LEMMA ToneNext == ShareInv /\ FreshInv /\ AudioTypes /\ ToneInv /\ [Next]_vars => ToneInv'
  <1> SUFFICES ASSUME ShareInv, FreshInv, AudioTypes, ToneInv, [Next]_vars PROVE ToneInv'
    OBVIOUS
  <1> USE DEF ShareInv, WorkerTypes, FreshInv, AudioTypes, ToneInv, reqVars, chanVars, workVars,
              callVars, notifyVars
  <1>1. ASSUME NEW r \in Requests,
               RequestArrives(r) \/ CheckProvider(r) \/ ReceiveDone(r) \/ RequestCanceled(r)
        PROVE  ToneInv'
    BY <1>1 DEF RequestArrives, CheckProvider, ReceiveDone, RequestCanceled, Returns
  <1>2. ASSUME NEW r \in Requests, GetOrCreatePendingTransfer(r)
        PROVE  ToneInv'
    BY <1>2 DEF GetOrCreatePendingTransfer, Returns
  <1>3. ASSUME NEW p \in Requests, FindCall(p) \/ StartTransfer(p)
        PROVE  ToneInv'
    BY <1>3 DEF FindCall, StartTransfer, WorkerAt
  <1>4. ASSUME NEW p \in Requests, PlayDialtone(p)
        PROVE  ToneInv'
    BY <1>4 DEF PlayDialtone, WorkerAt
  <1>5. ASSUME NEW p \in Requests, NewReferReq(p) \/ SendRefer(p)
        PROVE  ToneInv'
    BY <1>5 DEF NewReferReq, ReferRecorded, SendRefer, Ends, WorkerAt
  <1>6. ASSUME NEW p \in Requests, AwaitNotify(p)
        PROVE  ToneInv'
    <2>1. /\ worker[p] = "await" /\ worker' = [worker EXCEPT ![p] = "end"]
          /\ UNCHANGED <<taken, hangup>>
      BY <1>6 DEF AwaitNotify, Ends
    <2> QED BY <2>1
  <1>7. ASSUME NEW p \in Requests, EndTransfer(p)
        PROVE  ToneInv'
    BY <1>7 DEF EndTransfer, WorkerAt
  <1>8. ASSUME NEW p \in Requests, SendDone(p) \/ CloseDone(p) \/ DeletePending(p)
        PROVE  ToneInv'
    <2>1. /\ UNCHANGED <<taken, hangup>>
          /\ \E x, y \in {"send", "close", "delete", "done"} :
                worker[p] = x /\ worker' = [worker EXCEPT ![p] = y]
      BY <1>8 DEF SendDone, CloseDone, DeletePending, WorkerAt
    <2> QED BY <2>1
  <1>9. ASSUME NEW p \in Requests, HangupFires(p) \/ PeerDecides(p)
        PROVE  ToneInv'
    BY <1>9 DEF HangupFires, PeerDecides
  <1>10. ASSUME NEW p \in Requests, OnNotify(p)
        PROVE  ToneInv'
    BY <1>10 DEF OnNotify, HandleNotify, NotifyTimesOut
  <1>11. CASE ByeArrives \/ CallCloses
    BY <1>11 DEF ByeArrives, CallCloses
  <1>12. CASE UNCHANGED vars
    BY <1>12 DEF vars
  <1> QED BY <1>1, <1>2, <1>3, <1>4, <1>5, <1>6, <1>7, <1>8, <1>9, <1>10, <1>11, <1>12
             DEF Next, Request, Worker

\* The last step of a worker restores the output, or starts the timer.
LEMMA OutputNext == ShareInv /\ AudioTypes /\ ResultInv /\ ToneInv /\ OutputInv /\ [Next]_vars => OutputInv'
  <1> SUFFICES ASSUME ShareInv, AudioTypes, ResultInv, ToneInv, OutputInv, [Next]_vars PROVE OutputInv'
    OBVIOUS
  <1> USE DEF AudioTypes, OutputInv, reqVars, chanVars, workVars, callVars, notifyVars
  <1>1. ASSUME NEW r \in Requests,
               RequestArrives(r) \/ CheckProvider(r) \/ ReceiveDone(r) \/ RequestCanceled(r)
        PROVE  OutputInv'
    BY <1>1 DEF RequestArrives, CheckProvider, ReceiveDone, RequestCanceled, Returns
  <1>2. ASSUME NEW r \in Requests, GetOrCreatePendingTransfer(r)
        PROVE  OutputInv'
    BY <1>2 DEF GetOrCreatePendingTransfer, Returns
  <1>3. ASSUME NEW p \in Requests, FindCall(p) \/ StartTransfer(p)
        PROVE  OutputInv'
    BY <1>3 DEF FindCall, StartTransfer, WorkerAt
  <1>4. ASSUME NEW p \in Requests, PlayDialtone(p)
        PROVE  OutputInv'
    <2>1. /\ taken[p] = "no" /\ UNCHANGED <<registered, ctxDone, hangup>>
          /\ \A q \in Requests : q # p => taken'[q] = taken[q]
      BY <1>4 DEF PlayDialtone, WorkerAt, ToneInv
    <2>2. CASE UNCHANGED <<output, taken>>
      BY <2>1, <2>2
    <2>3. CASE output' = "none" /\ taken' = [taken EXCEPT ![p] = output]
      <3>1. CASE output = "room"
        BY <2>1, <2>3, <3>1
      <3>2. CASE output # "room"
        BY <2>1, <2>3, <3>2
      <3> QED BY <3>1, <3>2
    <2> QED BY <1>4, <2>2, <2>3 DEF PlayDialtone
  <1>5. ASSUME NEW p \in Requests, NewReferReq(p) \/ SendRefer(p)
        PROVE  OutputInv'
    BY <1>5 DEF NewReferReq, ReferRecorded, SendRefer, Ends, WorkerAt
  <1>6. ASSUME NEW p \in Requests, AwaitNotify(p)
        PROVE  OutputInv'
    BY <1>6 DEF AwaitNotify, Ends
  <1>7. ASSUME NEW p \in Requests, EndTransfer(p)
        PROVE  OutputInv'
    <2>1. /\ worker[p] = "end" /\ outcome[p] \in FinalStatus
          /\ taken' = [taken EXCEPT ![p] = "no"]
          /\ hangup' = [hangup EXCEPT ![p] = IF outcome[p] = "ok" THEN "armed" ELSE "off"]
          /\ UNCHANGED <<registered, ctxDone>>
      BY <1>7 DEF EndTransfer, WorkerAt, ResultInv
    <2>2. \A q \in Requests : taken[q] # "no" => q = p
      BY <2>1 DEF ToneInv, ShareInv, PendingInv, Running
    <2>3. hangup[p] = "off"
      BY <2>1 DEF ToneInv
    <2>4. \A q \in Requests : taken'[q] = "no"
      BY <2>1, <2>2
    <2>5. CASE outcome[p] = "ok"
      BY <2>1, <2>4, <2>5
    <2>6. CASE outcome[p] = "error"
      <3>1. \A q \in Requests : hangup'[q] = hangup[q]
        BY <2>1, <2>3, <2>6
      <3>2. CASE taken[p] = "room" /\ registered
        BY <1>7, <2>4, <2>6, <3>2 DEF EndTransfer, OutputRestored
      <3>3. CASE taken[p] # "room" \/ ~registered
        <4>1. UNCHANGED output
          BY <1>7, <2>6, <3>3 DEF EndTransfer, OutputRestored
        <4> QED BY <2>1, <2>2, <2>4, <3>1, <3>3, <4>1
      <3> QED BY <3>2, <3>3
    <2> QED BY <2>1, <2>5, <2>6 DEF FinalStatus
  <1>8. ASSUME NEW p \in Requests, SendDone(p) \/ CloseDone(p) \/ DeletePending(p)
        PROVE  OutputInv'
    BY <1>8 DEF SendDone, CloseDone, DeletePending, WorkerAt
  <1>9. ASSUME NEW p \in Requests, HangupFires(p) \/ PeerDecides(p)
        PROVE  OutputInv'
    BY <1>9 DEF HangupFires, PeerDecides
  <1>10. ASSUME NEW p \in Requests, OnNotify(p)
        PROVE  OutputInv'
    BY <1>10 DEF OnNotify, HandleNotify, NotifyTimesOut
  <1>11. CASE ByeArrives \/ CallCloses
    BY <1>11 DEF ByeArrives, CallCloses
  <1>12. CASE UNCHANGED vars
    BY <1>12 DEF vars
  <1> QED BY <1>1, <1>2, <1>3, <1>4, <1>5, <1>6, <1>7, <1>8, <1>9, <1>10, <1>11, <1>12
             DEF Next, Request, Worker

LEMMA AudioNext == AudioInv /\ [Next]_vars => AudioInv'
  BY ShareNext, FreshNext, AudioTypesNext, ResultNext, ToneNext, OutputNext DEF AudioInv

\* Whatever became of a transfer, and whatever requests raced with it, a call
\* that goes on has the room's audio: no dial tone and no closed output is left
\* behind.
THEOREM AudioAlwaysReturns == Spec => []AudioReturns
  <1>1. AudioInv => AudioReturns
    BY DEF AudioInv, ToneInv, OutputInv, AudioReturns, Running
  <1> QED BY AudioInit, AudioNext, <1>1, PTL DEF Spec
=============================================================================
