------------------------------ MODULE Transfer ------------------------------
(***************************************************************************)
(* Transferring a call: Service.transferSIPParticipant (pkg/sip/service.go)*)
(* with its pendingTransfers, the goroutine that runs the transfer, the    *)
(* REFER of the signalling leg and the NOTIFY requests that report its     *)
(* outcome (pkg/sip/inbound.go, protocol.go).  Inbound and outbound legs   *)
(* run the same protocol; the lines mapped are the inbound ones.           *)
(*                                                                         *)
(* One call and the requests made for it.  A PendingTransfer, its worker   *)
(* goroutine and its REFER are named after the request that created them.  *)
(***************************************************************************)
EXTENDS Naturals

CONSTANTS
    MaxRequests,  \* bound: how many TransferSIPParticipant requests are made
    Targets,      \* the values of transferTo
    NotifyHasId   \* the NOTIFYs carry the CSeq of their REFER (Event: refer;id=...)

ASSUME MaxRequestsAssumption == MaxRequests \in Nat
ASSUME NotifyHasIdAssumption == NotifyHasId \in BOOLEAN

VARIABLES
    (* the requests *)
    req,         \* where each request is
    target,      \* its TransferTo
    waits,       \* the PendingTransfer it waits for; 0 if none
    answer,      \* what it returned
    (* Service *)
    pending,     \* pendingTransfers of the call; 0 if none
    chan,        \* what is in PendingTransfer.Done
    chanClosed,  \* Done is closed
    (* the workers *)
    worker,      \* where the goroutine of each PendingTransfer is
    outcome,     \* the error of processParticipantTransfer
    taken,       \* the output it has swapped for the dial tone; "no" if it has not
    record,      \* the SIPTransferInfo it has reported
    hangup,      \* its referByeTimeout timer
    (* the call and its leg *)
    registered,  \* the call is in byLocalTag, and done is not set
    established, \* invite # nil /\ inviteOk # nil
    ctxDone,     \* the call's context is cancelled
    output,      \* what the room's output is switched to
    referCseq,   \* the REFER of referCseq; 0 if none
    (* the peer *)
    peer,        \* the outcome of each REFER at the peer
    notify       \* the NOTIFY that reports it

reqVars    == <<req, target, waits, answer>>
chanVars   == <<pending, chan, chanClosed>>
workVars   == <<worker, outcome, taken, record, hangup>>
callVars   == <<registered, established, ctxDone>>
notifyVars == <<peer, notify>>
vars == <<reqVars, chanVars, workVars, callVars, output, referCseq, notifyVars>>

-----------------------------------------------------------------------------

Requests == 1..MaxRequests
Errors   == {"none", "ok", "error"}

\* Every variable holds a value the Go fields can hold.
TypeOK ==
    /\ req \in [Requests -> {"idle", "check", "create", "wait", "returned"}]
    /\ target \in [Requests -> Targets]
    /\ waits \in [Requests -> 0..MaxRequests]
    /\ answer \in [Requests -> {"none", "ok", "error", "refused", "canceled"}]
    /\ pending \in 0..MaxRequests
    /\ chan \in [Requests -> Errors]
    /\ chanClosed \in [Requests -> BOOLEAN]
    /\ worker \in [Requests -> {"none", "find", "start", "dialtone", "refer", "response", "await",
                                "end", "send", "close", "delete", "done"}]
    /\ outcome \in [Requests -> Errors]
    /\ taken \in [Requests -> {"no", "room", "none"}]
    /\ record \in [Requests -> {"none", "ongoing", "successful", "failed", "unreported"}]
    /\ hangup \in [Requests -> {"off", "armed", "fired"}]
    /\ registered \in BOOLEAN /\ established \in BOOLEAN /\ ctxDone \in BOOLEAN
    /\ output \in {"room", "none"}
    /\ referCseq \in 0..MaxRequests
    /\ peer \in [Requests -> Errors]
    /\ notify \in [Requests -> {"none", "due", "blocked", "done"}]

\* An established call, and requests to be made.  Targets are interchangeable,
\* so it does not matter which one the first request names.
Init ==
    /\ req = [r \in Requests |-> "idle"]
    /\ target \in [Requests -> Targets]
    /\ 1 \in Requests => target[1] = CHOOSE t \in Targets : TRUE
    /\ waits = [r \in Requests |-> 0]
    /\ answer = [r \in Requests |-> "none"]
    /\ pending = 0
    /\ chan = [r \in Requests |-> "none"]
    /\ chanClosed = [r \in Requests |-> FALSE]
    /\ worker = [r \in Requests |-> "none"]
    /\ outcome = [r \in Requests |-> "none"]
    /\ taken = [r \in Requests |-> "no"]
    /\ record = [r \in Requests |-> "none"]
    /\ hangup = [r \in Requests |-> "off"]
    /\ registered = TRUE /\ established = TRUE /\ ctxDone = FALSE
    /\ output = "room"
    /\ referCseq = 0
    /\ peer = [r \in Requests |-> "none"]
    /\ notify = [r \in Requests |-> "none"]

-----------------------------------------------------------------------------
(* transferSIPParticipant *)

\* A request arrives: a first one, a retry, or one of somebody else.
RequestArrives(r) ==
    /\ req[r] = "idle"
    /\ r > 1 => req[r - 1] # "idle"
    /\ req' = [req EXCEPT ![r] = "check"]
    /\ UNCHANGED <<target, waits, answer, chanVars, workVars, callVars, output, referCseq,
                   notifyVars>>

Returns(r, a) ==
    /\ req' = [req EXCEPT ![r] = "returned"]
    /\ answer' = [answer EXCEPT ![r] = a]

\* checkInternalProviderRequest: the call must be known, and its provider
\* must not prevent transfers.
CheckProvider(r) ==
    /\ req[r] = "check"
    /\ \/ /\ registered
          /\ req' = [req EXCEPT ![r] = "create"]
          /\ UNCHANGED answer
       \/ Returns(r, "refused")
    /\ UNCHANGED <<target, waits, chanVars, workVars, callVars, output, referCseq, notifyVars>>

\* Mutant: every request starts a transfer of its own.
NoneIsPending == TRUE

NotPending == pending = 0

\* getOrCreatePendingTransfer, and the start of the worker of a new one.
GetOrCreatePendingTransfer(r) ==
    /\ req[r] = "create"
    /\ \/ /\ NotPending
          /\ pending' = r
          /\ worker' = [worker EXCEPT ![r] = "find"]
          /\ req' = [req EXCEPT ![r] = "wait"]
          /\ waits' = [waits EXCEPT ![r] = r]
          /\ UNCHANGED answer
       \/ /\ ~NotPending
          /\ target[pending] = target[r]
          /\ req' = [req EXCEPT ![r] = "wait"]
          /\ waits' = [waits EXCEPT ![r] = pending]
          /\ UNCHANGED <<pending, worker, answer>>
       \/ /\ ~NotPending
          /\ target[pending] # target[r]
          /\ Returns(r, "refused")
          /\ UNCHANGED <<pending, worker, waits>>
    /\ UNCHANGED <<target, chan, chanClosed, outcome, taken, record, hangup, callVars, output,
                   referCseq, notifyVars>>

\* The select on pending.Done: the error in it, or nil from a closed channel.
ReceiveDone(r) ==
    /\ req[r] = "wait"
    /\ \/ /\ chan[waits[r]] # "none"
          /\ Returns(r, chan[waits[r]])
          /\ chan' = [chan EXCEPT ![waits[r]] = "none"]
       \/ /\ chan[waits[r]] = "none"
          /\ chanClosed[waits[r]]
          /\ Returns(r, "ok")
          /\ UNCHANGED chan
    /\ UNCHANGED <<target, waits, pending, chanClosed, workVars, callVars, output, referCseq,
                   notifyVars>>

\* The request's context ends first: the caller will retry.
RequestCanceled(r) ==
    /\ req[r] = "wait"
    /\ Returns(r, "canceled")
    /\ UNCHANGED <<target, waits, chanVars, workVars, callVars, output, referCseq, notifyVars>>

-----------------------------------------------------------------------------
(* The worker *)

WorkerAt(p, from, to) ==
    /\ worker[p] = from
    /\ worker' = [worker EXCEPT ![p] = to]

\* The transfer has ended with an error, or without.
Ends(p, err) ==
    /\ worker' = [worker EXCEPT ![p] = "end"]
    /\ outcome' = [outcome EXCEPT ![p] = err]

\* processParticipantTransfer looks the call up again, after the checks.
FindCall(p) ==
    /\ worker[p] = "find"
    /\ \/ /\ registered
          /\ worker' = [worker EXCEPT ![p] = "start"]
          /\ UNCHANGED outcome
       \/ /\ ~registered
          /\ worker' = [worker EXCEPT ![p] = "send"]
          /\ outcome' = [outcome EXCEPT ![p] = "error"]
    /\ UNCHANGED <<reqVars, chanVars, taken, record, hangup, callVars, output, referCseq,
                   notifyVars>>

\* StartTransfer.  Its report has all of the transfer's time.
StartTransfer(p) ==
    /\ WorkerAt(p, "start", "dialtone")
    /\ record' = [record EXCEPT ![p] = "ongoing"]
    /\ UNCHANGED <<reqVars, chanVars, outcome, taken, hangup, callVars, output, referCseq,
                   notifyVars>>

\* With a dial tone the room's output is swapped out.
PlayDialtone(p) ==
    /\ WorkerAt(p, "dialtone", "refer")
    /\ \/ UNCHANGED <<output, taken>>
       \/ /\ registered
          /\ output' = "none"
          /\ taken' = [taken EXCEPT ![p] = output]
    /\ UNCHANGED <<reqVars, chanVars, outcome, record, hangup, callVars, referCseq, notifyVars>>

\* c.mu is read-locked by a NOTIFY that waits for referDone.
ReadLocked == \E n \in Requests : notify[n] = "blocked"

\* Mutant: the REFER is built while a NOTIFY is being delivered.
ReferUnlocked(p) ==
    /\ referCseq' = p
    /\ WorkerAt(p, "refer", "response")

\* The CSeq of the REFER is recorded, under c.mu.
ReferRecorded(p) ==
    /\ ~ReadLocked
    /\ referCseq' = p
    /\ WorkerAt(p, "refer", "response")

\* newReferReq.
NewReferReq(p) ==
    /\ worker[p] = "refer"
    /\ \/ /\ established
          /\ ReferRecorded(p)
          /\ UNCHANGED outcome
       \/ /\ ~established
          /\ ~ReadLocked
          /\ Ends(p, "error")
          /\ UNCHANGED referCseq
    /\ UNCHANGED <<reqVars, chanVars, taken, record, hangup, callVars, output, notifyVars>>

\* sendRefer: the peer accepts the REFER, or it fails.
SendRefer(p) ==
    /\ worker[p] = "response"
    /\ \/ /\ worker' = [worker EXCEPT ![p] = "await"]
          /\ UNCHANGED outcome
       \/ Ends(p, "error")
    /\ UNCHANGED <<reqVars, chanVars, taken, record, hangup, callVars, output, referCseq,
                   notifyVars>>

\* The select of TransferCall: the end of its context, the end of the call, which is not
\* an error, or the result from a NOTIFY that is waiting to deliver it.
AwaitNotify(p) ==
    /\ worker[p] = "await"
    /\ \/ /\ Ends(p, "error")
          /\ UNCHANGED notify
       \/ /\ ctxDone
          /\ Ends(p, "ok")
          /\ UNCHANGED notify
       \/ \E n \in Requests : /\ notify[n] = "blocked"
                              /\ Ends(p, peer[n])
                              /\ notify' = [notify EXCEPT ![n] = "done"]
    /\ UNCHANGED <<reqVars, chanVars, taken, record, hangup, callVars, output, referCseq, peer>>

\* Mutant: the room's output is not restored.
OutputLost(p) == UNCHANGED output

\* The deferred SwapOutput: what was taken goes back if the call goes on, else
\* its writer is closed.
OutputRestored(p) ==
    output' = IF taken[p] # "no" /\ outcome[p] = "error" /\ registered THEN taken[p] ELSE output

\* CallState.EndTransfer forgets the transfer and reports its end with the
\* transfer's context.  When that has expired, as it has if no NOTIFY came, the
\* report is lost, and the IO service is left with an ongoing transfer.
EndReported(p) ==
    \E r \in {IF outcome[p] = "ok" THEN "successful" ELSE "failed", "unreported"} :
        record' = [record EXCEPT ![p] = r]

\* transferCall returns: its deferred functions run, and a success hangs up
\* the call in a second.
EndTransfer(p) ==
    /\ WorkerAt(p, "end", "send")
    /\ OutputRestored(p)
    /\ taken' = [taken EXCEPT ![p] = "no"]
    /\ EndReported(p)
    /\ hangup' = [hangup EXCEPT ![p] = IF outcome[p] = "ok" THEN "armed" ELSE "off"]
    /\ UNCHANGED <<reqVars, chanVars, outcome, callVars, referCseq, notifyVars>>

\* The error goes into Done, which has room for one ...
SendDone(p) ==
    /\ WorkerAt(p, "send", "close")
    /\ chan' = [chan EXCEPT ![p] = outcome[p]]
    /\ UNCHANGED <<reqVars, pending, chanClosed, outcome, taken, record, hangup, callVars,
                   output, referCseq, notifyVars>>

\* Mutant: Done is left open.
DoneLeftOpen(p) == UNCHANGED chanClosed

DoneClosed(p) == chanClosed' = [chanClosed EXCEPT ![p] = TRUE]

\* ... then Done is closed, for the other requests that wait ...
CloseDone(p) ==
    /\ WorkerAt(p, "close", "delete")
    /\ DoneClosed(p)
    /\ UNCHANGED <<reqVars, pending, chan, outcome, taken, record, hangup, callVars, output,
                   referCseq, notifyVars>>

\* ... and the entry of the call is deleted.
DeletePending(p) ==
    /\ WorkerAt(p, "delete", "done")
    /\ pending' = 0
    /\ UNCHANGED <<reqVars, chan, chanClosed, outcome, taken, record, hangup, callVars, output,
                   referCseq, notifyVars>>

\* Mutant: the timer does nothing.
HangupForgotten(p) ==
    /\ hangup[p] = "armed"
    /\ hangup' = [hangup EXCEPT ![p] = "fired"]
    /\ UNCHANGED <<reqVars, chanVars, worker, outcome, taken, record, callVars, output,
                   referCseq, notifyVars>>

\* referByeTimeout after a success: Close() cancels the call's context.
HangupFires(p) ==
    /\ hangup[p] = "armed"
    /\ hangup' = [hangup EXCEPT ![p] = "fired"]
    /\ ctxDone' = TRUE
    /\ UNCHANGED <<reqVars, chanVars, worker, outcome, taken, record, registered, established,
                   output, referCseq, notifyVars>>

-----------------------------------------------------------------------------
(* The peer, and the rest of the call *)

\* What handleReferNotify makes of the status in a NOTIFY: 1xx is ignored.
FinalStatus == {"ok", "error"}

\* The peer, which has got the REFER, knows the outcome and sends NOTIFY.
PeerDecides(p) ==
    /\ referCseq >= p
    /\ worker[p] \notin {"none", "find", "start", "dialtone", "refer"}
    /\ notify[p] = "none"
    /\ \E out \in FinalStatus : peer' = [peer EXCEPT ![p] = out]
    /\ notify' = [notify EXCEPT ![p] = "due"]
    /\ UNCHANGED <<reqVars, chanVars, workVars, callVars, output, referCseq>>

\* A NOTIFY for a different REFER is skipped; one without a CSeq never is.
CurrentRefer(n) == NotifyHasId => n = referCseq

\* onNotify and handleReferNotify: it takes c.mu for reading and waits until
\* somebody receives the result.
HandleNotify(n) ==
    /\ notify[n] = "due"
    /\ notify' = [notify EXCEPT ![n] = IF registered /\ CurrentRefer(n) THEN "blocked" ELSE "done"]
    /\ UNCHANGED <<reqVars, chanVars, workVars, callVars, output, referCseq, peer>>

\* notifyAckTimeout.
NotifyTimesOut(n) ==
    /\ notify[n] = "blocked"
    /\ notify' = [notify EXCEPT ![n] = "done"]
    /\ UNCHANGED <<reqVars, chanVars, workVars, callVars, output, referCseq, peer>>

\* BYE: drop() needs c.mu, then the context is cancelled.
ByeArrives ==
    /\ registered /\ ~ctxDone
    /\ ~ReadLocked
    /\ established' = FALSE
    /\ ctxDone' = TRUE
    /\ UNCHANGED <<reqVars, chanVars, workVars, registered, output, referCseq, notifyVars>>

\* The handler has noticed: close() drops the leg, closes the room's output
\* and removes the call.
CallCloses ==
    /\ registered /\ ctxDone
    /\ ~ReadLocked
    /\ established' = FALSE
    /\ registered' = FALSE
    /\ output' = "none"
    /\ UNCHANGED <<reqVars, chanVars, workVars, ctxDone, referCseq, notifyVars>>

-----------------------------------------------------------------------------

Request(r) == CheckProvider(r) \/ GetOrCreatePendingTransfer(r) \/ ReceiveDone(r)

Worker(p) ==
    \/ FindCall(p) \/ StartTransfer(p) \/ PlayDialtone(p) \/ NewReferReq(p) \/ SendRefer(p)
    \/ AwaitNotify(p) \/ EndTransfer(p) \/ SendDone(p) \/ CloseDone(p) \/ DeletePending(p)

OnNotify(n) == HandleNotify(n) \/ NotifyTimesOut(n)

Next ==
    \/ \E r \in Requests : RequestArrives(r) \/ Request(r) \/ RequestCanceled(r)
    \/ \E p \in Requests : Worker(p) \/ HangupFires(p) \/ PeerDecides(p) \/ OnNotify(p)
    \/ ByeArrives \/ CallCloses

\* Goroutines run, timers fire, the REFER transaction ends.  Neither the peer
\* nor the end of a request's context is relied upon.
Fairness ==
    /\ \A r \in Requests : WF_vars(Request(r)) /\ WF_vars(Worker(r)) /\ WF_vars(OnNotify(r))
    /\ \A r \in Requests : WF_vars(HangupFires(r))

Spec == Init /\ [][Next]_vars /\ Fairness

-----------------------------------------------------------------------------
(* Properties *)

Running(p) == worker[p] \notin {"none", "done"}

\* Requests of several callers and retries share one transfer: no two workers
\* of a call run at once, so no REFER is sent while another is under way.
OneTransfer == \A p, q \in Requests : Running(p) /\ Running(q) => p = q

\* The comment on referDone: a result for an old request is not read.  A
\* transfer that succeeds was reported by the peer for its own REFER, or the
\* call ended.
ResultIsOwn ==
    \A p \in Requests : outcome[p] = "ok" => peer[p] = "ok" \/ ctxDone

\* "Already transferred, resume wait": a repeated request gets the result of
\* the transfer it waits for.
RepeatedGetsResult ==
    \A r \in Requests : answer[r] = "ok" => outcome[waits[r]] = "ok"

\* A failed transfer gives the caller the room's audio back: while the call
\* goes on and nothing transfers it, its output is the room's.
AudioReturns ==
    registered /\ ~ctxDone /\ (\A p \in Requests : ~Running(p) /\ hangup[p] = "off")
        => output = "room"

\* A request that waits is answered, also when its own context never ends and
\* the peer never sends a NOTIFY.
RequestAnswered == \A r \in Requests : req[r] = "wait" ~> req[r] = "returned"

\* A transfer that was reported as ongoing comes to an end that is reported, or
\* whose report EndTransfer lost, and then the call can be transferred again.  A
\* success hangs up our side, reported or not.
TransferEnds ==
    \A p \in Requests :
        record[p] = "ongoing" ~> \/ record[p] = "failed"
                                 \/ record[p] = "successful" /\ ctxDone
                                 \/ /\ record[p] = "unreported" /\ pending # p
                                    /\ outcome[p] = "ok" => ctxDone
=============================================================================
