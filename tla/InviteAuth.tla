----------------------------- MODULE InviteAuth -----------------------------
(***************************************************************************)
(* What Server.processInvite does with an INVITE before there is a call    *)
(* (pkg/sip/inbound.go): the local tag, the replay of cached rejections,   *)
(* re-INVITEs, the trunk's decision, digest authentication with its 407    *)
(* challenge, and the timer that finalizes a challenge nobody answers.     *)
(*                                                                         *)
(* Each INVITE has a goroutine of its own; they share, per Call-ID, the    *)
(* caches and the inProgressInvite object.  A From tag belongs to one      *)
(* Call-ID.  handleInvite is a single interval here ("call"); InboundCall  *)
(* models what happens in it.                                              *)
(***************************************************************************)
EXTENDS Naturals, Sequences

CONSTANTS
    CallIDs,      \* the callers' Call-IDs
    MaxInvites,   \* bound: how many INVITE requests arrive
    DigestLimit,  \* digestLimit, the capacity of inProgressInvites
    Trunks,       \* what a trunk may ask for: nothing ("accept", AuthAccept), AuthPassword
                  \* without credentials ("open"), or AuthPassword ("password")
    PromptRetry   \* an INVITE may arrive while its predecessor is being processed

ASSUME BoundsAssumption == MaxInvites \in Nat /\ DigestLimit \in Nat \ {0}
ASSUME PromptRetryAssumption == PromptRetry \in BOOLEAN
ASSUME TrunksAssumption == Trunks \subseteq {"accept", "open", "password"}

VARIABLES
    pc,         \* where the goroutine of each INVITE is
    callID,     \* its Call-ID
    cred,       \* its credentials: none, bad, or right for the nonce of a 407
    tag,        \* its local tag (cc.ID()), named after the INVITE that generated it
    reinvite,   \* it came with a To tag and a higher CSeq
    trunk,      \* the trunk of each Call-ID
    inv,        \* the inProgressInvite whose authResolved it uses
    failed,     \* retErr # nil
    resp,       \* the final response it got
    timer,      \* its challenge timer
    inProgress, \* inProgressInvites, oldest first
    invOf,      \* sipCallID of each inProgressInvite, in order of creation
    nonce,      \* the INVITE whose 407 carried its challenge; 0 if none
    resolved,   \* authResolved
    byLocalTag, \* the INVITE whose call is registered under a tag; 0 if none
    provTag,    \* provisionalInvites; 0 if none
    rejected,   \* the Call-IDs in rejectedInvites
    record,     \* the call status the IO service has for a tag
    lastNonce   \* history: the INVITE that got the last 407 of a Call-ID

reqVars   == <<callID, cred, reinvite, trunk>>
authVars  == <<inProgress, invOf, nonce, resolved>>
cacheVars == <<byLocalTag, provTag, rejected>>
vars == <<pc, reqVars, tag, inv, failed, resp, timer, authVars, cacheVars, record, lastNonce>>

-----------------------------------------------------------------------------

Invites == 1..MaxInvites
Locations == {"unsent", "new", "lookup", "reinvite", "auth", "resolve", "digest", "provision",
              "arm", "register", "call", "return", "done"}
Responses == {"none", "407", "401", "reject", "200", "dropped"}
Statuses  == {"none", "INCOMING", "ACTIVE", "ERROR", "DISCONNECTED"}

\* Every variable holds a value the Go fields can hold, and the list of
\* challenges stays within digestLimit.
TypeOK ==
    /\ pc \in [Invites -> Locations]
    /\ callID \in [Invites -> CallIDs]
    /\ cred \in [Invites -> {"none", "bad", "good"} \X (0..MaxInvites)]
    /\ tag \in [Invites -> 0..MaxInvites]
    /\ reinvite \in [Invites -> BOOLEAN]
    /\ trunk \in [CallIDs -> Trunks]
    /\ inv \in [Invites -> Nat]
    /\ failed \in [Invites -> BOOLEAN]
    /\ resp \in [Invites -> Responses]
    /\ timer \in [Invites -> {"off", "armed", "firing", "fired"}]
    /\ inProgress \in Seq(Nat) /\ Len(inProgress) <= DigestLimit
    /\ invOf \in Seq(CallIDs)
    /\ nonce \in Seq(0..MaxInvites)
    /\ resolved \in Seq(BOOLEAN)
    /\ Len(nonce) = Len(invOf) /\ Len(resolved) = Len(invOf)
    /\ byLocalTag \in [Invites -> 0..MaxInvites]
    /\ provTag \in [CallIDs -> 0..MaxInvites]
    /\ rejected \subseteq CallIDs
    /\ record \in [Invites -> Statuses]
    /\ lastNonce \in [CallIDs -> 0..MaxInvites]

\* Call-IDs are interchangeable, so it does not matter which one comes first.
Init ==
    /\ pc = [i \in Invites |-> "unsent"]
    /\ callID \in [Invites -> CallIDs]
    /\ 1 \in Invites => callID[1] = CHOOSE c \in CallIDs : TRUE
    /\ cred = [i \in Invites |-> <<"none", 0>>]
    /\ tag = [i \in Invites |-> 0]
    /\ reinvite = [i \in Invites |-> FALSE]
    /\ trunk \in [CallIDs -> Trunks]
    /\ inv = [i \in Invites |-> 0]
    /\ failed = [i \in Invites |-> FALSE]
    /\ resp = [i \in Invites |-> "none"]
    /\ timer = [i \in Invites |-> "off"]
    /\ inProgress = <<>> /\ invOf = <<>> /\ nonce = <<>> /\ resolved = <<>>
    /\ byLocalTag = [t \in Invites |-> 0]
    /\ provTag = [c \in CallIDs |-> 0]
    /\ rejected = {}
    /\ record = [t \in Invites |-> "none"]
    /\ lastNonce = [c \in CallIDs |-> 0]

-----------------------------------------------------------------------------
(* The callers *)

Predecessors(i) == {j \in Invites : j < i /\ callID[j] = callID[i]}

\* A caller sends an INVITE, once its last one is answered: the first of a
\* dialog, a retry, perhaps with credentials for a 407 it got, or a re-INVITE
\* while its call lasts.
Arrives(i) ==
    /\ pc[i] = "unsent"
    /\ \A j \in 1..(i - 1) : pc[j] # "unsent"
    /\ pc' = [pc EXCEPT ![i] = "new"]
    /\ \/ /\ \A j \in Predecessors(i) : /\ resp[j] \notin {"none", "200"}
                                        /\ PromptRetry \/ pc[j] = "done"
          /\ cred' \in {[cred EXCEPT ![i] = c] : c \in
                {<<"none", 0>>, <<"bad", 0>>}
                    \cup {<<"good", j>> : j \in {k \in Predecessors(i) : resp[k] = "407"}}}
          /\ UNCHANGED <<reinvite, tag>>
       \/ /\ \A j \in Predecessors(i) : resp[j] # "none"
          /\ \E j \in Predecessors(i) :
                /\ pc[j] = "call"
                /\ resp[j] = "200"
                /\ tag' = [tag EXCEPT ![i] = tag[j]]
          /\ reinvite' = [reinvite EXCEPT ![i] = TRUE]
          /\ UNCHANGED cred
    /\ UNCHANGED <<callID, trunk, inv, failed, resp, timer, authVars, cacheVars, record, lastNonce>>

-----------------------------------------------------------------------------
(* processInvite *)

Step(i, p) == pc' = [pc EXCEPT ![i] = p]

\* newInbound: a To tag names the dialog; else the tag given to an earlier,
\* challenged INVITE of this Call-ID and From tag; else a new one.
NewInbound(i) ==
    /\ pc[i] = "new"
    /\ Step(i, "lookup")
    /\ tag' = [tag EXCEPT ![i] = IF reinvite[i] THEN tag[i]
                                 ELSE IF provTag[callID[i]] # 0 THEN provTag[callID[i]]
                                 ELSE i]
    /\ UNCHANGED <<reqVars, inv, failed, resp, timer, authVars, cacheVars, record, lastNonce>>

\* RespondAndDrop: an error response is cached for retries.
RespondAndDrop(i) ==
    /\ resp' = [resp EXCEPT ![i] = "reject"]
    /\ rejected' = rejected \cup {callID[i]}

\* A cached rejection is replayed; nothing is recorded.
ReplayRejection(i) ==
    /\ pc[i] = "lookup"
    /\ \/ /\ callID[i] \in rejected
          /\ RespondAndDrop(i)
          /\ Step(i, "done")
       \/ /\ callID[i] \notin rejected
          /\ Step(i, "reinvite")
          /\ UNCHANGED <<resp, rejected>>
    /\ UNCHANGED <<reqVars, tag, inv, failed, timer, authVars, byLocalTag, provTag,
                   record, lastNonce>>

\* Mutant: a re-INVITE is not recognized.
IsReinviteNever(i) == FALSE

\* The tag has a call, and this INVITE has a higher CSeq.
IsReinvite(i) == byLocalTag[tag[i]] \in 1..(i - 1)

\* A re-INVITE of a registered call is answered with the SDP of the call.
AcceptAsKeepAlive(i) ==
    /\ pc[i] = "reinvite"
    /\ \/ /\ IsReinvite(i)
          /\ resp' = [resp EXCEPT ![i] = "200"]
          /\ Step(i, "done")
       \/ /\ ~IsReinvite(i)
          /\ Step(i, "auth")
          /\ UNCHANGED resp
    /\ UNCHANGED <<reqVars, tag, inv, failed, timer, authVars, cacheVars, record, lastNonce>>

\* GetAuthCredentials fails: 503, before there is a CallState.
AuthUnavailable(i) ==
    /\ pc[i] = "auth"
    /\ RespondAndDrop(i)
    /\ Step(i, "done")
    /\ UNCHANGED <<reqVars, tag, inv, failed, timer, authVars, byLocalTag, provTag,
                   record, lastNonce>>

\* What it makes of the trunk's answer: quota and missing trunk before drop,
\* that before credentials.
GetAuthCredentials(c) ==
    {"reject", "drop", IF trunk[c] = "accept" THEN "accept" ELSE "password"}

\* The results, after the CallState has been created and flushed: the INVITE
\* is dropped, rejected, accepted, or has to authenticate.
GetAuth(i) ==
    /\ pc[i] = "auth"
    /\ record' = [record EXCEPT ![tag[i]] = "INCOMING"]
    /\ \E r \in GetAuthCredentials(callID[i]) :
          \/ /\ r = "drop"
             /\ resp' = [resp EXCEPT ![i] = "dropped"]
             /\ failed' = [failed EXCEPT ![i] = TRUE]
             /\ Step(i, "return")
             /\ UNCHANGED rejected
          \/ /\ r = "reject"
             /\ RespondAndDrop(i)
             /\ failed' = [failed EXCEPT ![i] = TRUE]
             /\ Step(i, "return")
          \/ /\ r \in {"accept", "password"}
             /\ Step(i, IF r = "accept" THEN "register" ELSE "resolve")
             /\ UNCHANGED <<resp, rejected, failed>>
    /\ UNCHANGED <<reqVars, tag, inv, timer, authVars, byLocalTag, provTag, lastNonce>>

\* getInvite: the entry of the Call-ID, or a new one; the oldest entry makes
\* room for it.  GetInvite(c) is its index, GetInviteAdds(c) the effect.
Found(c) == {n \in 1..Len(inProgress) : invOf[inProgress[n]] = c}

GetInvite(c) ==
    IF Found(c) # {} THEN inProgress[CHOOSE n \in Found(c) : TRUE] ELSE Len(invOf) + 1

GetInviteAdds(c) ==
    IF Found(c) # {}
      THEN UNCHANGED <<inProgress, invOf>>
      ELSE /\ inProgress' = Append(IF Len(inProgress) >= DigestLimit THEN Tail(inProgress)
                                                                     ELSE inProgress,
                                   Len(invOf) + 1)
           /\ invOf' = Append(invOf, c)

\* The value of a field of that entry after getInvite: a new entry has zeros.
Grown(f, zero) == IF Len(f) < Len(invOf') THEN Append(f, zero) ELSE f

\* authResolved.Store(true)
Superseded(i) == resolved' = [Grown(resolved, FALSE) EXCEPT ![GetInvite(callID[i])] = TRUE]

\* A new INVITE supersedes any pending 407-challenge timer for this Call-ID.
Supersede(i) ==
    /\ pc[i] = "resolve"
    /\ GetInviteAdds(callID[i])
    /\ inv' = [inv EXCEPT ![i] = GetInvite(callID[i])]
    /\ Superseded(i)
    /\ nonce' = Grown(nonce, 0)
    /\ Step(i, "digest")
    /\ UNCHANGED <<reqVars, tag, failed, resp, timer, cacheVars, record, lastNonce>>

\* Mutant: right credentials are enough, whatever challenge they answer.
AnyNonceMatches(i) == cred[i][1] = "good"

\* The response matches the digest of the challenge that getInvite finds now.
CredentialsMatch(i) ==
    /\ cred[i][1] = "good"
    /\ GetInvite(callID[i]) <= Len(nonce)
    /\ nonce[GetInvite(callID[i])] = cred[i][2]

\* handleInviteAuth, which calls getInvite again.  No credentials: a new
\* challenge and 407; bad or stale ones: 401; a trunk without a password
\* lets everybody in.
HandleInviteAuth(i) ==
    /\ pc[i] = "digest"
    /\ \/ /\ trunk[callID[i]] = "open"
          /\ Step(i, "register")
          /\ UNCHANGED <<authVars, resp, failed, lastNonce>>
       \/ /\ trunk[callID[i]] = "password" /\ cred[i][1] = "none"
          /\ GetInviteAdds(callID[i])
          /\ nonce' = [Grown(nonce, 0) EXCEPT ![GetInvite(callID[i])] = i]
          /\ resolved' = Grown(resolved, FALSE)
          /\ resp' = [resp EXCEPT ![i] = "407"]
          /\ lastNonce' = [lastNonce EXCEPT ![callID[i]] = i]
          /\ failed' = [failed EXCEPT ![i] = TRUE]
          /\ Step(i, "provision")
       \/ /\ trunk[callID[i]] = "password" /\ cred[i][1] # "none"
          /\ GetInviteAdds(callID[i])
          /\ nonce' = Grown(nonce, 0)
          /\ resolved' = Grown(resolved, FALSE)
          /\ \/ /\ CredentialsMatch(i)
                /\ Step(i, "register")
                /\ UNCHANGED <<resp, failed>>
             \/ /\ ~CredentialsMatch(i)
                /\ resp' = [resp EXCEPT ![i] = "401"]
                /\ failed' = [failed EXCEPT ![i] = TRUE]
                /\ Step(i, "provision")
          /\ UNCHANGED lastNonce
    /\ UNCHANGED <<reqVars, tag, inv, timer, cacheVars, record>>

\* The tag is kept for the next INVITE of this Call-ID and From tag.
StoreProvisional(i) ==
    /\ pc[i] = "provision"
    /\ provTag' = [provTag EXCEPT ![callID[i]] = tag[i]]
    /\ Step(i, IF resp[i] = "407" THEN "arm" ELSE "return")
    /\ UNCHANGED <<reqVars, tag, inv, failed, resp, timer, authVars, byLocalTag,
                   rejected, record, lastNonce>>

\* Mutant: the challenged CallState is forgotten without a timer.
TimerForgotten(i) == UNCHANGED <<resolved, timer>>

\* authResolved.Store(false) and time.AfterFunc.
TimerStarts(i) ==
    /\ resolved' = [resolved EXCEPT ![inv[i]] = FALSE]
    /\ timer' = [timer EXCEPT ![i] = "armed"]

\* scheduleAuthChallengeTimeout; processInvite then returns with state = nil.
ScheduleAuthChallengeTimeout(i) ==
    /\ pc[i] = "arm"
    /\ TimerStarts(i)
    /\ Step(i, "done")
    /\ UNCHANGED <<reqVars, tag, inv, failed, resp, inProgress, invOf, nonce, cacheVars,
                   record, lastNonce>>

\* authChallengeTimeout later: the timer's CAS on authResolved, which fails
\* when the flag is set ...
TimerFires(i) ==
    /\ timer[i] = "armed"
    /\ timer' = [timer EXCEPT ![i] = IF resolved[inv[i]] THEN "fired" ELSE "firing"]
    /\ resolved' = [resolved EXCEPT ![inv[i]] = TRUE]
    /\ UNCHANGED <<pc, reqVars, tag, inv, failed, resp, inProgress, invOf, nonce,
                   cacheVars, record, lastNonce>>

\* ... and then the update of the record, which nothing else can stop.
TimerFinalizes(i) ==
    /\ timer[i] = "firing"
    /\ timer' = [timer EXCEPT ![i] = "fired"]
    /\ record' = [record EXCEPT ![tag[i]] = "ERROR"]
    /\ UNCHANGED <<pc, reqVars, tag, inv, failed, resp, authVars, cacheVars, lastNonce>>

\* newInboundCall.
NewInboundCall(i) ==
    /\ pc[i] = "register"
    /\ byLocalTag' = [byLocalTag EXCEPT ![tag[i]] = i]
    /\ Step(i, "call")
    /\ UNCHANGED <<reqVars, tag, inv, failed, resp, timer, authVars, provTag, rejected,
                   record, lastNonce>>

\* handleInvite answers the call ...
CallAnswered(i) ==
    /\ pc[i] = "call"
    /\ resp[i] = "none"
    /\ resp' = [resp EXCEPT ![i] = "200"]
    /\ record' = [record EXCEPT ![tag[i]] = "ACTIVE"]
    /\ UNCHANGED <<pc, reqVars, tag, inv, failed, timer, authVars, cacheVars, lastNonce>>

\* ... or rejects it, and close() removes whatever the tag has registered.
CallEnds(i) ==
    /\ pc[i] = "call"
    /\ \/ /\ resp[i] = "none"
          /\ RespondAndDrop(i)
       \/ /\ resp[i] = "none"
          /\ resp' = [resp EXCEPT ![i] = "dropped"]
          /\ UNCHANGED rejected
       \/ /\ resp[i] = "200"
          /\ UNCHANGED <<resp, rejected>>
    /\ byLocalTag' = [byLocalTag EXCEPT ![tag[i]] = 0]
    /\ failed' \in {failed, [failed EXCEPT ![i] = TRUE]}
    /\ Step(i, "return")
    /\ UNCHANGED <<reqVars, tag, inv, timer, authVars, provTag, record, lastNonce>>

\* The deferred update of processInvite.
Return(i) ==
    /\ pc[i] = "return"
    /\ record' = [record EXCEPT ![tag[i]] = IF failed[i] THEN "ERROR" ELSE "DISCONNECTED"]
    /\ Step(i, "done")
    /\ UNCHANGED <<reqVars, tag, inv, failed, resp, timer, authVars, cacheVars, lastNonce>>

\* callCacheTTL (a minute) is longer than authChallengeTimeout (30 s): an
\* entry expires when nothing of its Call-ID is under way.
CacheExpires(c) ==
    /\ \A i \in Invites : callID[i] = c => /\ pc[i] \in {"unsent", "done"}
                                           /\ timer[i] \in {"off", "fired"}
    /\ provTag[c] # 0 \/ c \in rejected
    /\ provTag' = [provTag EXCEPT ![c] = 0]
    /\ rejected' = rejected \ {c}
    /\ UNCHANGED <<pc, reqVars, tag, inv, failed, resp, timer, authVars, byLocalTag,
                   record, lastNonce>>

-----------------------------------------------------------------------------

ProcessInvite(i) ==
    \/ NewInbound(i) \/ ReplayRejection(i) \/ AcceptAsKeepAlive(i) \/ AuthUnavailable(i)
    \/ GetAuth(i) \/ Supersede(i) \/ HandleInviteAuth(i) \/ StoreProvisional(i)
    \/ ScheduleAuthChallengeTimeout(i) \/ NewInboundCall(i) \/ Return(i)

Next ==
    \/ \E i \in Invites : \/ Arrives(i) \/ ProcessInvite(i)
                          \/ TimerFires(i) \/ TimerFinalizes(i)
                          \/ CallAnswered(i) \/ CallEnds(i)
    \/ \E c \in CallIDs : CacheExpires(c)

\* Goroutines run and timers fire.  Nothing makes a caller send another
\* INVITE, or a call end.
Fairness == \A i \in Invites : /\ WF_vars(ProcessInvite(i))
                              /\ WF_vars(TimerFires(i) \/ TimerFinalizes(i))

Spec == Init /\ [][Next]_vars /\ Fairness

-----------------------------------------------------------------------------
(* Properties *)

Live(t) == \E i \in Invites : pc[i] = "call" /\ tag[i] = t

\* scheduleAuthChallengeTimeout's comment: the timer "finalizes st as SCS_ERROR
\* ... unless authResolved is set to true (by a follow-up INVITE) before the
\* timer fires".  A call under the challenged tag is such a follow-up, and so
\* no timer takes the challenge while the call is live.
TimerSparesCalls ==
    [][\A i \in Invites : timer[i] = "armed" /\ timer'[i] = "firing" => ~Live(tag[i])]_vars

\* An INVITE that is let in with a password answered the last challenge issued
\* for its Call-ID, whatever was evicted or superseded in between.
AuthFresh ==
    [][\A i \in Invites : pc[i] = "digest" /\ pc'[i] = "register" /\ trunk[callID[i]] = "password"
            => cred[i] = <<"good", lastNonce[callID[i]]>>]_vars

\* A live call can be found by its tag (by onBye, onAck, onNotify), and a tag
\* finds no other call.
LiveCallFindable == \A i \in Invites : pc[i] = "call" => byLocalTag[tag[i]] = i

\* 407 sent: finalization is deferred to the timer or the next INVITE, and one
\* of them comes: no record stays INCOMING without a call.
Finalized ==
    \A t \in Invites : record[t] = "INCOMING" ~> record[t] # "INCOMING" \/ Live(t)
=============================================================================
