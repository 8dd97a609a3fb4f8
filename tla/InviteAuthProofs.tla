------------------------- MODULE InviteAuthProofs -------------------------
(***************************************************************************)
(* processInvite for any number of Call-IDs and INVITEs: a live call is    *)
(* found by its tag, a password counts only for the last challenge, and a  *)
(* challenge's timer spares the call that answered it.                     *)
(***************************************************************************)
EXTENDS InviteAuth, FiniteSetTheorems, SequenceTheorems, TLAPS

-----------------------------------------------------------------------------
(* The INVITEs of a Call-ID *)

\* Before the call is looked up, and after no call was found.
Early == {"new", "lookup", "reinvite"}
Admitted == {"auth", "resolve", "digest", "register", "call"}

SameDialog(i, j) == callID[i] = callID[j]

InviteTypes ==
    /\ pc \in [Invites -> Locations]
    /\ callID \in [Invites -> CallIDs]
    /\ tag \in [Invites -> 0..MaxInvites]
    /\ reinvite \in [Invites -> BOOLEAN]
    /\ resp \in [Invites -> Responses]
    /\ byLocalTag \in [Invites -> 0..MaxInvites]
    /\ provTag \in [CallIDs -> 0..MaxInvites]

\* An INVITE is answered when it leaves processInvite, or by its call.
AnswerInv ==
    \A i \in Invites :
        /\ pc[i] \in {"unsent"} \cup Early \cup (Admitted \ {"call"}) => resp[i] = "none"
        /\ pc[i] = "call" => resp[i] \in {"none", "200"}
        /\ resp[i] = "none" => pc[i] \in {"unsent"} \cup Early \cup Admitted

\* A caller waits for the answer to its last INVITE.
OrderInv ==
    \A i, j \in Invites : j < i /\ pc[i] # "unsent" =>
        /\ pc[j] # "unsent"
        /\ SameDialog(i, j) => resp[j] # "none"

\* A local tag belongs to one Call-ID.
TagInv ==
    /\ \A i \in Invites :
          /\ pc[i] \notin {"unsent", "new"} \/ reinvite[i] => tag[i] # 0
          /\ tag[i] # 0 => callID[tag[i]] = callID[i]
    /\ \A c \in CallIDs : provTag[c] # 0 => callID[provTag[c]] = c

\* An INVITE that arrives during a call is a re-INVITE of that call.
FollowInv ==
    \A i, j \in Invites : j < i /\ SameDialog(i, j) /\ pc[i] \in Early /\ pc[j] = "call"
        => reinvite[i] /\ tag[i] = tag[j]

\* Past the lookup, an INVITE is alone with its Call-ID.
AloneInv ==
    \A i, j \in Invites : i # j /\ SameDialog(i, j) => ~(pc[i] \in Admitted /\ pc[j] \in Admitted)

DialogInv ==
    InviteTypes /\ AnswerInv /\ OrderInv /\ TagInv /\ FollowInv /\ AloneInv /\ LiveCallFindable

LEMMA DialogInit == Init => DialogInv
  BY BoundsAssumption DEF Init, DialogInv, InviteTypes, AnswerInv, OrderInv, TagInv, FollowInv,
     AloneInv,
         LiveCallFindable, Locations, Responses, Early, Admitted, Invites

LEMMA ExceptType ==
    ASSUME NEW D, NEW T, NEW f \in [D -> T], NEW x, NEW v \in T
    PROVE  [f EXCEPT ![x] = v] \in [D -> T]
  OBVIOUS

LEMMA TagType ==
    ASSUME InviteTypes, TagInv, NEW i \in Invites, pc[i] \notin {"unsent", "new"}
    PROVE  tag[i] \in Invites /\ callID[tag[i]] = callID[i]
<1>1. tag[i] \in 0..MaxInvites
  BY DEF InviteTypes
<1>2. tag[i] # 0 /\ callID[tag[i]] = callID[i]
  BY DEF TagInv
<1> QED
  BY <1>1, <1>2, BoundsAssumption DEF Invites

\* The types.
LEMMA InviteTypesStep ==
    ASSUME InviteTypes, TagInv, [Next]_vars
    PROVE  InviteTypes'
<1> USE BoundsAssumption DEF InviteTypes, TagInv, Locations, Responses, Invites, reqVars, authVars, cacheVars
<1>1. ASSUME NEW i \in Invites, Arrives(i)
      PROVE  InviteTypes'
  BY <1>1 DEF Arrives, Predecessors
<1>2. ASSUME NEW i \in Invites, NewInbound(i)
      PROVE  InviteTypes'
  <2> DEFINE t == IF reinvite[i] THEN tag[i]
                  ELSE IF provTag[callID[i]] # 0 THEN provTag[callID[i]] ELSE i
  <2>1. t \in 0..MaxInvites
    OBVIOUS
  <2> HIDE DEF t
  <2>2. /\ tag' = [tag EXCEPT ![i] = t] /\ pc' = [pc EXCEPT ![i] = "lookup"]
        /\ UNCHANGED <<callID, reinvite, resp, byLocalTag, provTag>>
    BY <1>2 DEF NewInbound, Step, t
  <2> QED
    BY <2>1, <2>2
<1>3. ASSUME NEW i \in Invites, ReplayRejection(i) \/ AuthUnavailable(i)
      PROVE  InviteTypes'
  BY <1>3 DEF ReplayRejection, AuthUnavailable, RespondAndDrop, Step
<1>4. ASSUME NEW i \in Invites, AcceptAsKeepAlive(i)
      PROVE  InviteTypes'
  BY <1>4 DEF AcceptAsKeepAlive, IsReinvite, Step
<1>5. ASSUME NEW i \in Invites, GetAuth(i)
      PROVE  InviteTypes'
  BY <1>5 DEF GetAuth, GetAuthCredentials, RespondAndDrop, Step
<1>6. ASSUME NEW i \in Invites, Supersede(i)
      PROVE  InviteTypes'
  BY <1>6 DEF Supersede, Step
<1>7. ASSUME NEW i \in Invites, HandleInviteAuth(i)
      PROVE  InviteTypes'
  BY <1>7 DEF HandleInviteAuth, Step
<1>8. ASSUME NEW i \in Invites, StoreProvisional(i)
      PROVE  InviteTypes'
  BY <1>8 DEF StoreProvisional, Step
<1>9. ASSUME NEW i \in Invites, ScheduleAuthChallengeTimeout(i)
      PROVE  InviteTypes'
  BY <1>9 DEF ScheduleAuthChallengeTimeout, TimerStarts, Step
<1>10. ASSUME NEW i \in Invites, TimerFires(i) \/ TimerFinalizes(i)
      PROVE  InviteTypes'
  BY <1>10 DEF TimerFires, TimerFinalizes
<1>11. ASSUME NEW i \in Invites, NewInboundCall(i)
      PROVE  InviteTypes'
  <2>1. /\ byLocalTag' = [byLocalTag EXCEPT ![tag[i]] = i] /\ pc' = [pc EXCEPT ![i] = "call"]
        /\ UNCHANGED <<callID, tag, reinvite, resp, provTag>>
    BY <1>11 DEF NewInboundCall, Step
  <2>2. byLocalTag' \in [Invites -> 0..MaxInvites]
    BY <2>1, ExceptType, i \in 0..MaxInvites
  <2> QED
    BY <2>1, <2>2
<1>12. ASSUME NEW i \in Invites, CallAnswered(i)
      PROVE  InviteTypes'
  BY <1>12 DEF CallAnswered
<1>13. ASSUME NEW i \in Invites, CallEnds(i)
      PROVE  InviteTypes'
  <2>1. /\ byLocalTag' = [byLocalTag EXCEPT ![tag[i]] = 0] /\ pc' = [pc EXCEPT ![i] = "return"]
        /\ UNCHANGED <<callID, tag, reinvite, provTag>>
    BY <1>13 DEF CallEnds, Step
  <2>2. byLocalTag' \in [Invites -> 0..MaxInvites]
    BY <2>1, ExceptType, 0 \in 0..MaxInvites
  <2>3. resp' \in [Invites -> Responses]
    BY <1>13 DEF CallEnds, RespondAndDrop
  <2> QED
    BY <2>1, <2>2, <2>3
<1>14. ASSUME NEW i \in Invites, Return(i)
      PROVE  InviteTypes'
  BY <1>14 DEF Return, Step
<1>15. ASSUME NEW c \in CallIDs, CacheExpires(c)
      PROVE  InviteTypes'
  BY <1>15 DEF CacheExpires
<1>16. CASE UNCHANGED vars
  BY <1>16 DEF vars
<1> QED
  BY <1>1, <1>2, <1>3, <1>4, <1>5, <1>6, <1>7, <1>8, <1>9, <1>10, <1>11, <1>12, <1>13, <1>14,
     <1>15, <1>16 DEF Next, ProcessInvite

\* Whoever answers moves on, and only the call's answer leaves the INVITE where it is.
LEMMA AnswerStep ==
    ASSUME InviteTypes, AnswerInv, [Next]_vars
    PROVE  AnswerInv'
<1> USE DEF InviteTypes, AnswerInv, Early, Admitted, Locations, Responses, reqVars, authVars,
            cacheVars
<1>1. ASSUME NEW i \in Invites, Arrives(i)
      PROVE  AnswerInv'
  BY <1>1 DEF Arrives, Predecessors
<1>2. ASSUME NEW i \in Invites, NewInbound(i)
      PROVE  AnswerInv'
  BY <1>2 DEF NewInbound, Step
<1>3. ASSUME NEW i \in Invites, ReplayRejection(i) \/ AuthUnavailable(i)
      PROVE  AnswerInv'
  BY <1>3 DEF ReplayRejection, AuthUnavailable, RespondAndDrop, Step
<1>4. ASSUME NEW i \in Invites, AcceptAsKeepAlive(i)
      PROVE  AnswerInv'
  BY <1>4 DEF AcceptAsKeepAlive, IsReinvite, Step
<1>5. ASSUME NEW i \in Invites, GetAuth(i)
      PROVE  AnswerInv'
  BY <1>5 DEF GetAuth, GetAuthCredentials, RespondAndDrop, Step
<1>6. ASSUME NEW i \in Invites, Supersede(i)
      PROVE  AnswerInv'
  BY <1>6 DEF Supersede, Step
<1>7. ASSUME NEW i \in Invites, HandleInviteAuth(i)
      PROVE  AnswerInv'
  <2>1. CASE pc' = [pc EXCEPT ![i] = "register"] /\ UNCHANGED resp
    BY <1>7, <2>1 DEF HandleInviteAuth
  <2>2. CASE pc' = [pc EXCEPT ![i] = "provision"] /\ resp' = [resp EXCEPT ![i] = "407"]
    BY <1>7, <2>2
  <2>3. CASE pc' = [pc EXCEPT ![i] = "provision"] /\ resp' = [resp EXCEPT ![i] = "401"]
    BY <1>7, <2>3
  <2> QED
    BY <1>7, <2>1, <2>2, <2>3 DEF HandleInviteAuth, Step
<1>8. ASSUME NEW i \in Invites, StoreProvisional(i)
      PROVE  AnswerInv'
  BY <1>8 DEF StoreProvisional, Step
<1>9. ASSUME NEW i \in Invites, ScheduleAuthChallengeTimeout(i)
      PROVE  AnswerInv'
  BY <1>9 DEF ScheduleAuthChallengeTimeout, TimerStarts, Step
<1>10. ASSUME NEW i \in Invites, TimerFires(i) \/ TimerFinalizes(i)
      PROVE  AnswerInv'
  BY <1>10 DEF TimerFires, TimerFinalizes
<1>11. ASSUME NEW i \in Invites, NewInboundCall(i)
      PROVE  AnswerInv'
  BY <1>11 DEF NewInboundCall, Step
<1>12. ASSUME NEW i \in Invites, CallAnswered(i)
      PROVE  AnswerInv'
  BY <1>12 DEF CallAnswered
<1>13. ASSUME NEW i \in Invites, CallEnds(i)
      PROVE  AnswerInv'
  BY <1>13 DEF CallEnds, RespondAndDrop, Step
<1>14. ASSUME NEW i \in Invites, Return(i)
      PROVE  AnswerInv'
  BY <1>14 DEF Return, Step
<1>15. ASSUME NEW c \in CallIDs, CacheExpires(c)
      PROVE  AnswerInv'
  BY <1>15 DEF CacheExpires
<1>16. CASE UNCHANGED vars
  BY <1>16 DEF vars
<1> QED
  BY <1>1, <1>2, <1>3, <1>4, <1>5, <1>6, <1>7, <1>8, <1>9, <1>10, <1>11, <1>12, <1>13, <1>14,
     <1>15, <1>16 DEF Next, ProcessInvite

\* The tag comes from the INVITE itself, from the cache, or from the call.
LEMMA TagStep ==
    ASSUME InviteTypes, TagInv, [Next]_vars
    PROVE  TagInv'
<1> USE BoundsAssumption DEF InviteTypes, TagInv, Invites, reqVars, authVars, cacheVars
<1>1. ASSUME NEW i \in Invites, Arrives(i)
      PROVE  TagInv'
  <2>1. /\ callID' = callID /\ provTag' = provTag
        /\ pc' = [pc EXCEPT ![i] = "new"] /\ pc[i] = "unsent"
    BY <1>1 DEF Arrives
  <2>2. CASE UNCHANGED <<reinvite, tag>>
    BY <2>1, <2>2
  <2>3. ASSUME NEW j \in Invites, callID[j] = callID[i], pc[j] = "call",
               tag' = [tag EXCEPT ![i] = tag[j]], reinvite' = [reinvite EXCEPT ![i] = TRUE]
        PROVE  TagInv'
    <3>1. tag[j] # 0 /\ callID[tag[j]] = callID[i]
      BY <2>3
    <3> QED
      BY <2>1, <2>3, <3>1
  <2> QED
    BY <1>1, <2>2, <2>3 DEF Arrives, Predecessors
<1>2. ASSUME NEW i \in Invites, NewInbound(i)
      PROVE  TagInv'
  <2> DEFINE t == IF reinvite[i] THEN tag[i]
                  ELSE IF provTag[callID[i]] # 0 THEN provTag[callID[i]] ELSE i
  <2>1. t \in Invites /\ callID[t] = callID[i]
    OBVIOUS
  <2> HIDE DEF t
  <2>2. /\ tag' = [tag EXCEPT ![i] = t] /\ pc' = [pc EXCEPT ![i] = "lookup"]
        /\ UNCHANGED <<callID, reinvite, provTag>>
    BY <1>2 DEF NewInbound, Step, t
  <2> QED
    BY <2>1, <2>2
<1>3. ASSUME NEW i \in Invites, ReplayRejection(i) \/ AuthUnavailable(i)
      PROVE  TagInv'
  <2>1. /\ pc[i] \in {"lookup", "auth"} /\ UNCHANGED <<callID, tag, reinvite, provTag>>
        /\ pc' = [pc EXCEPT ![i] = "done"] \/ pc' = [pc EXCEPT ![i] = "reinvite"]
    BY <1>3 DEF ReplayRejection, AuthUnavailable, Step
  <2> QED
    BY <2>1
<1>4. ASSUME NEW i \in Invites, AcceptAsKeepAlive(i)
      PROVE  TagInv'
  BY <1>4 DEF AcceptAsKeepAlive, IsReinvite, Step
<1>5. ASSUME NEW i \in Invites, GetAuth(i)
      PROVE  TagInv'
  BY <1>5 DEF GetAuth, GetAuthCredentials, RespondAndDrop, Step
<1>6. ASSUME NEW i \in Invites, Supersede(i)
      PROVE  TagInv'
  BY <1>6 DEF Supersede, Step
<1>7. ASSUME NEW i \in Invites, HandleInviteAuth(i)
      PROVE  TagInv'
  BY <1>7 DEF HandleInviteAuth, Step
<1>8. ASSUME NEW i \in Invites, StoreProvisional(i)
      PROVE  TagInv'
  BY <1>8 DEF StoreProvisional, Step
<1>9. ASSUME NEW i \in Invites, ScheduleAuthChallengeTimeout(i)
      PROVE  TagInv'
  BY <1>9 DEF ScheduleAuthChallengeTimeout, TimerStarts, Step
<1>10. ASSUME NEW i \in Invites, TimerFires(i) \/ TimerFinalizes(i)
      PROVE  TagInv'
  BY <1>10 DEF TimerFires, TimerFinalizes
<1>11. ASSUME NEW i \in Invites, NewInboundCall(i)
      PROVE  TagInv'
  BY <1>11 DEF NewInboundCall, Step
<1>12. ASSUME NEW i \in Invites, CallAnswered(i)
      PROVE  TagInv'
  BY <1>12 DEF CallAnswered
<1>13. ASSUME NEW i \in Invites, CallEnds(i)
      PROVE  TagInv'
  BY <1>13 DEF CallEnds, RespondAndDrop, Step
<1>14. ASSUME NEW i \in Invites, Return(i)
      PROVE  TagInv'
  BY <1>14 DEF Return, Step
<1>15. ASSUME NEW c \in CallIDs, CacheExpires(c)
      PROVE  TagInv'
  BY <1>15 DEF CacheExpires
<1>16. CASE UNCHANGED vars
  BY <1>16 DEF vars
<1> QED
  BY <1>1, <1>2, <1>3, <1>4, <1>5, <1>6, <1>7, <1>8, <1>9, <1>10, <1>11, <1>12, <1>13, <1>14,
     <1>15, <1>16 DEF Next, ProcessInvite

\* What the INVITEs of a Call-ID see of each other's steps: an INVITE that has
\* arrived goes on by itself.
Follows(i, p, q) == pc[i] = p /\ pc'[i] = q /\ resp'[i] = resp[i] /\ tag'[i] = tag[i]

Moves(i) ==
    /\ pc[i] # "unsent"
    /\ UNCHANGED <<callID, reinvite>>
    /\ \A j \in Invites \ {i} : pc'[j] = pc[j] /\ resp'[j] = resp[j] /\ tag'[j] = tag[j]
    /\ \/ /\ pc[i] = "new" /\ pc'[i] = "lookup" /\ resp'[i] = resp[i]
          /\ reinvite[i] => tag'[i] = tag[i]
       \/ Follows(i, "lookup", "reinvite")
       \/ Follows(i, "reinvite", "auth") /\ ~IsReinvite(i)
       \/ \E p, q \in Admitted : p # "call" /\ Follows(i, p, q)
       \/ /\ pc'[i] \notin {"unsent"} \cup Early \cup Admitted
          /\ resp'[i] # "none" /\ tag'[i] = tag[i]
       \/ pc[i] = "call" /\ pc'[i] = "call" /\ resp'[i] = "200" /\ tag'[i] = tag[i]

Rests == UNCHANGED <<pc, callID, reinvite, resp, tag>>

LEMMA EveryStep ==
    ASSUME InviteTypes, AnswerInv, [Next]_vars
    PROVE  Rests \/ \E i \in Invites : Arrives(i) \/ Moves(i)
<1> USE DEF InviteTypes, reqVars
<1>1. ASSUME NEW i \in Invites, NewInbound(i)
      PROVE  Moves(i)
  BY <1>1 DEF NewInbound, Step, Moves
<1>2. ASSUME NEW i \in Invites, ReplayRejection(i) \/ AuthUnavailable(i)
      PROVE  Moves(i)
  <2>1. /\ pc[i] \in {"lookup", "auth"} /\ UNCHANGED <<callID, reinvite, tag>>
        /\ \A j \in Invites \ {i} : pc'[j] = pc[j] /\ resp'[j] = resp[j]
    BY <1>2 DEF ReplayRejection, AuthUnavailable, RespondAndDrop, Step
  <2>2. \/ pc'[i] = "done" /\ resp'[i] = "reject"
        \/ Follows(i, "lookup", "reinvite")
    BY <1>2, <2>1 DEF ReplayRejection, AuthUnavailable, RespondAndDrop, Step, Follows
  <2> QED
    BY <2>1, <2>2 DEF Moves, Early, Admitted
<1>3. ASSUME NEW i \in Invites, AcceptAsKeepAlive(i)
      PROVE  Moves(i)
  <2>1. /\ pc[i] = "reinvite" /\ UNCHANGED <<callID, reinvite, tag>>
        /\ \A j \in Invites \ {i} : pc'[j] = pc[j] /\ resp'[j] = resp[j]
    BY <1>3 DEF AcceptAsKeepAlive, Step
  <2>2. \/ pc'[i] = "done" /\ resp'[i] = "200"
        \/ Follows(i, "reinvite", "auth") /\ ~IsReinvite(i)
    BY <1>3, <2>1 DEF AcceptAsKeepAlive, Step, Follows
  <2> QED
    BY <2>1, <2>2 DEF Moves, Early, Admitted
<1>4. ASSUME NEW i \in Invites, GetAuth(i)
      PROVE  Moves(i)
  <2>1. /\ pc[i] = "auth" /\ UNCHANGED <<callID, reinvite, tag>>
        /\ \A j \in Invites \ {i} : pc'[j] = pc[j] /\ resp'[j] = resp[j]
    BY <1>4 DEF GetAuth, RespondAndDrop, Step
  <2>2. \/ pc'[i] = "return" /\ resp'[i] \in {"dropped", "reject"}
        \/ Follows(i, "auth", "register")
        \/ Follows(i, "auth", "resolve")
    BY <1>4, <2>1 DEF GetAuth, RespondAndDrop, Step, Follows
  <2> QED
    BY <2>1, <2>2 DEF Moves, Early, Admitted
<1>5. ASSUME NEW i \in Invites, Supersede(i)
      PROVE  Moves(i)
  <2>1. /\ UNCHANGED <<callID, reinvite, tag, resp>>
        /\ \A j \in Invites \ {i} : pc'[j] = pc[j]
        /\ Follows(i, "resolve", "digest")
    BY <1>5 DEF Supersede, Step, Follows
  <2> QED
    BY <2>1 DEF Moves, Follows, Admitted
<1>6. ASSUME NEW i \in Invites, HandleInviteAuth(i)
      PROVE  Moves(i)
  <2>1. /\ pc[i] = "digest" /\ UNCHANGED <<callID, reinvite, tag>>
        /\ \A j \in Invites \ {i} : pc'[j] = pc[j] /\ resp'[j] = resp[j]
    BY <1>6 DEF HandleInviteAuth, Step
  <2>2. \/ pc'[i] = "provision" /\ resp'[i] \in {"401", "407"}
        \/ Follows(i, "digest", "register")
    BY <1>6, <2>1 DEF HandleInviteAuth, Step, Follows
  <2> QED
    BY <2>1, <2>2 DEF Moves, Early, Admitted
<1>7. ASSUME NEW i \in Invites, StoreProvisional(i) \/ ScheduleAuthChallengeTimeout(i) \/ Return(i)
      PROVE  Moves(i)
  <2>1. /\ pc[i] \in {"provision", "arm", "return"} /\ UNCHANGED <<callID, reinvite, tag, resp>>
        /\ \A j \in Invites \ {i} : pc'[j] = pc[j]
        /\ pc'[i] \in {"arm", "return", "done"}
    BY <1>7 DEF StoreProvisional, ScheduleAuthChallengeTimeout, Return, Step
  <2>2. resp[i] # "none"
    BY <2>1 DEF AnswerInv, Early, Admitted
  <2> QED
    BY <2>1, <2>2 DEF Moves, Early, Admitted
<1>8. ASSUME NEW i \in Invites, NewInboundCall(i)
      PROVE  Moves(i)
  <2>1. /\ UNCHANGED <<callID, reinvite, tag, resp>>
        /\ \A j \in Invites \ {i} : pc'[j] = pc[j]
        /\ Follows(i, "register", "call")
    BY <1>8 DEF NewInboundCall, Step, Follows
  <2> QED
    BY <2>1 DEF Moves, Follows, Admitted
<1>9. ASSUME NEW i \in Invites, CallAnswered(i)
      PROVE  Moves(i)
  BY <1>9 DEF CallAnswered, Moves
<1>10. ASSUME NEW i \in Invites, CallEnds(i)
       PROVE  Moves(i)
  <2>1. /\ pc[i] = "call" /\ pc'[i] = "return" /\ UNCHANGED <<callID, reinvite, tag>>
        /\ \A j \in Invites \ {i} : pc'[j] = pc[j] /\ resp'[j] = resp[j]
        /\ resp'[i] \in {"reject", "dropped", "200"}
    BY <1>10 DEF CallEnds, RespondAndDrop, Step
  <2> QED
    BY <2>1 DEF Moves, Early, Admitted
<1>11. ASSUME NEW i \in Invites, TimerFires(i) \/ TimerFinalizes(i)
       PROVE  Rests
  BY <1>11 DEF TimerFires, TimerFinalizes, Rests
<1>12. ASSUME NEW c \in CallIDs, CacheExpires(c)
       PROVE  Rests
  BY <1>12 DEF CacheExpires, Rests
<1>13. CASE UNCHANGED vars
  BY <1>13 DEF vars, Rests
<1> QED
  BY <1>1, <1>2, <1>3, <1>4, <1>5, <1>6, <1>7, <1>8, <1>9, <1>10, <1>11, <1>12, <1>13
     DEF Next, ProcessInvite

\* What an arrival says about the INVITEs that came before.
LEMMA Arrival ==
    ASSUME InviteTypes, NEW i \in Invites, Arrives(i)
    PROVE  /\ pc[i] = "unsent" /\ pc'[i] = "new" /\ UNCHANGED <<callID, resp>>
           /\ \A j \in Invites : j < i => pc[j] # "unsent"
           /\ \A j \in Invites : j < i /\ SameDialog(i, j) => resp[j] # "none"
           /\ \A j \in Invites \ {i} : /\ pc'[j] = pc[j] /\ tag'[j] = tag[j]
                                       /\ reinvite'[j] = reinvite[j]
           /\ \/ \A j \in Invites : j < i /\ SameDialog(i, j) =>
                    resp[j] # "200" /\ (PromptRetry \/ pc[j] = "done")
              \/ /\ reinvite'[i] = TRUE
                 /\ \E j \in Invites : /\ j < i /\ SameDialog(i, j) /\ pc[j] = "call"
                                       /\ tag'[i] = tag[j]
<1> USE BoundsAssumption DEF InviteTypes, SameDialog, Invites
<1>1. /\ pc[i] = "unsent" /\ pc' = [pc EXCEPT ![i] = "new"] /\ UNCHANGED <<callID, resp>>
      /\ \A j \in Invites : j < i => pc[j] # "unsent"
  BY DEF Arrives
<1>2. CASE /\ \A j \in Predecessors(i) : /\ resp[j] \notin {"none", "200"}
                                         /\ PromptRetry \/ pc[j] = "done"
           /\ UNCHANGED <<reinvite, tag>>
  BY <1>1, <1>2 DEF Predecessors
<1>3. CASE /\ \A j \in Predecessors(i) : resp[j] # "none"
           /\ \E j \in Predecessors(i) : /\ pc[j] = "call"
                                         /\ tag' = [tag EXCEPT ![i] = tag[j]]
           /\ reinvite' = [reinvite EXCEPT ![i] = TRUE]
  BY <1>1, <1>3 DEF Predecessors
<1> QED
  BY <1>2, <1>3 DEF Arrives

\* A caller waits for an answer.
LEMMA OrderStep ==
    ASSUME InviteTypes, AnswerInv, OrderInv, [Next]_vars
    PROVE  OrderInv'
<1>1. CASE Rests
  BY <1>1 DEF Rests, OrderInv, SameDialog
<1>2. ASSUME NEW i \in Invites, Arrives(i)
      PROVE  OrderInv'
  <2> SUFFICES ASSUME NEW k \in Invites, NEW j \in Invites, j < k, pc'[k] # "unsent"
               PROVE  pc'[j] # "unsent" /\ (SameDialog(k, j)' => resp'[j] # "none")
    BY DEF OrderInv
  <2>0. UNCHANGED <<callID, resp>>
    BY <1>2, Arrival
  <2>1. /\ j # k /\ (SameDialog(k, j)' <=> SameDialog(k, j))
        /\ resp'[j] = resp[j]
    <3>1. j # k
      BY BoundsAssumption DEF Invites
    <3> QED
      BY <2>0, <3>1 DEF SameDialog
  <2>2. CASE k = i
    BY <1>2, <2>1, <2>2, Arrival
  <2>3. CASE k # i
    <3>1. pc[k] # "unsent"
      BY <1>2, <2>3, Arrival
    <3>2. pc[j] # "unsent" /\ (SameDialog(k, j) => resp[j] # "none")
      BY <3>1 DEF OrderInv
    <3> QED
      BY <1>2, <2>1, <3>2, Arrival
  <2> QED
    BY <2>2, <2>3
<1>3. ASSUME NEW i \in Invites, Moves(i)
      PROVE  OrderInv'
  <2>1. /\ \A j \in Invites : pc'[j] = "unsent" <=> pc[j] = "unsent"
        /\ \A j \in Invites : resp[j] # "none" => resp'[j] # "none"
        /\ UNCHANGED callID
    BY <1>3 DEF Moves, Follows, Admitted
  <2> QED
    BY <2>1 DEF OrderInv, SameDialog
<1> QED
  BY <1>1, <1>2, <1>3, EveryStep

\* A re-INVITE keeps the call's tag; a call does not begin while an INVITE of
\* its Call-ID is open.
LEMMA FollowStep ==
    ASSUME DialogInv, [Next]_vars
    PROVE  FollowInv'
<1> USE DEF DialogInv
<1>1. CASE Rests
  BY <1>1 DEF Rests, FollowInv, SameDialog
<1> SUFFICES ASSUME NEW k \in Invites, NEW j \in Invites, j < k, SameDialog(k, j)',
                    pc'[k] \in Early, pc'[j] = "call"
             PROVE  reinvite'[k] /\ tag'[k] = tag'[j]
  BY DEF FollowInv
<1>2. ASSUME NEW i \in Invites, Arrives(i)
      PROVE  reinvite'[k] /\ tag'[k] = tag'[j]
  <2>1. j # i /\ pc[j] = "call" /\ SameDialog(k, j)
    BY <1>2, Arrival DEF SameDialog
  <2>2. CASE k # i
    <3>1. /\ pc'[k] = pc[k] /\ tag'[k] = tag[k] /\ tag'[j] = tag[j]
          /\ reinvite'[k] = reinvite[k]
      BY <1>2, <2>1, <2>2, Arrival
    <3>2. reinvite[k] /\ tag[k] = tag[j]
      BY <2>1, <3>1 DEF FollowInv
    <3> QED
      BY <3>1, <3>2
  <2>3. CASE k = i
    <3>1. resp[j] = "200"
      BY <1>2, <2>1, <2>3, Arrival DEF AnswerInv
    <3>2. /\ reinvite'[i] = TRUE
          /\ \E l \in Invites : l < i /\ SameDialog(i, l) /\ pc[l] = "call" /\ tag'[i] = tag[l]
      BY <1>2, <2>1, <2>3, <3>1, Arrival
    <3>3. PICK l \in Invites : SameDialog(i, l) /\ pc[l] = "call" /\ tag'[i] = tag[l]
      BY <3>2
    <3>4. l = j
      BY <2>1, <2>3, <3>3 DEF AloneInv, Admitted, SameDialog
    <3> QED
      BY <1>2, <2>1, <2>3, <3>2, <3>3, <3>4, Arrival
  <2> QED
    BY <2>2, <2>3
<1>3. ASSUME NEW i \in Invites, Moves(i)
      PROVE  reinvite'[k] /\ tag'[k] = tag'[j]
  <2>1. SameDialog(k, j) /\ UNCHANGED reinvite
    BY <1>3 DEF Moves, SameDialog
  <2>2. k # j
    BY BoundsAssumption DEF Invites
  <2>3. pc[k] \in Early
    BY <1>3 DEF Moves, Follows, Early, Admitted
  <2>4. resp[k] = "none" /\ resp[j] # "none"
    BY <2>1, <2>3 DEF AnswerInv, OrderInv, Early
  <2>5. pc[j] = "call"
    <3>1. CASE i # j
      BY <1>3, <3>1 DEF Moves
    <3>2. CASE i = j
      BY <1>3, <2>4, <3>2 DEF Moves, Follows, AnswerInv, Admitted
    <3> QED
      BY <3>1, <3>2
  <2>6. reinvite[k] /\ tag[k] = tag[j]
    BY <2>1, <2>3, <2>5 DEF FollowInv
  <2>7. tag'[k] = tag[k] /\ tag'[j] = tag[j]
    BY <1>3, <2>5, <2>6 DEF Moves, Follows
  <2> QED
    BY <2>1, <2>6, <2>7
<1> QED
  BY <1>1, <1>2, <1>3, EveryStep DEF FollowInv

\* A call that lasts is found, and the re-INVITE goes no further.
LEMMA AloneStep ==
    ASSUME DialogInv, [Next]_vars
    PROVE  AloneInv'
<1> USE DEF DialogInv
<1>1. CASE Rests
  BY <1>1 DEF Rests, AloneInv, SameDialog
<1>2. ASSUME NEW i \in Invites, Arrives(i)
      PROVE  AloneInv'
  <2>1. /\ \A j \in Invites : pc'[j] \in Admitted => pc[j] \in Admitted
        /\ UNCHANGED callID
    BY <1>2, Arrival DEF Admitted
  <2> QED
    BY <2>1 DEF AloneInv, SameDialog
<1>3. ASSUME NEW i \in Invites, Moves(i)
      PROVE  AloneInv'
  <2> SUFFICES ASSUME NEW j \in Invites, i # j, SameDialog(i, j), pc[j] \in Admitted,
                      Follows(i, "reinvite", "auth"), ~IsReinvite(i)
               PROVE  FALSE
    <3>1. /\ \A j \in Invites \ {i} : pc'[j] = pc[j]
          /\ UNCHANGED callID
          /\ pc'[i] \in Admitted => pc[i] \in Admitted
                                    \/ (Follows(i, "reinvite", "auth") /\ ~IsReinvite(i))
      BY <1>3 DEF Moves, Follows, Admitted, Early
    <3> QED
      BY <3>1 DEF AloneInv, SameDialog
  <2>1. pc[i] = "reinvite" /\ resp[i] = "none"
    BY DEF Follows, AnswerInv, Early
  <2>2. j < i
    <3>1. ~(i < j)
      BY <2>1 DEF OrderInv, SameDialog, Admitted
    <3> QED
      BY <3>1, BoundsAssumption DEF Invites
  <2>3. resp[j] # "none"
    BY <2>1, <2>2 DEF OrderInv
  <2>4. pc[j] = "call"
    BY <2>3 DEF AnswerInv, Admitted
  <2>5. tag[i] = tag[j]
    BY <2>1, <2>2, <2>4 DEF FollowInv, Early
  <2>6. byLocalTag[tag[i]] = j
    BY <2>4, <2>5 DEF LiveCallFindable
  <2> QED
    BY <2>2, <2>6, BoundsAssumption DEF IsReinvite, Invites
<1> QED
  BY <1>1, <1>2, <1>3, EveryStep

\* Nobody else registers, or removes, the tag of a call.
LEMMA FindableStep ==
    ASSUME DialogInv, [Next]_vars
    PROVE  LiveCallFindable'
<1> USE DEF DialogInv
<1> DEFINE Taken(i, v) == byLocalTag' = [byLocalTag EXCEPT ![tag[i]] = v]
<1>1. ASSUME NEW i \in Invites, pc[i] \in Admitted, pc[i] # pc'[i], UNCHANGED tag,
             Moves(i), Taken(i, IF pc'[i] = "call" THEN i ELSE 0)
      PROVE  LiveCallFindable'
  <2> SUFFICES ASSUME NEW j \in Invites, pc'[j] = "call"
               PROVE  byLocalTag'[tag[j]] = j
    BY <1>1 DEF LiveCallFindable
  <2>1. tag[i] \in Invites /\ callID[tag[i]] = callID[i]
    BY <1>1, TagType DEF Admitted
  <2>2. CASE j = i
    BY <1>1, <2>1, <2>2 DEF InviteTypes
  <2>3. CASE j # i
    <3>1. pc[j] = "call"
      BY <1>1, <2>3 DEF Moves
    <3>2. tag[j] \in Invites /\ callID[tag[j]] = callID[j]
      BY <3>1, TagType
    <3>3. ~SameDialog(i, j)
      BY <1>1, <2>3, <3>1 DEF AloneInv, Admitted
    <3>4. tag[j] # tag[i]
      BY <2>1, <3>2, <3>3 DEF SameDialog
    <3> QED
      BY <1>1, <2>1, <3>1, <3>2, <3>4 DEF InviteTypes, LiveCallFindable
  <2> QED
    BY <2>2, <2>3
<1>2. ASSUME NEW i \in Invites, NewInboundCall(i)
      PROVE  LiveCallFindable'
  <2>1. /\ pc[i] = "register" /\ pc'[i] = "call" /\ UNCHANGED tag /\ Taken(i, i)
    BY <1>2 DEF NewInboundCall, Step, InviteTypes
  <2>2. Moves(i)
    <3>1. /\ UNCHANGED <<callID, reinvite, tag, resp>>
          /\ \A j \in Invites \ {i} : pc'[j] = pc[j]
          /\ Follows(i, "register", "call")
      BY <1>2 DEF NewInboundCall, Step, Follows, InviteTypes, reqVars
    <3> QED
      BY <3>1 DEF Moves, Follows, Admitted
  <2> QED
    BY <1>1, <2>1, <2>2 DEF Admitted
<1>3. ASSUME NEW i \in Invites, CallEnds(i)
      PROVE  LiveCallFindable'
  <2>1. /\ pc[i] = "call" /\ pc'[i] = "return" /\ UNCHANGED tag /\ Taken(i, 0)
        /\ \A j \in Invites \ {i} : pc'[j] = pc[j] /\ resp'[j] = resp[j]
        /\ UNCHANGED <<callID, reinvite>>
        /\ resp'[i] \in {"reject", "dropped", "200"}
    BY <1>3 DEF CallEnds, RespondAndDrop, Step, InviteTypes, reqVars
  <2>2. Moves(i)
    BY <2>1 DEF Moves, Early, Admitted
  <2> QED
    BY <1>1, <2>1, <2>2 DEF Admitted
<1>4. ASSUME UNCHANGED byLocalTag,
             \A j \in Invites : pc'[j] = "call" => pc[j] = "call" /\ tag'[j] = tag[j]
      PROVE  LiveCallFindable'
  BY <1>4 DEF LiveCallFindable
<1> HIDE DEF DialogInv
<1> USE DEF InviteTypes, reqVars, authVars, cacheVars
<1>5. ASSUME InviteTypes, NEW i \in Invites,
             Arrives(i) \/ NewInbound(i) \/ ReplayRejection(i) \/ AuthUnavailable(i)
      PROVE  LiveCallFindable'
  BY <1>4, <1>5 DEF Arrives, NewInbound, ReplayRejection, AuthUnavailable, Step
<1>6. ASSUME InviteTypes, NEW i \in Invites,
             AcceptAsKeepAlive(i) \/ GetAuth(i) \/ Supersede(i) \/ HandleInviteAuth(i)
      PROVE  LiveCallFindable'
  BY <1>4, <1>6 DEF AcceptAsKeepAlive, GetAuth, Supersede, HandleInviteAuth, Step
<1>7. ASSUME InviteTypes, NEW i \in Invites,
             StoreProvisional(i) \/ ScheduleAuthChallengeTimeout(i) \/ Return(i)
      PROVE  LiveCallFindable'
  BY <1>4, <1>7 DEF StoreProvisional, ScheduleAuthChallengeTimeout, Return, Step
<1>8. ASSUME NEW i \in Invites, CallAnswered(i) \/ TimerFires(i) \/ TimerFinalizes(i)
      PROVE  LiveCallFindable'
  BY <1>4, <1>8 DEF CallAnswered, TimerFires, TimerFinalizes
<1>9. ASSUME NEW c \in CallIDs, CacheExpires(c)
      PROVE  LiveCallFindable'
  BY <1>4, <1>9 DEF CacheExpires
<1>10. CASE UNCHANGED vars
  BY <1>4, <1>10 DEF vars
<1>11. InviteTypes
  BY DEF DialogInv
<1> QED
  BY <1>2, <1>3, <1>5, <1>6, <1>7, <1>8, <1>9, <1>10, <1>11 DEF Next, ProcessInvite

LEMMA DialogStep ==
    ASSUME DialogInv, [Next]_vars
    PROVE  DialogInv'
<1>1. InviteTypes' /\ AnswerInv' /\ OrderInv' /\ TagInv'
  BY InviteTypesStep, AnswerStep, OrderStep, TagStep DEF DialogInv
<1> QED
  BY <1>1, FollowStep, AloneStep, FindableStep DEF DialogInv

LEMMA DialogInvariant == Spec => []DialogInv
<1>1. DialogInv /\ [Next]_vars => DialogInv'
  BY DialogStep
<1> QED
  BY <1>1, DialogInit, PTL DEF Spec

\* inbound.go, processInvite: whatever is retried, challenged, evicted or
\* expires, and also when INVITEs overlap, a live call is registered under its
\* tag, so that onBye, onAck and onNotify find it and no other.
THEOREM CallFindable == Spec => []LiveCallFindable
<1>1. DialogInv => LiveCallFindable
  BY DEF DialogInv
<1> QED
  BY <1>1, DialogInvariant, PTL

-----------------------------------------------------------------------------
(* The challenges *)

\* The entries of the list are entries for different Call-IDs.
ListInv ==
    /\ invOf \in Seq(CallIDs) /\ inProgress \in Seq(Nat) /\ Len(inProgress) <= DigestLimit
    /\ \A k \in 1..Len(inProgress) : inProgress[k] \in 1..Len(invOf)
    /\ \A k, l \in 1..Len(inProgress) : invOf[inProgress[k]] = invOf[inProgress[l]] => k = l

FieldTypes ==
    /\ nonce \in Seq(0..MaxInvites) /\ Len(nonce) = Len(invOf)
    /\ resolved \in Seq(BOOLEAN) /\ Len(resolved) = Len(invOf)
    /\ lastNonce \in [CallIDs -> 0..MaxInvites]
    /\ cred \in [Invites -> {"none", "bad", "good"} \X (0..MaxInvites)]

\* An entry that getInvite finds has the last nonce of its Call-ID, if any;
\* right credentials are right for some 407.
NonceInv ==
    /\ \A k \in 1..Len(inProgress) :
          nonce[inProgress[k]] \in {0, lastNonce[invOf[inProgress[k]]]}
    /\ \A i \in Invites : cred[i][1] = "good" => cred[i][2] # 0

ChallengeInv == ListInv /\ FieldTypes /\ NonceInv

LEMMA ChallengeInit == Init => ChallengeInv
<1> SUFFICES ASSUME Init PROVE ChallengeInv
  OBVIOUS
<1>1. inProgress = <<>> /\ invOf = <<>> /\ nonce = <<>> /\ resolved = <<>>
  BY DEF Init
<1>2. ListInv
  BY <1>1, BoundsAssumption DEF ListInv
<1>3. lastNonce \in [CallIDs -> 0..MaxInvites]
  BY BoundsAssumption DEF Init
<1>4. cred = [i \in Invites |-> <<"none", 0>>]
  BY DEF Init
<1>5. cred \in [Invites -> {"none", "bad", "good"} \X (0..MaxInvites)]
  BY <1>4, BoundsAssumption
<1>6. FieldTypes
  BY <1>1, <1>3, <1>5 DEF FieldTypes
<1>7. \A i \in Invites : cred[i][1] # "good"
  BY <1>4
<1>8. NonceInv
  BY <1>1, <1>7 DEF NonceInv
<1> QED
  BY <1>2, <1>6, <1>8 DEF ChallengeInv

\* Assigning an element of a sequence leaves its length alone.
LEMMA SeqUpdate ==
    ASSUME NEW T, NEW s \in Seq(T), NEW r \in [DOMAIN s -> T]
    PROVE  r \in Seq(T) /\ Len(r) = Len(s)
<1>1. Len(s) \in Nat /\ DOMAIN s = 1..Len(s)
  OBVIOUS
<1> QED
  BY <1>1

\* What dropping the oldest entry of a full list, and appending one, does.
LEMMA MakeRoom ==
    ASSUME NEW s \in Seq(Nat), NEW limit \in Nat \ {0}, Len(s) <= limit, NEW n \in Nat,
           NEW r, r = Append(IF Len(s) >= limit THEN Tail(s) ELSE s, n)
    PROVE  /\ r \in Seq(Nat) /\ Len(r) \in 1..limit /\ r[Len(r)] = n
           /\ \E d \in {0, 1} : \A k \in 1..(Len(r) - 1) :
                 k + d \in 1..Len(s) /\ r[k] = s[k + d]
<1>1. Len(s) \in Nat
  OBVIOUS
<1>2. CASE Len(s) >= limit
  <2>1. s # <<>>
    BY <1>2
  <2>2. /\ Tail(s) \in Seq(Nat) /\ Len(Tail(s)) = Len(s) - 1
        /\ \A k \in 1..(Len(s) - 1) : Tail(s)[k] = s[k + 1]
    BY <2>1, HeadTailProperties
  <2>3. /\ Append(Tail(s), n) \in Seq(Nat) /\ Len(Append(Tail(s), n)) = Len(s)
        /\ \A k \in 1..(Len(s) - 1) : Append(Tail(s), n)[k] = Tail(s)[k]
        /\ Append(Tail(s), n)[Len(s)] = n
    BY <1>1, <2>1, <2>2, AppendProperties
  <2>4. \A k \in 1..(Len(s) - 1) : k + 1 \in 1..Len(s) /\ Append(Tail(s), n)[k] = s[k + 1]
    BY <1>1, <2>2, <2>3
  <2> QED
    BY <1>1, <1>2, <2>3, <2>4
<1>3. CASE Len(s) < limit
  <2>1. /\ Append(s, n) \in Seq(Nat) /\ Len(Append(s, n)) = Len(s) + 1
        /\ \A k \in 1..Len(s) : Append(s, n)[k] = s[k]
        /\ Append(s, n)[Len(s) + 1] = n
    BY <1>1, AppendProperties
  <2>2. \A k \in 1..Len(s) : k + 0 \in 1..Len(s) /\ Append(s, n)[k] = s[k + 0]
    BY <1>1, <2>1
  <2> QED
    BY <1>1, <1>3, <2>1, <2>2
<1> QED
  BY <1>1, <1>2, <1>3

\* getInvite: the entry it returns is the only one of the list for the Call-ID.
LEMMA EntryStep ==
    ASSUME ListInv, NEW c \in CallIDs, GetInviteAdds(c)
    PROVE  /\ ListInv'
           /\ GetInvite(c) \in 1..Len(invOf') /\ invOf'[GetInvite(c)] = c
           /\ Len(invOf') \in {Len(invOf), Len(invOf) + 1}
           /\ \A n \in 1..Len(invOf) : invOf'[n] = invOf[n]
           /\ GetInvite(c) \in 1..Len(invOf) =>
                 \E l \in 1..Len(inProgress) : inProgress[l] = GetInvite(c)
           /\ \A k \in 1..Len(inProgress') :
                 \/ inProgress'[k] = GetInvite(c)
                 \/ \E l \in 1..Len(inProgress) : /\ inProgress'[k] = inProgress[l]
                                                  /\ invOf[inProgress[l]] # c
<1> DEFINE g == GetInvite(c)
<1>1. Len(invOf) \in Nat /\ Len(inProgress) \in Nat
  BY DEF ListInv
<1>2. CASE Found(c) # {}
  <2>1. UNCHANGED <<inProgress, invOf>>
    BY <1>2 DEF GetInviteAdds
  <2>2. PICK l \in Found(c) : g = inProgress[l]
    BY <1>2 DEF GetInvite
  <2>3. l \in 1..Len(inProgress) /\ invOf[g] = c
    BY <2>2 DEF Found
  <2>4. g \in 1..Len(invOf)
    BY <2>2, <2>3 DEF ListInv
  <2>5. \A k \in 1..Len(inProgress) : inProgress[k] = g \/ invOf[inProgress[k]] # c
    BY <2>2, <2>3 DEF ListInv
  <2> HIDE DEF g
  <2>6. ListInv'
    BY <2>1 DEF ListInv
  <2> QED
    BY <2>1, <2>2, <2>3, <2>4, <2>5, <2>6 DEF g
<1>3. CASE Found(c) = {}
  <2> DEFINE n == Len(invOf) + 1
  <2>1. /\ g = n /\ invOf' = Append(invOf, c)
        /\ inProgress' = Append(IF Len(inProgress) >= DigestLimit THEN Tail(inProgress)
                                                                 ELSE inProgress, n)
    BY <1>3 DEF GetInviteAdds, GetInvite
  <2>2. \A l \in 1..Len(inProgress) : invOf[inProgress[l]] # c
    BY <1>3 DEF Found
  <2>3. /\ invOf' \in Seq(CallIDs) /\ Len(invOf') = n /\ invOf'[n] = c
        /\ \A m \in 1..Len(invOf) : invOf'[m] = invOf[m]
    BY <1>1, <2>1, AppendProperties DEF ListInv
  <2>4. n \in Nat /\ inProgress \in Seq(Nat) /\ Len(inProgress) <= DigestLimit
    BY <1>1 DEF ListInv
  <2>5. /\ inProgress' \in Seq(Nat) /\ Len(inProgress') \in 1..DigestLimit
        /\ inProgress'[Len(inProgress')] = n
        /\ \E d \in {0, 1} : \A k \in 1..(Len(inProgress') - 1) :
              k + d \in 1..Len(inProgress) /\ inProgress'[k] = inProgress[k + d]
    <3> HIDE DEF n
    <3>1. DigestLimit \in Nat \ {0}
      BY BoundsAssumption
    <3> QED
      BY <2>1, <2>4, <3>1, MakeRoom
  <2>6. PICK d \in {0, 1} : \A k \in 1..(Len(inProgress') - 1) :
              k + d \in 1..Len(inProgress) /\ inProgress'[k] = inProgress[k + d]
    BY <2>5
  <2> HIDE DEF n
  <2>7. \A k \in 1..Len(inProgress') : k = Len(inProgress') \/ k \in 1..(Len(inProgress') - 1)
    BY <2>5, BoundsAssumption
  <2>8. \A k \in 1..(Len(inProgress') - 1) :
           /\ inProgress'[k] \in 1..Len(invOf)
           /\ invOf'[inProgress'[k]] = invOf[inProgress[k + d]]
           /\ invOf'[inProgress'[k]] # c
    <3> SUFFICES ASSUME NEW k \in 1..(Len(inProgress') - 1)
                 PROVE  /\ inProgress'[k] \in 1..Len(invOf)
                        /\ invOf'[inProgress'[k]] = invOf[inProgress[k + d]]
                        /\ invOf'[inProgress'[k]] # c
      OBVIOUS
    <3>1. k + d \in 1..Len(inProgress) /\ inProgress'[k] = inProgress[k + d]
      BY <2>6
    <3>2. inProgress[k + d] \in 1..Len(invOf) /\ invOf[inProgress[k + d]] # c
      BY <2>2, <3>1 DEF ListInv
    <3> QED
      BY <2>3, <3>1, <3>2
  <2>9. n \in 1..Len(invOf') /\ Len(invOf) < n /\ 1..Len(invOf) \subseteq 1..Len(invOf')
    BY <1>1, <2>3 DEF n
  <2>10. \A k \in 1..Len(inProgress') : inProgress'[k] \in 1..Len(invOf')
    BY <2>5, <2>7, <2>8, <2>9
  <2>11. ASSUME NEW k \in 1..Len(inProgress'), NEW l \in 1..Len(inProgress'),
                invOf'[inProgress'[k]] = invOf'[inProgress'[l]]
         PROVE  k = l
    <3>1. CASE k = Len(inProgress') \/ l = Len(inProgress')
      BY <2>3, <2>5, <2>7, <2>8, <2>11, <3>1
    <3>2. CASE k \in 1..(Len(inProgress') - 1) /\ l \in 1..(Len(inProgress') - 1)
      <4>1. invOf[inProgress[k + d]] = invOf[inProgress[l + d]]
        BY <2>8, <2>11, <3>2
      <4>2. k + d = l + d
        BY <2>6, <3>2, <4>1 DEF ListInv
      <4> QED
        BY <3>2, <4>2
    <3> QED
      BY <2>7, <3>1, <3>2
  <2>12. ListInv'
    BY <2>3, <2>5, <2>10, <2>11, BoundsAssumption DEF ListInv
  <2>13. \A k \in 1..Len(inProgress') :
           \/ inProgress'[k] = n
           \/ \E l \in 1..Len(inProgress) : inProgress'[k] = inProgress[l] /\ invOf[inProgress[l]] # c
    BY <2>2, <2>5, <2>6, <2>7
  <2>14. g = n /\ n \notin 1..Len(invOf)
    BY <1>1, <2>1, <2>9
  <2> HIDE DEF g
  <2>15. Len(invOf') \in {Len(invOf), Len(invOf) + 1}
    BY <2>3 DEF n
  <2> QED
    BY <2>3, <2>9, <2>12, <2>13, <2>14, <2>15 DEF g
<1> QED
  BY <1>2, <1>3

\* A field after getInvite.
LEMMA GrownField ==
    ASSUME NEW T, NEW f \in Seq(T), NEW z \in T, Len(f) = Len(invOf),
           invOf' \in Seq(CallIDs), Len(invOf') \in {Len(invOf), Len(invOf) + 1},
           NEW r, r = Grown(f, z)
    PROVE  /\ r \in Seq(T) /\ Len(r) = Len(invOf')
           /\ \A n \in 1..Len(invOf) : r[n] = f[n]
           /\ \A n \in 1..Len(invOf') : n \notin 1..Len(invOf) => r[n] = z
<1>1. Len(f) \in Nat
  OBVIOUS
<1>2. /\ Append(f, z) \in Seq(T) /\ Len(Append(f, z)) = Len(f) + 1
      /\ \A n \in 1..Len(f) : Append(f, z)[n] = f[n]
      /\ Append(f, z)[Len(f) + 1] = z
  BY <1>1, AppendProperties
<1>3. CASE Len(invOf') = Len(invOf)
  BY <1>1, <1>3 DEF Grown
<1>4. CASE Len(invOf') = Len(invOf) + 1
  BY <1>1, <1>2, <1>4 DEF Grown
<1> QED
  BY <1>3, <1>4

\* What a Call-ID's entry and the others look like after getInvite, when the
\* nonce of the entry is left alone or is the last one.
LEMMA NonceKept ==
    ASSUME ChallengeInv, NEW c \in CallIDs, GetInviteAdds(c),
           \/ nonce' = Grown(nonce, 0) /\ lastNonce' = lastNonce
           \/ \E i \in Invites : /\ nonce' = [Grown(nonce, 0) EXCEPT ![GetInvite(c)] = i]
                                 /\ lastNonce' = [lastNonce EXCEPT ![c] = i]
    PROVE  /\ nonce' \in Seq(0..MaxInvites) /\ Len(nonce') = Len(invOf')
           /\ lastNonce' \in [CallIDs -> 0..MaxInvites]
           /\ \A k \in 1..Len(inProgress') :
                 nonce'[inProgress'[k]] \in {0, lastNonce'[invOf'[inProgress'[k]]]}
<1> DEFINE g == GetInvite(c)
           f == Grown(nonce, 0)
<1>1. /\ ListInv' /\ g \in 1..Len(invOf') /\ invOf'[g] = c
      /\ Len(invOf') \in {Len(invOf), Len(invOf) + 1}
      /\ \A n \in 1..Len(invOf) : invOf'[n] = invOf[n]
      /\ g \in 1..Len(invOf) => \E l \in 1..Len(inProgress) : inProgress[l] = g
      /\ \A k \in 1..Len(inProgress') :
            \/ inProgress'[k] = g
            \/ \E l \in 1..Len(inProgress) : /\ inProgress'[k] = inProgress[l]
                                             /\ invOf[inProgress[l]] # c
  BY EntryStep DEF ChallengeInv
<1>2. nonce \in Seq(0..MaxInvites) /\ Len(nonce) = Len(invOf) /\ 0 \in 0..MaxInvites
  BY BoundsAssumption DEF ChallengeInv, FieldTypes
<1>3. /\ f \in Seq(0..MaxInvites) /\ Len(f) = Len(invOf')
      /\ \A n \in 1..Len(invOf) : f[n] = nonce[n]
      /\ \A n \in 1..Len(invOf') : n \notin 1..Len(invOf) => f[n] = 0
  <2>1. invOf' \in Seq(CallIDs)
    BY <1>1 DEF ListInv
  <2> DEFINE T == 0..MaxInvites
             z == 0
             h == Grown(nonce, z)
  <2>2. nonce \in Seq(T) /\ z \in T /\ Len(nonce) = Len(invOf)
    BY <1>2
  <2> HIDE DEF T, z, h
  <2>3. /\ h \in Seq(T) /\ Len(h) = Len(invOf')
        /\ \A n \in 1..Len(invOf) : h[n] = nonce[n]
        /\ \A n \in 1..Len(invOf') : n \notin 1..Len(invOf) => h[n] = z
    BY <1>1, <2>1, <2>2, GrownField DEF h
  <2> QED
    BY <2>3 DEF f, h, z, T
<1> HIDE DEF g, f
<1>4. ASSUME NEW k \in 1..Len(inProgress'), inProgress'[k] # g
      PROVE  /\ inProgress'[k] \in 1..Len(invOf') /\ invOf'[inProgress'[k]] \in CallIDs \ {c}
             /\ f[inProgress'[k]] \in {0, lastNonce[invOf'[inProgress'[k]]]}
  <2>1. PICK l \in 1..Len(inProgress) : inProgress'[k] = inProgress[l] /\ invOf[inProgress[l]] # c
    BY <1>1, <1>4
  <2>2. inProgress[l] \in 1..Len(invOf) /\ invOf[inProgress[l]] \in CallIDs
    BY DEF ChallengeInv, ListInv
  <2>3. nonce[inProgress[l]] \in {0, lastNonce[invOf[inProgress[l]]]}
    BY DEF ChallengeInv, NonceInv
  <2>4. inProgress'[k] \in 1..Len(invOf')
    BY <1>1 DEF ListInv
  <2> QED
    BY <1>1, <1>3, <2>1, <2>2, <2>3, <2>4
<1>5. CASE nonce' = f /\ lastNonce' = lastNonce
  <2>1. f[g] \in {0, lastNonce[c]}
    <3>1. CASE g \in 1..Len(invOf)
      <4>1. PICK l \in 1..Len(inProgress) : inProgress[l] = g
        BY <1>1, <3>1
      <4> QED
        BY <1>1, <1>3, <3>1, <4>1 DEF ChallengeInv, NonceInv
    <3>2. CASE g \notin 1..Len(invOf)
      BY <1>1, <1>3, <3>2
    <3> QED
      BY <3>1, <3>2
  <2>2. lastNonce' \in [CallIDs -> 0..MaxInvites]
    BY <1>5 DEF ChallengeInv, FieldTypes
  <2>3. ASSUME NEW k \in 1..Len(inProgress')
        PROVE  nonce'[inProgress'[k]] \in {0, lastNonce'[invOf'[inProgress'[k]]]}
    <3>1. CASE inProgress'[k] = g
      BY <1>1, <1>5, <2>1, <3>1
    <3>2. CASE inProgress'[k] # g
      BY <1>4, <1>5, <3>2
    <3> QED
      BY <3>1, <3>2
  <2> QED
    BY <1>3, <1>5, <2>2, <2>3
<1>6. ASSUME NEW i \in Invites,
             nonce' = [f EXCEPT ![g] = i], lastNonce' = [lastNonce EXCEPT ![c] = i]
      PROVE  /\ nonce' \in Seq(0..MaxInvites) /\ Len(nonce') = Len(invOf')
             /\ lastNonce' \in [CallIDs -> 0..MaxInvites]
             /\ \A k \in 1..Len(inProgress') :
                   nonce'[inProgress'[k]] \in {0, lastNonce'[invOf'[inProgress'[k]]]}
  <2>1. i \in 0..MaxInvites
    BY BoundsAssumption DEF Invites
  <2>2. /\ nonce' \in Seq(0..MaxInvites) /\ Len(nonce') = Len(invOf')
        /\ \A m \in 1..Len(invOf') : nonce'[m] = IF m = g THEN i ELSE f[m]
    <3>1. /\ nonce' \in Seq(0..MaxInvites) /\ Len(nonce') = Len(f)
          /\ \A m \in 1..Len(f) : nonce'[m] = IF m = g THEN i ELSE f[m]
      <4> DEFINE T == 0..MaxInvites
      <4>1. f \in Seq(T) /\ i \in T
        BY <1>3, <2>1
      <4> HIDE DEF T
      <4>2. /\ nonce' \in Seq(T) /\ Len(nonce') = Len(f)
            /\ \A m \in 1..Len(f) : nonce'[m] = IF m = g THEN i ELSE f[m]
        <5>1. DOMAIN f = 1..Len(f) /\ f \in [DOMAIN f -> T]
          BY <4>1
        <5>2. nonce' \in [DOMAIN f -> T]
          BY <1>6, <4>1, <5>1
        <5>3. nonce' \in Seq(T) /\ Len(nonce') = Len(f)
          BY <4>1, <5>2, SeqUpdate
        <5>4. \A m \in 1..Len(f) : nonce'[m] = IF m = g THEN i ELSE f[m]
          BY <1>6, <5>1
        <5> QED
          BY <5>3, <5>4
      <4> QED
        BY <4>2 DEF T
    <3> QED
      BY <1>3, <1>6, <3>1, Zenon
  <2>3. lastNonce \in [CallIDs -> 0..MaxInvites]
    BY DEF ChallengeInv, FieldTypes
  <2>4. lastNonce' \in [CallIDs -> 0..MaxInvites]
    BY <1>6, <2>1, <2>3, ExceptType
  <2>5. ASSUME NEW k \in 1..Len(inProgress')
        PROVE  nonce'[inProgress'[k]] \in {0, lastNonce'[invOf'[inProgress'[k]]]}
    <3>1. CASE inProgress'[k] = g
      <4>1. nonce'[g] = i
        BY <1>1, <2>2
      <4>2. lastNonce'[c] = i
        BY <1>6, <2>3
      <4> QED
        BY <1>1, <3>1, <4>1, <4>2
    <3>2. CASE inProgress'[k] # g
      <4> DEFINE m == inProgress'[k]
      <4>1. /\ m \in 1..Len(invOf') /\ invOf'[m] \in CallIDs \ {c}
            /\ f[m] \in {0, lastNonce[invOf'[m]]}
        BY <1>4, <3>2
      <4>2. nonce'[m] = f[m]
        BY <2>2, <3>2, <4>1
      <4>3. lastNonce'[invOf'[m]] = lastNonce[invOf'[m]]
        BY <1>6, <2>3, <4>1
      <4> QED
        BY <4>1, <4>2, <4>3
    <3> QED
      BY <3>1, <3>2
  <2> QED
    BY <2>2, <2>4, <2>5
<1> QED
  BY <1>5, <1>6 DEF g, f

\* The flag of an entry after getInvite, and after it is set or reset.
LEMMA ResolvedGrown ==
    ASSUME ListInv, FieldTypes, NEW c \in CallIDs, GetInviteAdds(c)
    PROVE  /\ Grown(resolved, FALSE) \in Seq(BOOLEAN)
           /\ Len(Grown(resolved, FALSE)) = Len(invOf')
           /\ \A n \in 1..Len(invOf) : Grown(resolved, FALSE)[n] = resolved[n]
<1> DEFINE T == BOOLEAN
           z == FALSE
           h == Grown(resolved, z)
<1>1. resolved \in Seq(T) /\ z \in T /\ Len(resolved) = Len(invOf)
  BY DEF FieldTypes
<1>2. invOf' \in Seq(CallIDs) /\ Len(invOf') \in {Len(invOf), Len(invOf) + 1}
  BY EntryStep DEF ListInv
<1> HIDE DEF T, z, h
<1>3. /\ h \in Seq(T) /\ Len(h) = Len(invOf')
      /\ \A n \in 1..Len(invOf) : h[n] = resolved[n]
  BY <1>1, <1>2, GrownField DEF h
<1> QED
  BY <1>3 DEF h, z, T

LEMMA FlagSet ==
    ASSUME NEW s \in Seq(BOOLEAN), NEW n, NEW v \in BOOLEAN
    PROVE  [s EXCEPT ![n] = v] \in Seq(BOOLEAN) /\ Len([s EXCEPT ![n] = v]) = Len(s)
<1> DEFINE T == BOOLEAN
           r == [s EXCEPT ![n] = v]
<1>1. s \in Seq(T) /\ v \in T
  OBVIOUS
<1> HIDE DEF T
<1>2. s \in [DOMAIN s -> T]
  BY <1>1
<1>3. r \in [DOMAIN s -> T]
  BY <1>1, <1>2, ExceptType
<1> HIDE DEF r
<1>4. r \in Seq(T) /\ Len(r) = Len(s)
  BY <1>1, <1>3, SeqUpdate
<1> QED
  BY <1>4 DEF T, r

\* getInvite in Supersede and in handleInviteAuth.
LEMMA ChallengeKept ==
    ASSUME ChallengeInv, NEW c \in CallIDs, GetInviteAdds(c), UNCHANGED cred,
           \/ nonce' = Grown(nonce, 0) /\ lastNonce' = lastNonce
           \/ \E i \in Invites : /\ nonce' = [Grown(nonce, 0) EXCEPT ![GetInvite(c)] = i]
                                 /\ lastNonce' = [lastNonce EXCEPT ![c] = i],
           \/ resolved' = Grown(resolved, FALSE)
           \/ resolved' = [Grown(resolved, FALSE) EXCEPT ![GetInvite(c)] = TRUE]
    PROVE  ChallengeInv'
<1>1. ListInv'
  BY EntryStep DEF ChallengeInv
<1>2. /\ nonce' \in Seq(0..MaxInvites) /\ Len(nonce') = Len(invOf')
      /\ lastNonce' \in [CallIDs -> 0..MaxInvites]
      /\ \A k \in 1..Len(inProgress') :
            nonce'[inProgress'[k]] \in {0, lastNonce'[invOf'[inProgress'[k]]]}
  BY NonceKept
<1>3. resolved' \in Seq(BOOLEAN) /\ Len(resolved') = Len(invOf')
  <2> DEFINE h == Grown(resolved, FALSE)
  <2>1. h \in Seq(BOOLEAN) /\ Len(h) = Len(invOf')
    BY ResolvedGrown DEF ChallengeInv
  <2>2. CASE resolved' = h
    BY <2>1, <2>2
  <2>3. CASE resolved' = [h EXCEPT ![GetInvite(c)] = TRUE]
    <3> HIDE DEF h
    <3> QED
      BY <2>1, <2>3, FlagSet
  <2> QED
    BY <2>2, <2>3
<1>4. FieldTypes'
  BY <1>2, <1>3 DEF ChallengeInv, FieldTypes
<1>5. NonceInv'
  BY <1>2 DEF ChallengeInv, NonceInv
<1> QED
  BY <1>1, <1>4, <1>5 DEF ChallengeInv

LEMMA ChallengeStep ==
    ASSUME InviteTypes, ChallengeInv, [Next]_vars
    PROVE  ChallengeInv'
<1> USE DEF authVars, reqVars, cacheVars
<1>1. ASSUME UNCHANGED <<authVars, cred, lastNonce>>
      PROVE  ChallengeInv'
  BY <1>1 DEF ChallengeInv, ListInv, FieldTypes, NonceInv
<1>2. ASSUME UNCHANGED <<inProgress, invOf, nonce, cred, lastNonce>>,
             NEW n, NEW v \in BOOLEAN, resolved' = [resolved EXCEPT ![n] = v]
      PROVE  ChallengeInv'
  <2>1. resolved' \in Seq(BOOLEAN) /\ Len(resolved') = Len(resolved)
    BY <1>2, FlagSet DEF ChallengeInv, FieldTypes
  <2> QED
    BY <1>2, <2>1 DEF ChallengeInv, ListInv, FieldTypes, NonceInv
<1>3. ASSUME NEW i \in Invites, Arrives(i)
      PROVE  ChallengeInv'
  <2>1. UNCHANGED <<authVars, lastNonce>>
    BY <1>3 DEF Arrives
  <2>2. CASE UNCHANGED cred
    BY <1>1, <2>1, <2>2
  <2>3. ASSUME NEW x \in {<<"none", 0>>, <<"bad", 0>>}
                    \cup {<<"good", j>> : j \in {k \in Predecessors(i) : resp[k] = "407"}},
               cred' = [cred EXCEPT ![i] = x]
        PROVE  ChallengeInv'
    <3>1. /\ x \in {"none", "bad", "good"} \X (0..MaxInvites)
          /\ x[1] = "good" => x[2] # 0
      BY <2>3, BoundsAssumption DEF Predecessors, Invites
    <3>2. cred \in [Invites -> {"none", "bad", "good"} \X (0..MaxInvites)]
      BY DEF ChallengeInv, FieldTypes
    <3>3. cred' \in [Invites -> {"none", "bad", "good"} \X (0..MaxInvites)]
      BY <2>3, <3>1, <3>2, ExceptType
    <3>4. \A j \in Invites : cred'[j] = IF j = i THEN x ELSE cred[j]
      BY <2>3, <3>2
    <3>5. \A j \in Invites : cred'[j][1] = "good" => cred'[j][2] # 0
      BY <3>1, <3>4 DEF ChallengeInv, NonceInv
    <3> QED
      BY <2>1, <3>3, <3>5 DEF ChallengeInv, ListInv, FieldTypes, NonceInv
  <2> QED
    BY <1>3, <2>2, <2>3 DEF Arrives
<1>4. ASSUME NEW i \in Invites, Supersede(i)
      PROVE  ChallengeInv'
  <2>1. callID[i] \in CallIDs
    BY DEF InviteTypes
  <2> QED
    BY <1>4, <2>1, ChallengeKept DEF Supersede, Superseded
<1>5. ASSUME NEW i \in Invites, HandleInviteAuth(i)
      PROVE  ChallengeInv'
  <2>1. callID[i] \in CallIDs
    BY DEF InviteTypes
  <2>2. UNCHANGED cred
    BY <1>5 DEF HandleInviteAuth
  <2>3. CASE UNCHANGED <<authVars, lastNonce>>
    BY <1>1, <2>2, <2>3
  <2>4. CASE /\ GetInviteAdds(callID[i])
             /\ nonce' = [Grown(nonce, 0) EXCEPT ![GetInvite(callID[i])] = i]
             /\ resolved' = Grown(resolved, FALSE)
             /\ lastNonce' = [lastNonce EXCEPT ![callID[i]] = i]
    BY <2>1, <2>2, <2>4, ChallengeKept
  <2>5. CASE /\ GetInviteAdds(callID[i])
             /\ nonce' = Grown(nonce, 0)
             /\ resolved' = Grown(resolved, FALSE)
             /\ UNCHANGED lastNonce
    BY <2>1, <2>2, <2>5, ChallengeKept
  <2> QED
    BY <1>5, <2>3, <2>4, <2>5 DEF HandleInviteAuth
<1>6. ASSUME NEW i \in Invites, ScheduleAuthChallengeTimeout(i)
      PROVE  ChallengeInv'
  <2>1. FALSE \in BOOLEAN
    OBVIOUS
  <2> QED
    BY <1>2, <1>6, <2>1 DEF ScheduleAuthChallengeTimeout, TimerStarts
<1>7. ASSUME NEW i \in Invites, TimerFires(i) \/ TimerFinalizes(i)
      PROVE  ChallengeInv'
  <2>1. UNCHANGED <<inProgress, invOf, nonce, cred, lastNonce>>
    BY <1>7 DEF TimerFires, TimerFinalizes, authVars
  <2>2. CASE UNCHANGED resolved
    BY <1>1, <2>1, <2>2
  <2>3. CASE resolved' = [resolved EXCEPT ![inv[i]] = TRUE]
    BY <1>2, <2>1, <2>3
  <2> QED
    BY <1>7, <2>2, <2>3 DEF TimerFires, TimerFinalizes, authVars
<1>8. ASSUME NEW i \in Invites,
             \/ NewInbound(i) \/ ReplayRejection(i) \/ AcceptAsKeepAlive(i)
             \/ AuthUnavailable(i) \/ GetAuth(i) \/ StoreProvisional(i)
             \/ NewInboundCall(i) \/ CallAnswered(i) \/ CallEnds(i) \/ Return(i)
      PROVE  ChallengeInv'
  BY <1>1, <1>8 DEF NewInbound, ReplayRejection, AcceptAsKeepAlive, AuthUnavailable, GetAuth,
                    StoreProvisional, NewInboundCall, CallAnswered, CallEnds, Return
<1>9. ASSUME NEW c \in CallIDs, CacheExpires(c)
      PROVE  ChallengeInv'
  BY <1>1, <1>9 DEF CacheExpires
<1>10. CASE UNCHANGED vars
  BY <1>1, <1>10 DEF vars
<1> QED
  BY <1>3, <1>4, <1>5, <1>6, <1>7, <1>8, <1>9, <1>10 DEF Next, ProcessInvite

LEMMA ChallengeInvariant == Spec => []ChallengeInv
<1>1. ChallengeInv /\ DialogInv /\ [Next]_vars => ChallengeInv'
  BY ChallengeStep DEF DialogInv
<1> QED
  BY <1>1, ChallengeInit, DialogInvariant, PTL DEF Spec

\* inbound.go, handleInviteAuth and getInvite: however many Call-IDs compete
\* for the digestLimit entries, and also when INVITEs of a Call-ID overlap, an
\* INVITE is let in with a password only if it answers the last challenge that
\* was issued for its Call-ID.
THEOREM OnlyFreshCredentials == Spec => AuthFresh
<1> DEFINE Fresh ==
      \A i \in Invites : pc[i] = "digest" /\ pc'[i] = "register" /\ trunk[callID[i]] = "password"
          => cred[i] = <<"good", lastNonce[callID[i]]>>
<1>1. ASSUME InviteTypes, ChallengeInv, [Next]_vars
      PROVE  [Fresh]_vars
  <2> SUFFICES ASSUME NEW i \in Invites, pc[i] = "digest", pc'[i] = "register",
                      trunk[callID[i]] = "password"
               PROVE  cred[i] = <<"good", lastNonce[callID[i]]>>
    OBVIOUS
  <2>1. HandleInviteAuth(i)
    <3> USE <1>1 DEF InviteTypes, Step
    <3>1. ASSUME NEW j \in Invites, Arrives(j) \/ NewInbound(j) \/ ReplayRejection(j) \/ AcceptAsKeepAlive(j)
          PROVE  FALSE
      BY <3>1 DEF Arrives, NewInbound, ReplayRejection, AcceptAsKeepAlive
    <3>2. ASSUME NEW j \in Invites, AuthUnavailable(j) \/ GetAuth(j) \/ Supersede(j) \/ StoreProvisional(j)
          PROVE  FALSE
      BY <3>2 DEF AuthUnavailable, GetAuth, Supersede, StoreProvisional
    <3>3. ASSUME NEW j \in Invites, \/ ScheduleAuthChallengeTimeout(j) \/ TimerFires(j) \/ TimerFinalizes(j) \/ NewInboundCall(j)
                                    \/ CallAnswered(j) \/ CallEnds(j) \/ Return(j)
          PROVE  FALSE
      BY <3>3 DEF ScheduleAuthChallengeTimeout, TimerFires, TimerFinalizes, NewInboundCall,
         CallAnswered,
         CallEnds, Return
    <3>4. ASSUME NEW c \in CallIDs, CacheExpires(c)
          PROVE  FALSE
      BY <3>4 DEF CacheExpires
    <3>5. ~UNCHANGED vars
      BY DEF vars
    <3>6. ASSUME NEW j \in Invites, HandleInviteAuth(j)
          PROVE  j = i
      BY <3>6 DEF HandleInviteAuth
    <3> QED
      BY <3>1, <3>2, <3>3, <3>4, <3>5, <3>6 DEF Next, ProcessInvite
  <2>2. CredentialsMatch(i)
    <3>1. ~(trunk[callID[i]] = "open")
      OBVIOUS
    <3> QED
      BY <1>1, <2>1, <3>1 DEF HandleInviteAuth, Step, InviteTypes
  <2> DEFINE c == callID[i]
             g == GetInvite(c)
  <2>3. c \in CallIDs
    BY <1>1 DEF InviteTypes
  <2>4. Len(nonce) = Len(invOf) /\ Len(invOf) \in Nat
    BY <1>1 DEF ChallengeInv, FieldTypes, ListInv
  <2>5. g # Len(invOf) + 1
    BY <2>2, <2>4 DEF CredentialsMatch
  <2>6. PICK l \in Found(c) : g = inProgress[l]
    BY <2>5 DEF GetInvite
  <2>7. l \in 1..Len(inProgress) /\ invOf[g] = c
    BY <2>6 DEF Found
  <2>8. nonce[g] \in {0, lastNonce[c]}
    BY <1>1, <2>6, <2>7 DEF ChallengeInv, NonceInv
  <2>9. cred[i][1] = "good" /\ cred[i][2] = nonce[g] /\ cred[i][2] # 0
    BY <1>1, <2>2 DEF CredentialsMatch, ChallengeInv, NonceInv
  <2>10. cred[i] \in {"none", "bad", "good"} \X (0..MaxInvites)
    BY <1>1 DEF ChallengeInv, FieldTypes
  <2> HIDE DEF g
  <2>11. cred[i][2] = lastNonce[c]
    BY <2>8, <2>9
  <2> QED
    BY <2>9, <2>10, <2>11
<1>2. ChallengeInv /\ DialogInv /\ [Next]_vars => [Fresh]_vars
  BY <1>1 DEF DialogInv
<1> QED
  BY <1>2, ChallengeInvariant, DialogInvariant, PTL DEF Spec, AuthFresh

\* The variables that the invariants above leave out.
OtherTypes ==
    /\ trunk \in [CallIDs -> Trunks]
    /\ inv \in [Invites -> Nat]
    /\ failed \in [Invites -> BOOLEAN]
    /\ timer \in [Invites -> {"off", "armed", "firing", "fired"}]
    /\ rejected \subseteq CallIDs
    /\ record \in [Invites -> Statuses]

LEMMA OtherTypesStep ==
    ASSUME InviteTypes, ListInv, OtherTypes, [Next]_vars
    PROVE  OtherTypes'
<1> USE DEF OtherTypes, Statuses, authVars, reqVars, cacheVars
<1>1. ASSUME NEW i \in Invites,
             Arrives(i) \/ NewInbound(i) \/ AcceptAsKeepAlive(i) \/ StoreProvisional(i)
      PROVE  OtherTypes'
  BY <1>1 DEF Arrives, NewInbound, AcceptAsKeepAlive, StoreProvisional
<1>2. ASSUME NEW i \in Invites, ReplayRejection(i) \/ AuthUnavailable(i)
      PROVE  OtherTypes'
  BY <1>2 DEF ReplayRejection, AuthUnavailable, RespondAndDrop, InviteTypes
<1>3. ASSUME NEW i \in Invites, GetAuth(i)
      PROVE  OtherTypes'
  <2>1. UNCHANGED <<trunk, inv, timer>> /\ record' = [record EXCEPT ![tag[i]] = "INCOMING"]
    BY <1>3 DEF GetAuth
  <2>2. record' \in [Invites -> Statuses]
    BY <2>1, ExceptType
  <2>3. rejected' \subseteq CallIDs /\ failed' \in [Invites -> BOOLEAN]
    BY <1>3 DEF GetAuth, RespondAndDrop, InviteTypes
  <2> QED
    BY <2>1, <2>2, <2>3
<1>4. ASSUME NEW i \in Invites, Supersede(i)
      PROVE  OtherTypes'
  <2>1. callID[i] \in CallIDs /\ GetInviteAdds(callID[i])
    BY <1>4 DEF Supersede, InviteTypes
  <2>2. GetInvite(callID[i]) \in Nat
    <3>1. GetInvite(callID[i]) \in 1..Len(invOf')
      BY <2>1, EntryStep
    <3> QED
      BY <3>1
  <2>3. inv' = [inv EXCEPT ![i] = GetInvite(callID[i])]
    BY <1>4 DEF Supersede
  <2>4. inv' \in [Invites -> Nat]
    BY <2>2, <2>3, ExceptType
  <2> QED
    BY <1>4, <2>4 DEF Supersede
<1>5. ASSUME NEW i \in Invites, HandleInviteAuth(i)
      PROVE  OtherTypes'
  BY <1>5 DEF HandleInviteAuth
<1>6. ASSUME NEW i \in Invites, ScheduleAuthChallengeTimeout(i)
      PROVE  OtherTypes'
  BY <1>6 DEF ScheduleAuthChallengeTimeout, TimerStarts
<1>7. ASSUME NEW i \in Invites, TimerFires(i) \/ TimerFinalizes(i)
      PROVE  OtherTypes'
  <2>1. /\ UNCHANGED <<trunk, inv, failed, rejected>>
        /\ timer' = [timer EXCEPT ![i] = "fired"] \/ timer' = [timer EXCEPT ![i] = "firing"]
        /\ UNCHANGED record \/ record' = [record EXCEPT ![tag[i]] = "ERROR"]
    BY <1>7 DEF TimerFires, TimerFinalizes
  <2>2. record' \in [Invites -> Statuses]
    BY <2>1, ExceptType
  <2> QED
    BY <2>1, <2>2
<1>8. ASSUME NEW i \in Invites, NewInboundCall(i)
      PROVE  OtherTypes'
  BY <1>8 DEF NewInboundCall
<1>9. ASSUME NEW i \in Invites, CallAnswered(i) \/ Return(i)
      PROVE  OtherTypes'
  <2>1. /\ UNCHANGED <<trunk, inv, failed, timer, rejected>>
        /\ \E v \in Statuses : record' = [record EXCEPT ![tag[i]] = v]
    BY <1>9 DEF CallAnswered, Return
  <2>2. record' \in [Invites -> Statuses]
    BY <2>1, ExceptType
  <2> QED
    BY <2>1, <2>2
<1>10. ASSUME NEW i \in Invites, CallEnds(i)
       PROVE  OtherTypes'
  BY <1>10 DEF CallEnds, RespondAndDrop, InviteTypes
<1>11. ASSUME NEW c \in CallIDs, CacheExpires(c)
       PROVE  OtherTypes'
  BY <1>11 DEF CacheExpires
<1>12. CASE UNCHANGED vars
  BY <1>12 DEF vars
<1> QED
  BY <1>1, <1>2, <1>3, <1>4, <1>5, <1>6, <1>7, <1>8, <1>9, <1>10, <1>11, <1>12
     DEF Next, ProcessInvite

\* The caches, the entries and the records keep their types, and the list of
\* challenges never outgrows digestLimit.
THEOREM InviteTypeCorrect == Spec => []TypeOK
<1>1. Init => OtherTypes
  BY DEF Init, OtherTypes, Statuses
<1>2. DialogInv /\ ChallengeInv /\ OtherTypes /\ [Next]_vars => OtherTypes'
  BY OtherTypesStep DEF DialogInv, ChallengeInv
<1>3. DialogInv /\ ChallengeInv /\ OtherTypes => TypeOK
  BY DEF DialogInv, ChallengeInv, OtherTypes, InviteTypes, ListInv, FieldTypes, TypeOK
<1> QED
  BY <1>1, <1>2, <1>3, DialogInvariant, ChallengeInvariant, PTL DEF Spec

=============================================================================
