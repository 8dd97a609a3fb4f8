----------------------- MODULE ServiceShutdownProofs -----------------------
(***************************************************************************)
(* Graceful, for any number of calls.                                      *)
(***************************************************************************)
EXTENDS ServiceShutdown, FiniteSetTheorems, TLAPS

\* Run is about to stop SIP.
Stopping == main \in {"cli", "srv"}

\* No call is cut before that; Run gets there without a kill only after two
\* counts that found nothing, and then what is active has registered since.
\* Exit before RunStarts is the other way to cut calls: no count came before.
ShutdownInv ==
    /\ call \in [Calls -> CallStates]
    /\ found \in Nat
    /\ handled \in Signals \cup {"none"}
    /\ killed => handled = "SIGINT"
    /\ main \notin {"srv", "exit"} => \A c \in Calls : call[c] # "cut"
    /\ main \in {"new", "run"} => Active(Calls) \subseteq late
    /\ main = "in" /\ found = 0 => Active(OutCalls) \subseteq late
    /\ Stopping /\ handled # "SIGINT" => Active(Calls) \subseteq late
    /\ Graceful

LEMMA ActiveEmpty ==
    ASSUME NEW calls, IsFiniteSet(calls)
    PROVE  Cardinality(Active(calls)) \in Nat /\ (Cardinality(Active(calls)) = 0 => Active(calls) = {})
<1>1. Active(calls) \subseteq calls
  BY DEF Active
<1>2. IsFiniteSet(Active(calls))
  BY <1>1, FS_Subset
<1> QED
  BY <1>2, FS_CardinalityType, FS_EmptySet

\* What a call's own step does.
LEMMA CallStep ==
    ASSUME ShutdownInv, NEW c \in Calls, NEW state \in CallStates \ {"cut"},
           call' = [call EXCEPT ![c] = state], CallUnchanged,
           (state # "active" /\ late' = late) \/ late' = late \cup {c},
           call[c] # "cut"
    PROVE  ShutdownInv'
<1>1. \A d \in Calls : call'[d] = IF d = c THEN state ELSE call[d]
  BY DEF ShutdownInv
<1>2. call' \in [Calls -> CallStates]
  BY DEF ShutdownInv
<1>3. \A calls : calls \subseteq Calls /\ Active(calls) \subseteq late => Active(calls)' \subseteq late'
  BY <1>1 DEF Active
<1>4. OutCalls \subseteq Calls
  BY DEF Calls
<1>5. UNCHANGED <<main, found, handled, killed>>
  BY DEF CallUnchanged, stopVars, runVars
<1>6. Graceful'
  BY <1>1, <1>5 DEF ShutdownInv, Graceful
<1>7. main \notin {"srv", "exit"} => \A d \in Calls : call'[d] # "cut"
  BY <1>1 DEF ShutdownInv
<1>8. /\ Active(Calls) \subseteq late => Active(Calls)' \subseteq late'
      /\ Active(OutCalls) \subseteq late => Active(OutCalls)' \subseteq late'
  BY <1>1, <1>4 DEF Active
<1> QED
  BY <1>2, <1>5, <1>6, <1>7, <1>8 DEF ShutdownInv, Stopping

LEMMA ShutdownStep ==
    ASSUME ShutdownInv, [Next]_vars
    PROVE  ShutdownInv'
<1> USE DEF ShutdownInv, Stopping
<1>1. ASSUME NEW s \in Signals, SignalArrives(s) PROVE ShutdownInv'
  BY <1>1 DEF SignalArrives, runVars, callVars, Graceful, Active
<1>2. ASSUME NEW s \in Signals, SignalTaken(s) PROVE ShutdownInv'
  BY <1>2 DEF SignalTaken, runVars, callVars, Graceful, Active
<1>3. CASE StopFuse
  BY <1>3 DEF StopFuse, runVars, callVars, Graceful, Active
<1>4. CASE StopFlag
  BY <1>4 DEF StopFlag, runVars, callVars, Graceful, Active
<1>5. CASE Start
  BY <1>5 DEF Start, StartMonitor, Listen, Exit, MainTo, stopVars, Graceful, Active, CallStates
<1>6. CASE RunStarts
  BY <1>6 DEF RunStarts, Exit, MainTo, stopVars, Graceful, Active, CallStates
<1>7. CASE RunWakes
  BY <1>7 DEF RunWakes, MainTo, stopVars, callVars, Graceful, Active
<1>8. CASE RunDeregisters
  BY <1>8 DEF RunDeregisters, MainTo, stopVars, callVars, Graceful, Active
<1>9. CASE RunChecks
  BY <1>9 DEF RunChecks, KillSeen, MainTo, stopVars, callVars, Graceful, Active
<1>10. CASE CountOut
  <2>1. Cardinality(Active(OutCalls)) \in Nat /\ (Cardinality(Active(OutCalls)) = 0 => Active(OutCalls) = {})
    BY ActiveEmpty, CallsAssumption
  <2> QED
    BY <1>10, <2>1 DEF CountOut, MainTo, stopVars, Graceful, Active
<1>11. CASE CountIn
  <2> DEFINE k == Cardinality(Active(InCalls))
  <2>1. k \in Nat /\ (k = 0 => Active(InCalls) = {})
    BY ActiveEmpty, CallsAssumption
  <2>2. /\ main = "in" /\ found' = found + k /\ late' = late \ InCalls
        /\ main' = IF found' = 0 THEN "cli" ELSE "wait"
        /\ UNCHANGED <<call, handled, killed>>
    BY <1>11 DEF CountIn, Total, MainTo, stopVars
  <2> HIDE DEF k
  <2>3. found' \in Nat /\ (found' = 0 => found = 0 /\ k = 0)
    BY <2>1, <2>2
  <2>4. found' = 0 => Active(Calls)' \subseteq late'
    <3>1. Active(Calls) = Active(OutCalls) \cup Active(InCalls) /\ Active(OutCalls) \cap InCalls = {}
      BY CallsAssumption DEF Active, Calls
    <3>2. Active(Calls)' = Active(Calls)
      BY <2>2 DEF Active
    <3> QED
      BY <2>1, <2>2, <2>3, <3>1, <3>2
  <2>5. Graceful' /\ \A c \in Calls : call'[c] # "cut"
    BY <2>2 DEF Graceful
  <2> QED
    BY <2>2, <2>3, <2>4, <2>5
<1>12. CASE StopClient
  BY <1>12 DEF StopClient, Cut, MainTo, stopVars, Graceful, Active, CallStates, Calls
<1>13. CASE StopServer
  BY <1>13 DEF StopServer, Exit, stopVars, Graceful, Active, CallStates
<1>14. ASSUME NEW c \in Calls, CreateSIPParticipant(c) PROVE ShutdownInv'
  BY <1>14, CallStep DEF CreateSIPParticipant, CallStates
<1>15. ASSUME NEW c \in Calls, OutRegisters(c) PROVE ShutdownInv'
  BY <1>15, CallStep DEF OutRegisters, CallStates
<1>16. ASSUME NEW c \in Calls, InRegisters(c) PROVE ShutdownInv'
  BY <1>16, CallStep DEF InRegisters, CallStates
<1>17. ASSUME NEW c \in Calls, CallEnds(c) PROVE ShutdownInv'
  BY <1>17, CallStep DEF CallEnds, CallStates
<1>18. CASE UNCHANGED vars
  BY <1>18 DEF vars, stopVars, runVars, callVars, Graceful, Active
<1> QED
  BY <1>1, <1>2, <1>3, <1>4, <1>5, <1>6, <1>7, <1>8, <1>9, <1>10, <1>11, <1>12, <1>13, <1>14,
     <1>15, <1>16, <1>17, <1>18 DEF Next, Run

\* service.go, Run: whatever is signalled, called and ended meanwhile, a stop
\* that is not a kill cuts no call that was there for Run's counts to see.
THEOREM StopIsGraceful == Spec => []Graceful
<1>1. Init => ShutdownInv
  BY DEF Init, ShutdownInv, Stopping, Graceful, Active, CallStates
<1>2. ShutdownInv => Graceful
  BY DEF ShutdownInv
<1> QED
  BY <1>1, <1>2, ShutdownStep, PTL DEF Spec
=============================================================================
