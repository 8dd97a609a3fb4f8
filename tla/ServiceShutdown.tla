-------------------------- MODULE ServiceShutdown --------------------------
(***************************************************************************)
(* The life of the process (cmd/livekit-sip/main.go, pkg/service/          *)
(* service.go, pkg/stats/monitor.go, pkg/sip/service.go): start, signals,  *)
(* Stop, and Run, which waits for the calls before it stops SIP.           *)
(*                                                                         *)
(* Threads: main (runService, then Run), its goroutine that waits for one  *)
(* signal, the handlers of CreateSIPParticipant requests, and the SIP      *)
(* server's INVITE handlers.  What a call does between its registration    *)
(* and its end is in InboundCall and OutboundCall.                         *)
(***************************************************************************)
EXTENDS Naturals, FiniteSets

CONSTANTS
    InCalls,   \* bound: the INVITEs that are received
    OutCalls   \* bound: the CreateSIPParticipant requests that are made

ASSUME CallsAssumption ==
    /\ IsFiniteSet(InCalls) /\ IsFiniteSet(OutCalls)
    /\ InCalls \cap OutCalls = {}

Calls == InCalls \cup OutCalls
Signals == {"SIGTERM", "SIGINT"}

VARIABLES
    started, monDown,  \* the Monitor's fuses
    listening,         \* the SIP server receives requests
    topic,             \* the CreateSIPParticipant topic is registered
    pending,           \* signals in stopChan and killChan
    handled,           \* the signal that main's goroutine has taken, or "none"
    stop,              \* Service.Stop: "idle", "fuse", "flag", "done"
    shutdown, killed,  \* the Service's fuse and flag
    main,              \* runService and Run
    found,             \* the calls ActiveCalls has counted
    call,              \* the state of every call
    late               \* history: calls registered since their map was last counted

stopVars == <<pending, handled, stop, shutdown, killed, monDown>>
runVars == <<started, listening, topic, main, found>>
callVars == <<call, late>>
vars == <<stopVars, runVars, callVars>>

CallStates == {"none", "checked", "active", "ended", "refused", "cut"}
MainSteps == {"new", "run", "serve", "dereg", "check", "out", "in", "wait", "cli", "srv", "exit"}

TypeOK ==
    /\ {started, monDown, listening, topic, shutdown, killed} \subseteq BOOLEAN
    /\ pending \subseteq Signals /\ handled \in Signals \cup {"none"}
    /\ stop \in {"idle", "fuse", "flag", "done"}
    /\ main \in MainSteps
    /\ found \in 0..Cardinality(Calls)
    /\ call \in [Calls -> CallStates] /\ late \subseteq Calls

\* main has subscribed to the signals and built the services.
Init ==
    /\ started = FALSE /\ monDown = FALSE /\ listening = FALSE /\ topic = FALSE
    /\ pending = {} /\ handled = "none" /\ stop = "idle" /\ shutdown = FALSE /\ killed = FALSE
    /\ main = "new" /\ found = 0
    /\ call = [c \in Calls |-> "none"] /\ late = {}

\* The client's activeCalls, the server's byLocalTag.
Active(calls) == {c \in calls : call[c] = "active"}

-----------------------------------------------------------------------------
(* Signals and Stop *)

\* The channels hold one signal each.
SignalArrives(s) ==
    /\ main # "exit"
    /\ s \notin pending
    /\ pending' = pending \cup {s}
    /\ UNCHANGED <<handled, stop, shutdown, killed, monDown, runVars, callVars>>

\* The goroutine, started once SIP runs, takes one signal and calls Stop, which
\* shuts the monitor down first.
SignalTaken(s) ==
    /\ main \notin {"new", "exit"}
    /\ handled = "none"
    /\ s \in pending
    /\ pending' = pending \ {s}
    /\ handled' = s
    /\ monDown' = TRUE
    /\ stop' = "fuse"
    /\ UNCHANGED <<shutdown, killed, runVars, callVars>>

StopFuse ==
    /\ stop = "fuse"
    /\ shutdown' = TRUE
    /\ stop' = "flag"
    /\ UNCHANGED <<pending, handled, killed, monDown, runVars, callVars>>

StopFlag ==
    /\ stop = "flag"
    /\ killed' = (handled = "SIGINT")
    /\ stop' = "done"
    /\ UNCHANGED <<pending, handled, shutdown, monDown, runVars, callVars>>

-----------------------------------------------------------------------------
(* runService and Run *)

MainTo(step) == main' = step

\* When the process exits, the calls it still has are cut, and requests that
\* it has not made a call of are lost.
Exit ==
    /\ main' = "exit"
    /\ call' = [c \in Calls |-> CASE call[c] = "active"  -> "cut"
                                  [] call[c] = "checked" -> "refused"
                                  [] OTHER               -> call[c]]

StartMonitor == started' = TRUE

\* Server.Start: UDP, TCP and TLS.
Listen == listening' = TRUE

\* sip.Service.Start: the monitor, the client and the server; whatever fails
\* ends the process.
Start ==
    /\ main = "new"
    /\ \/ StartMonitor /\ Listen /\ MainTo("run") /\ UNCHANGED call
       \/ Exit /\ UNCHANGED <<started, listening>>
    /\ UNCHANGED <<stopVars, topic, found, late>>

\* Run's listeners, RPC server and topic; an error ends the process.
RunStarts ==
    /\ main = "run"
    /\ \/ topic' = TRUE /\ MainTo("serve") /\ UNCHANGED call
       \/ Exit /\ UNCHANGED topic
    /\ UNCHANGED <<stopVars, started, listening, found, late>>

\* <-s.shutdown.Watch()
RunWakes ==
    /\ main = "serve"
    /\ shutdown
    /\ MainTo("dereg")
    /\ UNCHANGED <<stopVars, started, listening, topic, found, callVars>>

RunDeregisters ==
    /\ main = "dereg"
    /\ topic' = FALSE
    /\ MainTo("check")
    /\ UNCHANGED <<stopVars, started, listening, found, callVars>>

\* Mutant: the flag is read before the loop only.
KillSeenOnce == killed /\ main = "check"

\* The flag is read before the loop and on every round.
KillSeen == killed

\* The first read, or the one after the ticker's next tick.
RunChecks ==
    /\ main \in {"check", "wait"}
    /\ MainTo(IF KillSeen THEN "cli" ELSE "out")
    /\ found' = 0
    /\ UNCHANGED <<stopVars, started, listening, topic, callVars>>

\* ActiveCalls: the client's map, ...
CountOut ==
    /\ main = "out"
    /\ found' = Cardinality(Active(OutCalls))
    /\ late' = late \ OutCalls
    /\ MainTo("in")
    /\ UNCHANGED <<stopVars, started, listening, topic, call>>

\* Mutant: the server's calls are not added.
OutboundOnly == found

\* Mutant: a call that has ended stays in byLocalTag.
StaleEntries == found + Cardinality({c \in InCalls : call[c] \in {"active", "ended"}})

\* ActiveCalls.Total
Total == found + Cardinality(Active(InCalls))

\* ... then the server's, under another lock.
CountIn ==
    /\ main = "in"
    /\ found' = Total
    /\ late' = late \ InCalls
    /\ MainTo(IF found' = 0 THEN "cli" ELSE "wait")
    /\ UNCHANGED <<stopVars, started, listening, topic, call>>

Cut(calls) == call' = [c \in Calls |-> IF c \in Active(calls) THEN "cut" ELSE call[c]]

\* sip.Service.Stop: the client's calls, ...
StopClient ==
    /\ main = "cli"
    /\ Cut(OutCalls)
    /\ MainTo("srv")
    /\ UNCHANGED <<stopVars, started, listening, topic, found, late>>

\* ... then the server's and its listeners; Run returns and the process ends.
StopServer ==
    /\ main = "srv"
    /\ listening' = FALSE
    /\ Exit
    /\ UNCHANGED <<stopVars, started, topic, found, late>>

-----------------------------------------------------------------------------
(* Calls *)

HealthOK == started /\ ~monDown

CallUnchanged == UNCHANGED <<stopVars, runVars>>

\* CreateSIPParticipant checks the health first, which CPU load may spoil, and
\* then the request.
CreateSIPParticipant(c) ==
    /\ c \in OutCalls
    /\ call[c] = "none"
    /\ topic
    /\ main # "exit"
    /\ \/ HealthOK /\ call' = [call EXCEPT ![c] = "checked"]
       \/ call' = [call EXCEPT ![c] = "refused"]
    /\ UNCHANGED late
    /\ CallUnchanged

\* newCall enters it into activeCalls.
OutRegisters(c) ==
    /\ call[c] = "checked"
    /\ main # "exit"
    /\ call' = [call EXCEPT ![c] = "active"]
    /\ late' = late \cup {c}
    /\ CallUnchanged

\* An INVITE that passes authentication and dispatch is entered into
\* byLocalTag.  Neither health nor shutdown is looked at.
InRegisters(c) ==
    /\ c \in InCalls
    /\ call[c] = "none"
    /\ listening
    /\ call' = [call EXCEPT ![c] = "active"]
    /\ late' = late \cup {c}
    /\ CallUnchanged

CallEnds(c) ==
    /\ call[c] = "active"
    /\ call' = [call EXCEPT ![c] = "ended"]
    /\ UNCHANGED late
    /\ CallUnchanged

-----------------------------------------------------------------------------

Run == RunWakes \/ RunDeregisters \/ RunChecks \/ CountOut \/ CountIn \/ StopClient \/ StopServer

Next ==
    \/ \E s \in Signals : SignalArrives(s) \/ SignalTaken(s)
    \/ StopFuse \/ StopFlag
    \/ Start \/ RunStarts \/ Run
    \/ \E c \in Calls : CreateSIPParticipant(c) \/ OutRegisters(c) \/ InRegisters(c) \/ CallEnds(c)

\* The threads of the process run.  Nobody has to send a signal, to call, or
\* to hang up.
Fairness ==
    /\ \A s \in Signals : WF_vars(SignalTaken(s))
    /\ WF_vars(StopFuse) /\ WF_vars(StopFlag)
    /\ WF_vars(Start) /\ WF_vars(RunStarts) /\ WF_vars(Run)
    /\ \A c \in OutCalls : WF_vars(OutRegisters(c))

Spec == Init /\ [][Next]_vars /\ Fairness

-----------------------------------------------------------------------------
(* Properties *)

\* SIGTERM means "finishing all SIP then shutting down": unless the process is
\* killed, Run cuts no call that one of its counts could have seen.  (The
\* counts are not atomic with sipServiceStop, nor are new inbound calls
\* refused: a call that registers after the last count of its map is cut.)
Graceful == handled # "SIGINT" => \A c \in Calls : call[c] = "cut" => c \in late

\* SIGINT means "stopping all SIP and shutting down": although Stop breaks the
\* fuse before it stores the flag, so that Run may start to wait for calls,
\* the process ends, even if no call ever does.
KillStops == handled = "SIGINT" ~> main = "exit"

\* A graceful stop ends once there are no more calls, whichever way they went.
DrainEnds == <>[](Active(Calls) = {}) => (handled = "SIGTERM" ~> main = "exit")
=============================================================================
