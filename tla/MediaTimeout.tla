---------------------------- MODULE MediaTimeout ----------------------------
(***************************************************************************)
(* The media timeout of a MediaPort (pkg/sip/media_port.go): timeoutLoop,  *)
(* the RTP readers that store the time of the last packet, and the call    *)
(* that enables, changes and disables the timeout.  The three share        *)
(* atomics and the timeoutKick channel, without a lock.                    *)
(*                                                                         *)
(* Time is discrete.  It passes when nobody has anything to do: within an  *)
(* instant the threads interleave freely, but none is starved for one.     *)
(***************************************************************************)
EXTENDS Integers

CONSTANTS
    Options,   \* <<MediaTimeoutInitial, MediaTimeout>> of the port
    Changes,   \* the pairs SetTimeout may be called with
    Defaults,  \* <<defaultMediaTimeoutInitial, defaultMediaTimeout>>
    Park,      \* disabledPark
    MaxTime    \* bound on the time

ASSUME TimesAssumption ==
    /\ MaxTime \in Nat \ {0} /\ Park \in Nat \ {0}
    /\ {Options, Defaults} \subseteq (Nat \ {0}) \X (Nat \ {0})
    /\ Changes \subseteq Int \X Int

VARIABLES
    now,      \* the time; it starts at 1
    (* MediaPort *)
    start,    \* timeoutStart; 0 is nil
    initial,  \* timeoutInitial
    general,  \* timeoutGeneral
    last,     \* lastPacketTime; 0 if none
    kick,     \* timeoutKick holds a value
    closed,   \* the closed fuse is broken
    fired,    \* the time mediaTimeout was closed; 0 if it was not
    (* the thread that controls the timeout *)
    ctl,      \* where it is
    arg,      \* the pair it stores, while it does
    offSince, \* history: when it last disabled the timeout
    (* timeoutLoop *)
    loop,     \* where it is
    timer,    \* when its timer fires
    lStart, lLast, lGeneral, \* its local variables, 0 when they are out of scope
    (* history: what was so when this instant began *)
    heard,    \* the last packet; 0 if none
    armed,    \* timeoutStart
    lowest    \* the least timeoutGeneral, then and since

portVars == <<start, initial, general, last, kick, closed, fired>>
ctlVars  == <<ctl, arg, offSince>>
loopVars == <<loop, timer, lStart, lLast, lGeneral>>
pastVars == <<heard, armed, lowest>>
vars     == <<now, portVars, ctlVars, loopVars, pastVars>>

-----------------------------------------------------------------------------

Lesser(a, b)  == IF a < b THEN a ELSE b
Greater(a, b) == IF a > b THEN a ELSE b

\* Every variable holds a value the Go fields can hold; no timeout is zero.
TypeOK ==
    /\ now \in 1..MaxTime
    /\ start \in 0..MaxTime /\ last \in 0..MaxTime
    /\ initial \in Nat \ {0} /\ general \in Nat \ {0}
    /\ kick \in BOOLEAN /\ closed \in BOOLEAN
    /\ fired \in 0..MaxTime
    /\ ctl \in {"idle", "initial", "general", "start", "clear", "kick"}
    /\ arg \in Int \X Int
    /\ offSince \in 0..MaxTime
    /\ loop \in {"select", "start", "last", "general", "decide", "stopped"}
    /\ timer \in Nat
    /\ lStart \in 0..MaxTime /\ lLast \in 0..MaxTime /\ lGeneral \in Nat
    /\ heard \in 0..MaxTime /\ armed \in 0..MaxTime /\ lowest \in Nat \ {0}

\* NewMediaPortWith: the timeout is disabled, the loop has been started.
Init ==
    /\ now = 1
    /\ start = 0 /\ initial = Options[1] /\ general = Options[2]
    /\ last = 0 /\ kick = FALSE /\ closed = FALSE /\ fired = 0
    /\ ctl = "idle" /\ arg = Options /\ offSince = 1
    /\ loop = "select" /\ timer = 1 + Park
    /\ lStart = 0 /\ lLast = 0 /\ lGeneral = 0
    /\ heard = 0 /\ armed = 0 /\ lowest = Options[2]

-----------------------------------------------------------------------------
(* The controlling thread *)

\* EnableTimeout(true), with the port's options, or SetTimeout.
EnableTimeout ==
    /\ ctl = "idle"
    /\ ctl' = "initial"
    /\ arg' \in {Options} \cup Changes
    /\ UNCHANGED <<now, portVars, offSince, loopVars, pastVars>>

\* EnableTimeout(false).
DisableTimeout ==
    /\ ctl = "idle"
    /\ ctl' = "clear"
    /\ UNCHANGED <<now, portVars, arg, offSince, loopVars, pastVars>>

\* A duration that is not positive is replaced by the default.
Positive(d, default) == IF d <= 0 THEN default ELSE d

\* enableTimeout: the stores, one after the other ...
StoreInitial ==
    /\ ctl = "initial"
    /\ ctl' = "general"
    /\ initial' = Positive(arg[1], Defaults[1])
    /\ UNCHANGED <<now, start, general, last, kick, closed, fired, arg, offSince, loopVars,
                   pastVars>>

StoreGeneral ==
    /\ ctl = "general"
    /\ ctl' = "start"
    /\ general' = Positive(arg[2], Defaults[2])
    /\ lowest' = Lesser(lowest, general')
    /\ UNCHANGED <<now, start, initial, last, kick, closed, fired, arg, offSince, loopVars,
                   heard, armed>>

StoreStart ==
    /\ ctl = "start"
    /\ ctl' = "kick"
    /\ start' = now
    /\ UNCHANGED <<now, initial, general, last, kick, closed, fired, arg, offSince, loopVars,
                   pastVars>>

\* disableTimeout's store ...
ClearStart ==
    /\ ctl = "clear"
    /\ ctl' = "kick"
    /\ start' = 0
    /\ offSince' = now
    /\ UNCHANGED <<now, initial, general, last, kick, closed, fired, arg, loopVars, pastVars>>

\* ... and kickTimeoutLoop: a kick that is pending already is enough.
KickTimeoutLoop ==
    /\ ctl = "kick"
    /\ ctl' = "idle"
    /\ kick' = TRUE
    /\ arg' = Options
    /\ UNCHANGED <<now, start, initial, general, last, closed, fired, offSince, loopVars,
                   pastVars>>

\* Close().
Close ==
    /\ ~closed
    /\ closed' = TRUE
    /\ UNCHANGED <<now, start, initial, general, last, kick, fired, ctlVars, loopVars,
                   pastVars>>

\* A reader of the audio or the video stream got a packet.
PacketArrives ==
    /\ ~closed
    /\ last' = now
    /\ UNCHANGED <<now, start, initial, general, kick, closed, fired, ctlVars, loopVars,
                   pastVars>>

-----------------------------------------------------------------------------
(* timeoutLoop *)

\* Mutant: the loop does not watch the closed fuse.
NotWatched == FALSE

ClosedWatched == closed

\* The select.
Select ==
    /\ loop = "select"
    /\ \/ /\ ClosedWatched
          /\ loop' = "stopped"
          /\ UNCHANGED kick
       \/ /\ kick
          /\ kick' = FALSE
          /\ loop' = "start"
       \/ /\ now >= timer
          /\ loop' = "start"
          /\ UNCHANGED kick
    /\ UNCHANGED <<now, start, initial, general, last, closed, fired, ctlVars, timer, lStart,
                   lLast, lGeneral, pastVars>>

\* Mutant: a disabled timeout is not noticed.
NeverDisabled == FALSE

Disabled == start = 0

\* timeoutStart: if the timeout is disabled, park.
LoadStart ==
    /\ loop = "start"
    /\ \/ /\ Disabled
          /\ loop' = "select"
          /\ timer' = now + Park
          /\ UNCHANGED lStart
       \/ /\ ~Disabled
          /\ lStart' = start
          /\ loop' = "last"
          /\ UNCHANGED timer
    /\ UNCHANGED <<now, portVars, ctlVars, lLast, lGeneral, pastVars>>

LoadLast ==
    /\ loop = "last"
    /\ lLast' = last
    /\ loop' = "general"
    /\ UNCHANGED <<now, portVars, ctlVars, timer, lStart, lGeneral, pastVars>>

LoadGeneral ==
    /\ loop = "general"
    /\ lGeneral' = general
    /\ loop' = "decide"
    /\ UNCHANGED <<now, portVars, ctlVars, timer, lStart, lLast, pastVars>>

\* Mutant: the window always begins with timeoutStart.
DeadlineFromStart == lStart + (IF lLast = 0 THEN initial ELSE lGeneral)

\* The initial window lasts until the first packet; timeoutInitial is loaded
\* only in it.
Deadline == IF lLast = 0 THEN lStart + initial ELSE lLast + lGeneral

\* Mutant: the loop sleeps until the deadline.
WakeAtDeadline == Deadline

\* The timer is capped at the general timeout, so that packets are noticed.
WakeUp == now + Lesser(Deadline - now, lGeneral)

\* The deadline has passed: close(mediaTimeout) and return; else sleep.
Decide ==
    /\ loop = "decide"
    /\ \/ /\ Deadline <= now
          /\ fired' = now
          /\ loop' = "stopped"
          /\ UNCHANGED timer
       \/ /\ Deadline > now
          /\ timer' = WakeUp
          /\ loop' = "select"
          /\ UNCHANGED fired
    /\ lStart' = 0 /\ lLast' = 0 /\ lGeneral' = 0
    /\ UNCHANGED <<now, start, initial, general, last, kick, closed, ctlVars, pastVars>>

-----------------------------------------------------------------------------

Loop == Select \/ LoadStart \/ LoadLast \/ LoadGeneral \/ Decide

Control == StoreInitial \/ StoreGeneral \/ StoreStart \/ ClearStart \/ KickTimeoutLoop

\* Time passes when nobody has anything to do at this instant.
Tick ==
    /\ now < MaxTime
    /\ ctl = "idle"
    /\ loop = "stopped" \/ (loop = "select" /\ ~kick /\ ~closed /\ now < timer)
    /\ now' = now + 1
    /\ heard' = last /\ armed' = start /\ lowest' = general
    /\ UNCHANGED <<portVars, ctlVars, loopVars>>

Next ==
    \/ EnableTimeout \/ DisableTimeout \/ Control \/ Close \/ PacketArrives
    \/ Loop \/ Tick

\* The loop's goroutine runs, and a select that finds several cases ready
\* again and again does not always choose the same one (Go chooses at random).
Fairness == WF_vars(Loop) /\ SF_vars(Select /\ loop' = "stopped")

Spec == Init /\ [][Next]_vars /\ Fairness

-----------------------------------------------------------------------------
(* Properties *)

\* When the call must have been given up: the first packet ends the initial
\* window, also if the timeout is enabled again later; but nobody is given up
\* before the timeout was enabled.
Due == Greater(start, IF last = 0 THEN start + initial ELSE last + general)

\* A silent caller is noticed in time, whatever was changed, and whatever
\* packets came, while the loop slept: at the end of an instant an enabled
\* timeout is not overdue.
Punctual ==
    start # 0 /\ ctl = "idle" /\ ~closed /\ fired = 0 /\ loop = "select" /\ ~kick /\ now < timer
        => now < Due

\* Nobody who talks is cut off, although the loop reads the values one by one
\* while they are stored one by one.  When the timeout fires, the last packet
\* before this instant is older than every general window that was in force in
\* it; or there was none, and the initial window has passed since a timeoutStart
\* that is older than this instant.
NoFalseTimeout ==
    [][fired' # fired => IF heard # 0 THEN now >= heard + lowest
                                      ELSE armed # 0 /\ now >= armed + initial]_vars

\* A disabled timeout does not fire, except at the instant it is disabled.
DisabledIsQuiet == [][fired' # fired => start # 0 \/ offSince = now]_vars

\* The goroutine does not outlive the port.
LoopStops == closed ~> loop = "stopped"
=============================================================================
