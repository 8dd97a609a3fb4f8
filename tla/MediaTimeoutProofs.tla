------------------------ MODULE MediaTimeoutProofs ------------------------
(***************************************************************************)
(* The media timeout for every choice of durations and as long as the port *)
(* lives: it fires in time, it cuts off nobody who talks, and not while it *)
(* is disabled.                                                            *)
(***************************************************************************)
EXTENDS MediaTimeout, TLAPS

-----------------------------------------------------------------------------
(* The inductive invariant *)

\* The loop has found the timeout enabled and is reading the atomics.
Reading == loop \in {"last", "general", "decide"}

\* Nothing was stored in the future, and the loop never reads a packet that
\* has not come.
PastInv == start <= now /\ last <= now /\ lLast <= last

\* Time does not pass while the loop reads: what it misses is of this instant.
ReadInv ==
    /\ Reading => (start = 0 => offSince = now)
    /\ loop \in {"general", "decide"} => lLast = last \/ last = now

\* Nor while a kick is pending: it is about a change of this instant.
KickInv == ctl = "kick" \/ (kick /\ loop # "stopped") => start \in {0, now}

\* When no change is under way and no kick is pending, the loop works with the
\* stored values, and its timer is early enough: also for a packet that comes
\* while it sleeps and ends the initial window.
FreshInv ==
    ctl = "idle" /\ ~kick =>
        /\ Reading => lStart = start
        /\ loop = "decide" => lGeneral = general
        /\ loop = "select" /\ start # 0 =>
              /\ timer <= now + general
              /\ timer <= IF last = 0 THEN start + initial ELSE last + general

\* What is stored is what was stored when this instant began, or of this
\* instant, and so is what the loop has read of it.
InstantInv ==
    /\ heard < now /\ armed < now /\ lowest <= general
    /\ last \in {heard, now} /\ start \in {0, armed, now}
    /\ Reading => lStart # 0 /\ lStart \in {armed, now}
    /\ loop \in {"general", "decide"} => lLast \in {heard, now}
    /\ loop = "decide" => lowest <= lGeneral

TimeoutInv == TypeOK /\ PastInv /\ ReadInv /\ KickInv /\ FreshInv /\ InstantInv

-----------------------------------------------------------------------------

LEMMA OptionsType ==
    /\ MaxTime \in Nat \ {0} /\ Park \in Nat \ {0}
    /\ Options \in Int \X Int
    /\ Options[1] \in Nat \ {0} /\ Options[2] \in Nat \ {0}
    /\ Defaults[1] \in Nat \ {0} /\ Defaults[2] \in Nat \ {0}
    /\ Changes \subseteq Int \X Int
<1>1. Options \in (Nat \ {0}) \X (Nat \ {0}) /\ Defaults \in (Nat \ {0}) \X (Nat \ {0})
  BY TimesAssumption
<1> QED
  BY <1>1, TimesAssumption

LEMMA TimeoutInit == Init => TimeoutInv
<1> SUFFICES ASSUME Init PROVE TimeoutInv
  OBVIOUS
<1>1. TypeOK
  <2>1. now \in 1..MaxTime /\ timer \in Nat /\ offSince \in 0..MaxTime /\ lowest \in Nat \ {0}
    BY OptionsType DEF Init
  <2>2. initial \in Nat \ {0} /\ general \in Nat \ {0} /\ arg \in Int \X Int
    BY OptionsType DEF Init
  <2>3. kick \in BOOLEAN /\ closed \in BOOLEAN
    BY DEF Init
  <2> QED
    BY <2>1, <2>2, <2>3, OptionsType DEF Init, TypeOK
<1>2. PastInv /\ ReadInv /\ KickInv
  BY DEF Init, PastInv, ReadInv, Reading, KickInv
<1>3. FreshInv
  BY DEF Init, FreshInv, Reading
<1>4. InstantInv
  BY OptionsType DEF Init, InstantInv, Reading
<1> QED
  BY <1>1, <1>2, <1>3, <1>4 DEF TimeoutInv

\* Durations stay positive, times within the bound.
LEMMA TypeStep ==
    ASSUME TypeOK, PastInv, [Next]_vars
    PROVE  TypeOK'
<1> USE OptionsType DEF TypeOK, portVars, ctlVars, loopVars, pastVars
<1>1. CASE EnableTimeout \/ DisableTimeout
  BY <1>1 DEF EnableTimeout, DisableTimeout
<1>2. CASE StoreInitial
  BY <1>2 DEF StoreInitial, Positive
<1>3. CASE StoreGeneral
  BY <1>3 DEF StoreGeneral, Positive, Lesser
<1>4. CASE StoreStart
  BY <1>4 DEF StoreStart
<1>5. CASE ClearStart
  BY <1>5 DEF ClearStart
<1>6. CASE KickTimeoutLoop
  BY <1>6 DEF KickTimeoutLoop
<1>7. CASE Close
  BY <1>7 DEF Close
<1>8. CASE PacketArrives
  BY <1>8 DEF PacketArrives
<1>9. CASE Select
  BY <1>9 DEF Select
<1>10. CASE LoadStart
  BY <1>10 DEF LoadStart, Disabled
<1>11. CASE LoadLast
  BY <1>11 DEF LoadLast
<1>12. CASE LoadGeneral
  BY <1>12 DEF LoadGeneral
<1>13. CASE Decide
  <2>1. Deadline \in Int
    BY DEF Deadline
  <2>2. ASSUME Deadline > now PROVE WakeUp \in Nat
    BY <2>1, <2>2 DEF WakeUp, Lesser
  <2> QED
    BY <1>13, <2>1, <2>2 DEF Decide
<1>14. CASE Tick
  BY <1>14 DEF Tick
<1>15. CASE UNCHANGED vars
  BY <1>15 DEF vars
<1> QED
  BY <1>1, <1>2, <1>3, <1>4, <1>5, <1>6, <1>7, <1>8, <1>9, <1>10, <1>11, <1>12, <1>13, <1>14,
     <1>15 DEF Next, Control, Loop

\* Time only advances.
LEMMA PastStep ==
    ASSUME TypeOK, PastInv, [Next]_vars
    PROVE  PastInv'
<1> USE DEF TypeOK, PastInv, portVars, ctlVars, loopVars, pastVars
<1>1. CASE EnableTimeout \/ DisableTimeout
  BY <1>1 DEF EnableTimeout, DisableTimeout
<1>2. CASE StoreInitial
  BY <1>2 DEF StoreInitial, Positive
<1>3. CASE StoreGeneral
  BY <1>3 DEF StoreGeneral, Positive
<1>4. CASE StoreStart
  BY <1>4 DEF StoreStart
<1>5. CASE ClearStart
  BY <1>5 DEF ClearStart
<1>6. CASE KickTimeoutLoop
  BY <1>6 DEF KickTimeoutLoop
<1>7. CASE Close
  BY <1>7 DEF Close
<1>8. CASE PacketArrives
  BY <1>8 DEF PacketArrives
<1>9. CASE Select
  BY <1>9 DEF Select
<1>10. CASE LoadStart
  BY <1>10 DEF LoadStart, Disabled
<1>11. CASE LoadLast
  BY <1>11 DEF LoadLast
<1>12. CASE LoadGeneral
  BY <1>12 DEF LoadGeneral
<1>13. CASE Decide
  BY <1>13 DEF Decide, Deadline, WakeUp, Lesser
<1>14. CASE Tick
  BY <1>14 DEF Tick
<1>15. CASE UNCHANGED vars
  BY <1>15 DEF vars
<1> QED
  BY <1>1, <1>2, <1>3, <1>4, <1>5, <1>6, <1>7, <1>8, <1>9, <1>10, <1>11, <1>12, <1>13, <1>14,
     <1>15 DEF Next, Control, Loop

\* A tick finds the loop asleep or stopped.
LEMMA ReadStep ==
    ASSUME TypeOK, PastInv, ReadInv, [Next]_vars
    PROVE  ReadInv'
<1> USE DEF TypeOK, PastInv, ReadInv, Reading, portVars, ctlVars, loopVars, pastVars
<1>1. CASE EnableTimeout \/ DisableTimeout
  BY <1>1 DEF EnableTimeout, DisableTimeout
<1>2. CASE StoreInitial
  BY <1>2 DEF StoreInitial, Positive
<1>3. CASE StoreGeneral
  BY <1>3 DEF StoreGeneral, Positive
<1>4. CASE StoreStart
  BY <1>4 DEF StoreStart
<1>5. CASE ClearStart
  BY <1>5 DEF ClearStart
<1>6. CASE KickTimeoutLoop
  BY <1>6 DEF KickTimeoutLoop
<1>7. CASE Close
  BY <1>7 DEF Close
<1>8. CASE PacketArrives
  BY <1>8 DEF PacketArrives
<1>9. CASE Select
  BY <1>9 DEF Select
<1>10. CASE LoadStart
  BY <1>10 DEF LoadStart, Disabled
<1>11. CASE LoadLast
  BY <1>11 DEF LoadLast
<1>12. CASE LoadGeneral
  BY <1>12 DEF LoadGeneral
<1>13. CASE Decide
  BY <1>13 DEF Decide, Deadline, WakeUp, Lesser
<1>14. CASE Tick
  BY <1>14 DEF Tick
<1>15. CASE UNCHANGED vars
  BY <1>15 DEF vars
<1> QED
  BY <1>1, <1>2, <1>3, <1>4, <1>5, <1>6, <1>7, <1>8, <1>9, <1>10, <1>11, <1>12, <1>13, <1>14,
     <1>15 DEF Next, Control, Loop

\* And no change under way.
LEMMA KickStep ==
    ASSUME TypeOK, KickInv, [Next]_vars
    PROVE  KickInv'
<1> USE DEF TypeOK, KickInv, portVars, ctlVars, loopVars, pastVars
<1>1. CASE EnableTimeout \/ DisableTimeout
  BY <1>1 DEF EnableTimeout, DisableTimeout
<1>2. CASE StoreInitial
  BY <1>2 DEF StoreInitial, Positive
<1>3. CASE StoreGeneral
  BY <1>3 DEF StoreGeneral, Positive
<1>4. CASE StoreStart
  BY <1>4 DEF StoreStart
<1>5. CASE ClearStart
  BY <1>5 DEF ClearStart
<1>6. CASE KickTimeoutLoop
  BY <1>6 DEF KickTimeoutLoop
<1>7. CASE Close
  BY <1>7 DEF Close
<1>8. CASE PacketArrives
  BY <1>8 DEF PacketArrives
<1>9. CASE Select
  BY <1>9 DEF Select
<1>10. CASE LoadStart
  BY <1>10 DEF LoadStart, Disabled
<1>11. CASE LoadLast
  BY <1>11 DEF LoadLast
<1>12. CASE LoadGeneral
  BY <1>12 DEF LoadGeneral
<1>13. CASE Decide
  BY <1>13 DEF Decide, Deadline, WakeUp, Lesser
<1>14. CASE Tick
  BY <1>14 DEF Tick
<1>15. CASE UNCHANGED vars
  BY <1>15 DEF vars
<1> QED
  BY <1>1, <1>2, <1>3, <1>4, <1>5, <1>6, <1>7, <1>8, <1>9, <1>10, <1>11, <1>12, <1>13, <1>14,
     <1>15 DEF Next, Control, Loop

\* A change is followed by a kick, and a kick by a new reading.
LEMMA FreshStep ==
    ASSUME TypeOK, PastInv, ReadInv, FreshInv, [Next]_vars
    PROVE  FreshInv'
<1> USE DEF TypeOK, PastInv, ReadInv, FreshInv, Reading, portVars, ctlVars, loopVars, pastVars
<1>1. CASE EnableTimeout \/ DisableTimeout
  BY <1>1 DEF EnableTimeout, DisableTimeout
<1>2. CASE StoreInitial
  BY <1>2 DEF StoreInitial, Positive
<1>3. CASE StoreGeneral
  BY <1>3 DEF StoreGeneral, Positive
<1>4. CASE StoreStart
  BY <1>4 DEF StoreStart
<1>5. CASE ClearStart
  BY <1>5 DEF ClearStart
<1>6. CASE KickTimeoutLoop
  BY <1>6 DEF KickTimeoutLoop
<1>7. CASE Close
  BY <1>7 DEF Close
<1>8. CASE PacketArrives
  BY <1>8 DEF PacketArrives
<1>9. CASE Select
  BY <1>9 DEF Select
<1>10. CASE LoadStart
  BY <1>10 DEF LoadStart, Disabled
<1>11. CASE LoadLast
  BY <1>11 DEF LoadLast
<1>12. CASE LoadGeneral
  BY <1>12 DEF LoadGeneral
<1>13. CASE Decide
  <2> SUFFICES ASSUME ctl = "idle", ~kick, loop' = "select", start # 0
               PROVE  /\ timer' <= now + general
                      /\ timer' <= IF last = 0 THEN start + initial ELSE last + general
    BY <1>13 DEF Decide
  <2>1. /\ lStart = start /\ lGeneral = general
        /\ lLast = last \/ last = now
        /\ lLast <= last
    BY <1>13 DEF Decide
  <2>2. Deadline \in Int
    BY DEF Deadline
  <2>3. timer' = now + Lesser(Deadline - now, lGeneral)
    BY <1>13 DEF Decide, WakeUp
  <2>4. timer' <= now + general /\ timer' <= Deadline
    BY <2>1, <2>2, <2>3 DEF Lesser
  <2>5. CASE lLast = 0
    BY <2>1, <2>4, <2>5 DEF Deadline
  <2>6. CASE lLast # 0
    BY <2>1, <2>4, <2>6 DEF Deadline
  <2> QED
    BY <2>5, <2>6
<1>14. CASE Tick
  BY <1>14 DEF Tick
<1>15. CASE UNCHANGED vars
  BY <1>15 DEF vars
<1> QED
  BY <1>1, <1>2, <1>3, <1>4, <1>5, <1>6, <1>7, <1>8, <1>9, <1>10, <1>11, <1>12, <1>13, <1>14,
     <1>15 DEF Next, Control, Loop

\* A tick finds the loop asleep, and makes what is stored the past.
LEMMA InstantStep ==
    ASSUME TypeOK, InstantInv, [Next]_vars
    PROVE  InstantInv'
<1> USE DEF TypeOK, InstantInv, Reading, portVars, ctlVars, loopVars, pastVars
<1>1. CASE EnableTimeout \/ DisableTimeout
  BY <1>1 DEF EnableTimeout, DisableTimeout
<1>2. CASE StoreInitial
  BY <1>2 DEF StoreInitial, Positive
<1>3. CASE StoreGeneral
  <2>1. general' \in Nat \ {0} /\ lowest' = Lesser(lowest, general')
    BY <1>3, OptionsType DEF StoreGeneral, Positive
  <2>2. lowest' <= lowest /\ lowest' <= general' /\ lowest' \in Nat
    BY <2>1 DEF Lesser
  <2>3. /\ UNCHANGED <<now, start, last, heard, armed, loop, lStart, lLast, lGeneral>>
    BY <1>3 DEF StoreGeneral
  <2> QED
    BY <2>2, <2>3
<1>4. CASE StoreStart
  BY <1>4 DEF StoreStart
<1>5. CASE ClearStart
  BY <1>5 DEF ClearStart
<1>6. CASE KickTimeoutLoop
  BY <1>6 DEF KickTimeoutLoop
<1>7. CASE Close
  BY <1>7 DEF Close
<1>8. CASE PacketArrives
  BY <1>8 DEF PacketArrives
<1>9. CASE Select
  BY <1>9 DEF Select
<1>10. CASE LoadStart
  BY <1>10 DEF LoadStart, Disabled
<1>11. CASE LoadLast
  BY <1>11 DEF LoadLast
<1>12. CASE LoadGeneral
  BY <1>12 DEF LoadGeneral
<1>13. CASE Decide
  BY <1>13 DEF Decide
<1>14. CASE Tick
  BY <1>14 DEF Tick
<1>15. CASE UNCHANGED vars
  BY <1>15 DEF vars
<1> QED
  BY <1>1, <1>2, <1>3, <1>4, <1>5, <1>6, <1>7, <1>8, <1>9, <1>10, <1>11, <1>12, <1>13, <1>14,
     <1>15 DEF Next, Control, Loop

LEMMA TimeoutStep ==
    ASSUME TimeoutInv, [Next]_vars
    PROVE  TimeoutInv'
  BY TypeStep, PastStep, ReadStep, KickStep, FreshStep, InstantStep DEF TimeoutInv

LEMMA TimeoutInvariant == Spec => []TimeoutInv
<1>1. TimeoutInv /\ [Next]_vars => TimeoutInv'
  BY TimeoutStep
<1> QED
  BY <1>1, TimeoutInit, PTL DEF Spec

-----------------------------------------------------------------------------
(* The theorems *)

\* The fields of MediaPort and the loop's variables keep their types; no
\* duration that enableTimeout stores is zero.
THEOREM TimeoutTypeCorrect == Spec => []TypeOK
<1>1. TimeoutInv => TypeOK
  BY DEF TimeoutInv
<1> QED
  BY <1>1, TimeoutInvariant, PTL

\* media_port.go, timeoutLoop: whatever the durations, and whatever is changed
\* or received while the loop sleeps, an enabled timeout is never overdue at
\* the end of an instant.
THEOREM TimeoutPunctual == Spec => []Punctual
<1>1. TimeoutInv => Punctual
  <2> SUFFICES ASSUME TimeoutInv, start # 0, ctl = "idle", loop = "select", ~kick, now < timer
               PROVE  now < Due
    BY DEF Punctual
  <2>1. timer <= IF last = 0 THEN start + initial ELSE last + general
    BY DEF TimeoutInv, FreshInv
  <2> QED
    BY <2>1 DEF TimeoutInv, TypeOK, Due, Greater
<1> QED
  BY <1>1, TimeoutInvariant, PTL

\* Only timeoutLoop fires.
LEMMA OnlyDecideFires ==
    ASSUME TimeoutInv, [Next]_vars, fired' # fired
    PROVE  Decide /\ loop = "decide" /\ Deadline <= now
<1>1. ~UNCHANGED vars /\ ~Tick /\ ~EnableTimeout /\ ~DisableTimeout
  BY DEF vars, portVars, Tick, EnableTimeout, DisableTimeout
<1>2. ~Control
  BY DEF Control, StoreInitial, StoreGeneral, StoreStart, ClearStart, KickTimeoutLoop
<1>3. ~Close /\ ~PacketArrives
  BY DEF Close, PacketArrives
<1>4. ~Select /\ ~LoadStart /\ ~LoadLast /\ ~LoadGeneral
  BY DEF Select, LoadStart, LoadLast, LoadGeneral, portVars
<1>5. Decide
  BY <1>1, <1>2, <1>3, <1>4 DEF Next, Loop
<1> QED
  BY <1>5 DEF Decide

\* media_port.go, timeoutLoop reads timeoutStart, lastPacketTime and
\* timeoutGeneral one after the other, and changes and packets come between:
\* whatever mixture it gets, it does not fire within the shortest window of
\* this instant after the last packet, nor for a timeoutStart of this instant.
THEOREM NobodyCutOff == Spec => NoFalseTimeout
<1> DEFINE Justified ==
      fired' # fired => IF heard # 0 THEN now >= heard + lowest
                                     ELSE armed # 0 /\ now >= armed + initial
<1>1. ASSUME TimeoutInv, [Next]_vars PROVE [Justified]_vars
  <2> SUFFICES ASSUME fired' # fired
               PROVE  IF heard # 0 THEN now >= heard + lowest
                                   ELSE armed # 0 /\ now >= armed + initial
    OBVIOUS
  <2>1. loop = "decide" /\ Deadline <= now
    BY <1>1, OnlyDecideFires
  <2>2. /\ now \in Nat \ {0} /\ heard \in Nat /\ armed \in Nat
        /\ lowest \in Nat \ {0} /\ initial \in Nat \ {0} /\ lGeneral \in Nat
    BY <1>1 DEF TimeoutInv, TypeOK
  <2>3. /\ lLast \in {heard, now} /\ lowest <= lGeneral
        /\ lStart # 0 /\ lStart \in {armed, now}
    BY <1>1, <2>1 DEF TimeoutInv, InstantInv, Reading
  <2>4. lLast = heard
    BY <2>1, <2>2, <2>3 DEF Deadline
  <2>5. CASE heard # 0
    BY <2>1, <2>2, <2>3, <2>4, <2>5 DEF Deadline
  <2>6. CASE heard = 0
    BY <2>1, <2>2, <2>3, <2>4, <2>6 DEF Deadline
  <2> QED
    BY <2>5, <2>6
<1>2. TimeoutInv /\ [Next]_vars => [Justified]_vars
  BY <1>1
<1> QED
  BY <1>2, TimeoutInvariant, PTL DEF Spec, NoFalseTimeout

\* media_port.go, disableTimeout: the loop may have read timeoutStart before,
\* but then it fires at the instant of the call, never later.
THEOREM DisabledStaysQuiet == Spec => DisabledIsQuiet
<1>1. ASSUME TimeoutInv, [Next]_vars
      PROVE  [fired' # fired => start # 0 \/ offSince = now]_vars
  BY <1>1, OnlyDecideFires DEF TimeoutInv, ReadInv, Reading
<1>2. TimeoutInv /\ [Next]_vars => [fired' # fired => start # 0 \/ offSince = now]_vars
  BY <1>1
<1> QED
  BY <1>2, TimeoutInvariant, PTL DEF Spec, DisabledIsQuiet
=============================================================================
