------------------------------ MODULE CallLeg ------------------------------
(***************************************************************************)
(* What a call leg of this program promises to the SIP peer, whichever     *)
(* side sent the INVITE: the abstract specification that InboundCall and   *)
(* OutboundCall implement.  It knows nothing of goroutines, locks, rooms   *)
(* and media; its state is what a trace of the messages would show.        *)
(*                                                                         *)
(*   - the INVITE gets any number of provisional answers, then one final   *)
(*     one, and nothing after that;                                        *)
(*   - we send BYE only in an answered dialog, once (again only while the  *)
(*     process is shutting down, when sendBye does not wait for an answer  *)
(*     and keeps the dialog);                                              *)
(*   - the peer's BYE is answered at once and the dialog dropped under its *)
(*     lock: what held the lock may still answer or hang up in between,    *)
(*     and once the dialog is dropped we are silent.                       *)
(***************************************************************************)
EXTENDS Naturals

VARIABLES
    answer,   \* the last response to the INVITE
    byeOut,   \* how many BYE requests we sent
    byeIn,    \* the peer's BYE: none yet, accepted with a 200, dialog dropped
    closing   \* our side is shutting down

legVars == <<answer, byeOut, byeIn, closing>>

Provisional == {"none", "100", "180"}

Init ==
    /\ answer \in {"none", "100"}
    /\ byeOut = 0
    /\ byeIn = "none"
    /\ closing = FALSE

\* A response to the INVITE, provisional or final.
Answer ==
    /\ answer \in Provisional
    /\ byeIn # "dropped"
    /\ answer' \in {"100", "180", "200", "fail"}
    /\ UNCHANGED <<byeOut, byeIn, closing>>

HangUp ==
    /\ answer = "200"
    /\ byeIn # "dropped"
    /\ byeOut = 0 \/ closing
    /\ byeOut' = byeOut + 1
    /\ UNCHANGED <<answer, byeIn, closing>>

PeerHangsUp ==
    /\ byeIn = "none"
    /\ byeIn' = "accepted"
    /\ UNCHANGED <<answer, byeOut, closing>>

DropDialog ==
    /\ byeIn = "accepted"
    /\ byeIn' = "dropped"
    /\ UNCHANGED <<answer, byeOut, closing>>

ShutDown ==
    /\ closing' = TRUE
    /\ UNCHANGED <<answer, byeOut, byeIn>>

Next == Answer \/ HangUp \/ PeerHangsUp \/ DropDialog \/ ShutDown

Spec == Init /\ [][Next]_legVars
=============================================================================
