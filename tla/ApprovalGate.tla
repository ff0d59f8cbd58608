---------------------------- MODULE ApprovalGate ----------------------------
(***************************************************************************)
(* What the approval path promises, without queue, workers or database:    *)
(* a call a rule holds back waits for a reviewer, a reviewer may release   *)
(* it only while its window is open, a released call goes out at most      *)
(* once, and a refused one never does.                                     *)
(***************************************************************************)
EXTENDS Naturals

CONSTANT Calls

VARIABLES
    gate,   \* "none", "waiting", "lapsed", "released" or "refused"
    out     \* how often the call went out

gateVars == <<gate, out>>

GateInit ==
    /\ gate = [c \in Calls |-> "none"]
    /\ out = [c \in Calls |-> 0]

Hold(c) == gate[c] = "none" /\ gate' = [gate EXCEPT ![c] = "waiting"] /\ UNCHANGED out

Lapse(c) == gate[c] = "waiting" /\ gate' = [gate EXCEPT ![c] = "lapsed"] /\ UNCHANGED out

ReleaseCall(c) ==
    gate[c] = "waiting" /\ gate' = [gate EXCEPT ![c] = "released"] /\ UNCHANGED out

\* A sweep may refuse several calls in one step.
Refuse(C) ==
    /\ C # {} /\ \A c \in C : gate[c] \in {"waiting", "lapsed"}
    /\ gate' = [c \in Calls |-> IF c \in C THEN "refused" ELSE gate[c]]
    /\ UNCHANGED out

Call(c) ==
    /\ gate[c] = "released" /\ out[c] = 0
    /\ out' = [out EXCEPT ![c] = 1]
    /\ UNCHANGED gate

GateNext ==
    \/ \E c \in Calls : Hold(c) \/ Lapse(c) \/ ReleaseCall(c) \/ Call(c)
    \/ \E C \in SUBSET Calls : Refuse(C)

GateSpec == GateInit /\ [][GateNext]_gateVars

=============================================================================
