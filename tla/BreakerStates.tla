---------------------------- MODULE BreakerStates ----------------------------
(***************************************************************************)
(* The circuit breaker as circuit_breaker.go:28-43 draws it: three states  *)
(* and the arrows between them, each taken at once.  What the drawing says *)
(* of probes is spelled out: a half-open breaker knows which entries it    *)
(* has let in to decide it, and without ProbeNum it has one, which does    *)
(* not leave before somebody has decided.                                  *)
(***************************************************************************)
EXTENDS Naturals, FiniteSets

CONSTANT Requests

VARIABLES
  probeNum,   \* how many probes must succeed; 0: a half-open breaker lets in one
  state,      \* Closed, HalfOpen or Open
  probes      \* the entries this half-open period has let in and has not seen leave

vars == <<probeNum, state, probes>>

Init == probeNum \in Nat /\ state = "Closed" /\ probes = {}

Move(from, to, left) ==
  /\ state = from /\ state' = to
  /\ probes' = left
  /\ UNCHANGED probeNum

SwitchToOpen == Move("Closed", "Open", {})

Probe(r) == Move("Open", "HalfOpen", {r})

ProbeAgain(r) == probeNum > 0 /\ Move("HalfOpen", "HalfOpen", probes \cup {r})

ProbeLeaves(r) == probeNum > 0 /\ Move("HalfOpen", "HalfOpen", probes \ {r})

ProbeFailed == Move("HalfOpen", "Open", {})

ProbeSucceeded == Move("HalfOpen", "Closed", {})

Decide == ProbeFailed \/ ProbeSucceeded

Next == \/ SwitchToOpen \/ Decide
        \/ \E r \in Requests : Probe(r) \/ ProbeAgain(r) \/ ProbeLeaves(r)

Spec == Init /\ [][Next]_vars

(* A probe decides; with ProbeNum more probes have to come first.          *)
Decided == WF_vars(probeNum = 0 /\ Decide)

FairSpec == Spec /\ Decided
=============================================================================
