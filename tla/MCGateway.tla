----------------------------- MODULE MCGateway -----------------------------
(* Instances of Gateway with one write register and two values.  The gate's *)
(* window is one clock step, so it may close at any moment of a command.    *)
EXTENDS Gateway, TLC

CONSTANTS fan, rod, stage0, stage3, junk

MCHolders == {"worker", "settler"}
MCValues == {stage0, stage3}

\* Nothing tells the two values apart.
ValueSymmetry == Permutations(MCValues)

\* The same where symmetry may not be used: start from one of the values.
MCLiveInit == GatewayInit /\ held = [r \in Registers |-> stage0]

MCLiveSpec ==
  MCLiveInit /\ [][GatewayNext]_vars /\ GoroutinesRun /\ Surroundings
=============================================================================
