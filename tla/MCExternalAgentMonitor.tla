------------------------ MODULE MCExternalAgentMonitor ------------------------
(***************************************************************************)
(* Small instances of ExternalAgentMonitor for TLC: watches on one host.   *)
(***************************************************************************)
EXTENDS ExternalAgentMonitor, TLC

CONSTANTS host, w1, w2, s1, s2, none

OneHost == [w \in Watches |-> host]

\* Where no constant tells the watches and the sessions apart.
Alike == Permutations(Watches) \cup Permutations(Sessions)
===============================================================================
