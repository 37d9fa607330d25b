---------------------------- MODULE MCRiskEngine ----------------------------
(***************************************************************************)
(* Instances of RiskEngine for TLC.                                        *)
(***************************************************************************)
EXTENDS RiskEngine

\* A book of two sectors out of three, with a limit of 40000: it starts within the
\* limit, comes close to it with a share of 30.003 percent, which is rounded to
\* 30, reaches exactly the limit and goes beyond.
Hold(tech, energy) ==
  [s \in Sectors |-> CASE s = "Technology" -> tech [] s = "Energy" -> energy [] OTHER -> 0]
Market == {Hold(15000, 10000), Hold(26249, 11251), Hold(38000, 2000), Hold(41000, 1000)}
Drawn == {[value |-> Hold(15000, 10000), limit |-> 40000, total |-> 15000, used |-> 5000]}
=============================================================================
