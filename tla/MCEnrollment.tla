---------------------------- MODULE MCEnrollment ----------------------------
(***************************************************************************)
(* Enrollment for TLC: two machines.                                       *)
(***************************************************************************)
EXTENDS Enrollment, TLC

CONSTANTS m1, m2, c1, c2, c3

MCSignals == {"s1", "s2", "d1", "d2", "x1", "x2", "h1", "h2"}

\* Machines whose signals are their own; the FQDN of the first falls back to
\* its host name while DNS does not answer.
OwnFacts ==
  (m1 :> {<<{"s1"}, {"d1"}, {"x1"}, {"h1"}>>, <<{"s1"}, {"h1"}, {"x1"}, {"h1"}>>})
  @@ (m2 :> {<<{"s2"}, {"d2"}, {"x2"}, {"h2"}>>})
=============================================================================
