------------------------------- MODULE MCRaid -------------------------------
(***************************************************************************)
(* Instances of RaidArray for TLC: a mirror of d1 and d2, each put only in *)
(* its own bay, and a spare that goes in the bay of d2.  The rebuild saves *)
(* its check point in the middle of the array and at its end.              *)
(***************************************************************************)
EXTENDS RaidRebuild

CONSTANTS d1, d2, spare, nodrive

MCDrives == {d1, d2, spare}
MCOwn == [s \in Slots |-> IF s = 0 THEN d1 ELSE d2]
MCFits == [d \in MCDrives |-> CASE d = d1 -> {0} [] d = d2 -> {1} [] OTHER -> {1}]

Bounds(c, w, p, f, t, s, b, all) ==
  [e \in Events |-> CASE e = "cut" -> c [] e = "write" -> w [] e = "plug" -> p [] e = "fail" -> f
                      [] e = "timeout" -> t [] e = "switch" -> s [] e = "rebuild" -> b
                      [] e = "any" -> all]
PowerLossBudget == Bounds(2, 2, 4, 3, 1, 1, 1, 4)
SourceBudget == Bounds(1, 1, 2, 1, 0, 0, 0, 5)

\* No drive is moved from one bay to the other.
ASSUME FitsAssumption == FixedBays
=============================================================================
