---------------------------- MODULE MCWorkspace ----------------------------
EXTENDS Workspace, TLC

CONSTANTS m1, m2

\* What the user may do in each part, and the materials there are: each part
\* on its own, and the parts that meet in a store together.
Files(s1, s2) == m1 :> s1 @@ m2 :> s2

Do(c, f, q, r) == [chat |-> c, files |-> f, quiz |-> q, review |-> r]

MCScenarios ==
    { [clicks |-> Do(3, 0, 0, 0), faults |-> 0, alive |-> {1}, files |-> Files("absent", "absent")],
      [clicks |-> Do(2, 0, 0, 0), faults |-> 1, alive |-> {1, 2}, files |-> Files("ready", "absent")],
      [clicks |-> Do(0, 2, 0, 0), faults |-> 0, alive |-> {1}, files |-> Files("ready", "processing")],
      [clicks |-> Do(0, 1, 0, 0), faults |-> 1, alive |-> {1}, files |-> Files("ready", "pending")],
      [clicks |-> Do(0, 1, 0, 0), faults |-> 0, alive |-> {1}, files |-> Files("absent", "absent")],
      [clicks |-> Do(1, 0, 4, 0), faults |-> 1, alive |-> {1}, files |-> Files("absent", "absent")],
      [clicks |-> Do(2, 0, 1, 1), faults |-> 0, alive |-> {1}, files |-> Files("absent", "absent")],
      [clicks |-> Do(1, 0, 0, 3), faults |-> 0, alive |-> {1}, files |-> Files("absent", "absent")],
      [clicks |-> Do(1, 0, 0, 2), faults |-> 1, alive |-> {1}, files |-> Files("absent", "absent")] }
=============================================================================
