--------------------------- MODULE MCDeviceSync ---------------------------
(* Constant values for checking DeviceSync and ReplayPlan.                 *)
EXTENDS ReplayPlan, TLC

\* Workers are interchangeable: no definition names one.
Symmetry == Permutations(Workers)

\* A schedule to look at: every version is issued before the first commit, the
\* last one to a report, and the write before it commits only when that version
\* has been delivered.
SlowWrite ==
  \A w \in Workers :
    LET t == task[w] IN t.pc # "idle" =>
      /\ next[t.device] < MaxVersions => t.pc = "commit"
      /\ t.kind = "report" <=> t.version = MaxVersions
      /\ t.version = MaxVersions - 1 =>
           t.pc = "commit" \/ lastDelivered[t.device] = MaxVersions

=============================================================================
