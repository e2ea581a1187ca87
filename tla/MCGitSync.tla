---- MODULE MCGitSync ----
(* Model values for GitSync: a file that is there from the start and one that is not, each changed here and by
   teammates. *)
EXTENDS GitSync, TLC

CONSTANTS f, g, s, m1, m2, t1, t2

MCFiles  == {f, g}
MCMine   == {m1, m2}
MCTheirs == {s, t1, t2}
MCSeeds  == {s}
MCFileOf == [c \in MCMine \cup MCTheirs |-> IF c \in {s, m1, t1} THEN f ELSE g]
MCPushes == {{t1, t2}}
MCRequests == {[kind |-> "publish", paths |-> {f}]}
MCPulls    == MCRequests \cup {[kind |-> "pull", paths |-> {}]}
MCSyncs    == {[kind |-> "push", paths |-> {}], [kind |-> "sync", paths |-> MCFiles]}
===========================
