----------------------------- MODULE MCStateLock -----------------------------
(***************************************************************************)
(* Instances of StateLock for TLC.  p1 and p2 share a host and a pid, p2   *)
(* and p3 a host and a user; p4 is on another host, where it has the pid   *)
(* of p1.                                                                  *)
(***************************************************************************)
EXTENDS StateLock

HostNamed(p) == IF p = "p4" THEN "other" ELSE "here"
PidNamed(p) == IF p = "p3" THEN 3 ELSE 1
UidNamed(p) == IF p = "p1" THEN "root" ELSE "bridge"

\* A probe and two rivals.
RivalProcess == {"p1", "p2", "p3"}
RivalCall == {"a", "b", "c"}
RivalProcessOf == [x \in RivalCall |-> CASE x = "a" -> "p1" [] x = "b" -> "p2" [] x = "c" -> "p3"]
RivalHost == [p \in RivalProcess |-> HostNamed(p)]
RivalPid == [p \in RivalProcess |-> PidNamed(p)]
RivalUid == [p \in RivalProcess |-> UidNamed(p)]

\* A process with two calls and one of another host.
FarProcess == {"p1", "p4"}
FarCall == {"a", "b", "d"}
FarProcessOf == [x \in FarCall |-> IF x = "d" THEN "p4" ELSE "p1"]
FarHost == [p \in FarProcess |-> HostNamed(p)]
FarPid == [p \in FarProcess |-> PidNamed(p)]
FarUid == [p \in FarProcess |-> UidNamed(p)]
=============================================================================
