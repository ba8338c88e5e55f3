----------------------------- MODULE MCWorkShare -----------------------------
(***************************************************************************)
(* WorkShare for TLC: the regions of the runs.  With a Chunk of 2 the      *)
(* team's own shares run out in the second construct, so that every path   *)
(* of alloc_work_share is taken.                                           *)
(***************************************************************************)
EXTENDS WorkShare

MCMaster == "master"
Two   == {"master", "w1"}
Three == {"master", "w1", "w2"}

Nowaits(n) == [i \in 1 .. n |-> "nowait"]

Region(team, constructs, ordered, cancellers) ==
  [team |-> team, constructs |-> constructs, ordered |-> ordered, cancellers |-> cancellers]

(* Threads far apart, two of them for so long that shares come round       *)
(* again; every kind of end and of cancellation.                           *)
MCRegions == {Region(Three, Nowaits(3), {1, 2}, {}),
              Region(Two, Nowaits(8), {}, {}),
              Region(Three, <<"nowait", "barrier", "copy", "nowait">>, {1, 2}, {}),
              Region(Three, <<"nowait", "cancel", "nowait">>, {1, 2}, Three)}
=============================================================================
