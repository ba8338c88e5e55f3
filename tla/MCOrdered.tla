----------------------------- MODULE MCOrdered -----------------------------
(***************************************************************************)
(* Ordered and Doacross for TLC: sequences of loops.                       *)
(***************************************************************************)
EXTENDS Doacross

Wait(sched, n, chunk)   == [kind |-> "ordered", sched |-> sched, n |-> n, chunk |-> chunk, nowait |-> FALSE]
Nowait(sched, n, chunk) == [kind |-> "ordered", sched |-> sched, n |-> n, chunk |-> chunk, nowait |-> TRUE]

(* Threads come back to the queue while others join it, it runs empty and  *)
(* full, loops have fewer iterations than threads or none, and threads are *)
(* two loops apart.                                                        *)
MCPrograms == {
  <<Nowait("dynamic", 4, 1), Wait("guided", 4, 1)>>,
  <<Nowait("dynamic", 2, 1), Nowait("dynamic", 0, 1), Nowait("dynamic", 3, 2)>>,
  <<Nowait("static", 5, 1), Wait("static", 2, 0)>>,
  <<Nowait("static", 4, 0), Wait("dynamic", 3, 1), Wait("static", 4, 2)>>}

Across(sched, chunk, counts, sinks, ull) ==
  [kind |-> "doacross", sched |-> sched, n |-> counts[1], chunk |-> chunk, nowait |-> ~ull,
   inner |-> Tail(counts), sinks |-> sinks, ull |-> ull]

Left == <<-1, 0>>
Up   == <<0, -1>>
Diagonal == <<-1, 1>>

(* With words of three bits: loops that can and cannot be flattened, an    *)
(* entry that goes through several outer iterations, larger and smaller    *)
(* shares, the wider type, no iteration, and an ordered loop behind.       *)
CrossPrograms == {
  <<Across("static", 0, <<3, 2>>, <<Left, Up>>, FALSE), Wait("dynamic", 3, 1)>>,
  <<Across("static", 0, <<4, 3>>, <<Diagonal, Up>>, FALSE), Across("guided", 1, <<0, 3>>, <<Left>>, FALSE)>>,
  <<Across("dynamic", 2, <<4, 3>>, <<Diagonal>>, FALSE)>>,
  <<Across("guided", 1, <<5, 2>>, <<Diagonal, Left>>, FALSE)>>,
  <<Across("dynamic", 2, <<3, 2>>, <<Left, Up>>, TRUE)>>,
  <<Across("static", 4, <<8, 2>>, <<<<-3, 0>>, Diagonal>>, TRUE)>>,
  <<Across("static", 1, <<7>>, <<<<-1>>, <<-3>>>>, TRUE)>>}

AllPrograms == MCPrograms \cup CrossPrograms

(* No iteration at all, then an ordered loop. *)
EmptyLoop == {<<Wait("static", 0, 1), Wait("static", 3, 1)>>}
=============================================================================
