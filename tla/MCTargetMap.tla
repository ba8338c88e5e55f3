----------------------------- MODULE MCTargetMap -----------------------------
(***************************************************************************)
(* TargetMap and AccMap for TLC: three threads and the data they share.    *)
(***************************************************************************)
EXTENDS AccMap

MCThreads == {"t1", "t2", "t3"}
MCAddrs   == 0 .. 21

(* Image 1 has a function at 20 and a link variable at 10, image 2 a       *)
(* function at 21 and a variable at 12.                                    *)
MCImages == <<[vars |-> <<Bytes(20, 21)>>, links |-> <<Bytes(10, 12)>>],
              [vars |-> <<Bytes(21, 22), Bytes(12, 14)>>, links |-> <<>>]>>

Item(lo, hi)  == [kind |-> "map", r |-> Bytes(lo, hi)]
Zero(lo)      == [kind |-> "zero", r |-> Bytes(lo, lo)]
Struct(lo, fields) == [kind |-> "struct", r |-> Bytes(lo, Last(fields).hi), fields |-> fields]

Call(op)      == [op |-> op, host |-> FALSE]
Data(items)   == [op |-> "data", host |-> FALSE, items |-> items]
OnHost(items) == [op |-> "data", host |-> TRUE, items |-> items]
Enter(items)  == [op |-> "enter", host |-> FALSE, items |-> items]
Exit(items)   == [op |-> "exit", host |-> FALSE, items |-> items]
Updating(items) == [op |-> "update", host |-> FALSE, items |-> items]
End           == [op |-> "end"]
Exits         == [op |-> "fini"]

AccInitialize == [op |-> "acc_init"]
Shutdown      == [op |-> "acc_shutdown"]
ThreadExits   == [op |-> "acc_exit"]
AccData(items)  == [op |-> "acc_data", host |-> FALSE, items |-> items]
AccOnHost       == [op |-> "acc_data", host |-> TRUE, items |-> <<>>]
AccEnd          == [op |-> "acc_data_end"]
Create(lo, hi)  == [op |-> "acc_create", r |-> Bytes(lo, hi), present |-> FALSE]
PCreate(lo, hi) == [op |-> "acc_create", r |-> Bytes(lo, hi), present |-> TRUE]
AccDelete(lo, hi) == [op |-> "acc_delete", r |-> Bytes(lo, hi)]
OnRange(o, lo, hi) == [op |-> o, r |-> Bytes(lo, hi)]
Malloc4         == [op |-> "acc_malloc"]
AskHostPtr      == [op |-> "acc_hostptr"]

Release(lo, hi) == [r |-> Bytes(lo, hi), zero |-> lo = hi, delete |-> FALSE]
Delete(lo, hi)  == [r |-> Bytes(lo, hi), zero |-> lo = hi, delete |-> TRUE]

Run(first, second, registered, isWrong) ==
  [ops |-> [t \in MCThreads |-> IF t = "t1" THEN first ELSE IF t = "t2" THEN second ELSE <<>>],
   images |-> registered, wrong |-> isWrong, first |-> "t1", alone |-> 0]

(* The initial thread calls acc_init before it starts the others.          *)
AccRun(first, second, third, isWrong) ==
  [ops |-> [t \in MCThreads |-> IF t = "t1" THEN <<AccInitialize>> \o first
                               ELSE IF t = "t2" THEN second ELSE third],
   images |-> <<>>, wrong |-> isWrong, first |-> "t1", alone |-> 1]

a == Item(0, 2)
b == Item(4, 6)
c == Item(8, 9)
l == Item(10, 12)
s == Struct(0, <<Bytes(1, 2), Bytes(4, 6)>>)

(* What threads do that share a, b and c, and delete none of them.         *)
Bodies == <<
  <<Data(<<a, b>>), Data(<<b, c, b>>), End, End>>,
  <<Data(<<b, c>>), Data(<<a, Zero(8)>>), End, End>>,
  <<Enter(<<a, b>>), Data(<<Item(0, 1), Zero(4), c>>), Updating(<<Item(1, 2)>>), End,
    Exit(<<Release(0, 2), Release(4, 6)>>)>>,
  <<Enter(<<c, b>>), Exit(<<Release(8, 8), Release(4, 5)>>)>> >>

(* Who of the threads does what makes no difference.                       *)
Sharing == {[ops |-> [t \in MCThreads |-> Bodies[n[t]]], images |-> <<>>, wrong |-> FALSE,
             first |-> "t1", alone |-> 0] :
              n \in {m \in [MCThreads -> DOMAIN Bodies] : m["t1"] <= m["t2"] /\ m["t2"] <= m["t3"]}}

MCPrograms == Sharing \cup {
  \* a region's own data is deleted in it, and entered again
  Run(<<Data(<<a, c>>), Exit(<<Delete(0, 2)>>), Enter(<<a>>), End, Exit(<<Delete(0, 2)>>)>>,
      <<Enter(<<b>>), Enter(<<b>>), Data(<<b, c>>), End, Exit(<<Delete(4, 4)>>)>>, <<>>, FALSE),
  \* structs, whole, in part and next to others
  Run(<<Data(<<c, s, a>>), Data(<<s>>), End, End>>,
      <<Enter(<<s, c>>), Data(<<Item(4, 6)>>), End, Exit(<<Release(1, 2), Release(4, 6)>>)>>,
      <<>>, TRUE),
  Run(<<Data(<<c, s>>), Data(<<s>>), End, End>>,
      <<Enter(<<s, c>>), Data(<<b>>), End, Exit(<<Release(1, 2), Release(4, 6)>>)>>, <<>>, FALSE),
  \* link variables, and an image that comes and goes
  Run(<<Data(<<l>>), Data(<<Item(10, 11), a>>), End, End>>,
      <<Enter(<<l>>), Data(<<l, Zero(10)>>), Exit(<<Release(10, 12)>>), End>>, <<1>>, FALSE),
  Run(<<Data(<<a, Item(20, 21)>>), Data(<<l>>), End, End>>,
      <<Call("register") @@ [image |-> 2], Data(<<Item(12, 14)>>), Enter(<<Item(12, 14)>>), End,
        Exit(<<Delete(12, 14)>>), Call("unregister") @@ [image |-> 2], Data(<<c>>), End>>,
      <<1>>, FALSE),
  \* device pointers of the program
  Run(<<Call("associate") @@ [r |-> Bytes(0, 2)], Data(<<a, b>>), End,
        Call("associate") @@ [r |-> Bytes(4, 6)], Call("disassociate") @@ [r |-> Bytes(0, 2)],
        Data(<<a>>), End>>,
      <<Data(<<b>>), End, Call("disassociate") @@ [r |-> Bytes(4, 6)]>>, <<>>, FALSE),
  \* the program exits while regions are open
  Run(<<OnHost(<<a>>), Data(<<a>>), Data(<<b>>), OnHost(<<c>>), End, End, End, End>>,
      <<Enter(<<b>>), Exit(<<Release(4, 6)>>), Exits>>, <<>>, FALSE),
  Run(<<Enter(<<a, b>>), Updating(<<a>>), Exit(<<Release(0, 2), Release(4, 6)>>)>>,
      <<Exits>>, <<>>, FALSE),
  \* OpenACC: data created, used by regions of others and deleted behind them
  AccRun(<<Create(0, 2), PCreate(0, 2), AccData(<<a, b>>), AskHostPtr, AccEnd, AccDelete(0, 2),
           ThreadExits>>,
         <<PCreate(8, 9), AccData(<<c, b>>), OnRange("acc_update", 8, 9), AccEnd, AccDelete(8, 9)>>,
         <<AccOnHost, AccData(<<b>>), AccEnd, AccEnd, ThreadExits>>, FALSE),
  \* memory of the program's own, and both interfaces at work
  AccRun(<<Malloc4, OnRange("acc_map_data", 0, 2), AccData(<<a>>), AccEnd,
           OnRange("acc_free", 0, 2), OnRange("acc_free", 0, 2)>>,
         <<Malloc4, OnRange("acc_map_data", 4, 6), OnRange("acc_unmap_data", 4, 6),
           OnRange("acc_free", 4, 6)>>,
         <<Data(<<c>>), Enter(<<c>>), End, Exit(<<Release(8, 9)>>)>>, FALSE),
  \* the device is shut down and opened again
  AccRun(<<Create(0, 2), AccDelete(0, 2), Shutdown, AccInitialize, Create(0, 2),
           AccDelete(0, 2)>>, <<>>, <<>>, FALSE),
  \* OpenACC routines that are refused, or called before there is a device
  AccRun(<<Create(0, 2), Create(0, 2)>>, <<PCreate(0, 1), PCreate(1, 3)>>,
         <<OnRange("acc_update", 8, 9)>>, TRUE),
  AccRun(<<Create(0, 2), AccDelete(0, 1)>>, <<AccData(<<a>>), OnRange("acc_unmap_data", 1, 2)>>,
         <<AccDelete(4, 6)>>, TRUE),
  AccRun(<<AccData(<<a, b>>), Shutdown>>, <<AccInitialize>>, <<Create(8, 9)>>, TRUE),
  \* objects that are mapped in parts
  Run(<<Data(<<a>>), End>>, <<Data(<<c, Item(1, 3)>>), End>>, <<>>, TRUE)}

(* Two threads whose first call of OpenACC is at the same time.            *)
FirstCalls == {[AccRun(<<>>, <<Create(0, 2)>>, <<Create(4, 6)>>, FALSE) EXCEPT
                  !.ops["t1"] = <<>>, !.alone = 0]}
=============================================================================
