------------------------------ MODULE TargetMap ------------------------------
(***************************************************************************)
(* The memory map of one offloading device (target.c): which ranges of     *)
(* host addresses have a copy on the device, and who still refers to it.   *)
(* Host threads open and close target data regions, enter and exit data,   *)
(* update, associate and disassociate pointers, load and unload offload    *)
(* images, and one of them may exit, which finalizes the device.           *)
(*                                                                         *)
(* devicep->lock is held through each of gomp_map_vars, gomp_unmap_vars,   *)
(* gomp_exit_data, gomp_update, resolve_device and so on: they are one     *)
(* step each, and the threads interleave between them.  Addresses are      *)
(* small numbers; alignment, the copies between host and device and the    *)
(* kinds that make no key (pointers, firstprivate) are left out.           *)
(***************************************************************************)
EXTENDS Integers, Sequences, FiniteSets, FiniteSetsExt, SequencesExt

CONSTANTS
  Threads,
  Programs,  \* [ops |-> the operations of each thread, images |-> those
             \*  registered at the start, wrong |-> it maps what must not be,
             \*  first, alone |-> the thread whose so many first operations
             \*  are done before the other threads start]
  Images,    \* Images[i]: [vars |-> ranges of functions and variables,
             \*             links |-> ranges of "declare target link" variables]
  Addrs,     \* the host addresses
  MaxTgts    \* bound: target_mem_descs that live at a time

Tgts  == 1 .. MaxTgts
None  == <<0, 0>>         \* no key
NoBlock  == 0
Dangling == 0             \* in data_environ, where a tgt has been freed
REFCOUNT_INFINITY == 15   \* ~0 and ~1 of a word of four bits
REFCOUNT_LINK     == 14

VARIABLES
  program,
  step,         \* step[t]: the operation t has reached
  item,         \* item[t]: the next item of t's enter data
  pc,
  state,        \* devicep->state
  device,       \* [map |-> the keys in mem_map, tgt |-> the target_mem_descs,
                \*  memory |-> the blocks allocated on the device,
                \*  environ |-> the chain openacc.data_environ, see AccMap]
  images,       \* offload_images, as a sequence
  target_data,  \* target_data[t]: the chain icv->target_data, first entry first
  entered,      \* history: entered[a]: references of enter data to item at a
  process       \* "runs", "aborted" (gomp_fatal) or "crashed"

vars == <<program, step, item, pc, state, device, images, target_data, entered, process>>

(* A key is <<k, n>>, the n-th node of tgt k's array.                      *)
KeyOf(d, q) == d.tgt[q[1]].array[q[2]]

(* own: tgt_end is not 0, so that the block to_free goes with the tgt.      *)
Freed == [live |-> FALSE, refcount |-> 0, size |-> 0, block |-> NoBlock, own |-> FALSE,
          array |-> <<>>, list |-> <<>>]
NewBlock(d) == CHOOSE b \in 1 .. Cardinality(d.memory) + 1 : b \notin d.memory
NewTgt(d) == CHOOSE k \in Tgts : ~d.tgt[k].live /\ \A j \in 1 .. k - 1 : d.tgt[j].live

(* An operation on [lo, hi) of the host.                                   *)
Bytes(lo, hi) == [lo |-> lo, hi |-> hi]
Within(r, s)  == s.lo <= r.lo /\ r.hi <= s.hi

(* splay_tree_lookup: a node that splay_compare calls equal. *)
Overlap(r, s)   == r.hi > s.lo /\ r.lo < s.hi
Matches(d, r)   == {q \in d.map : Overlap(KeyOf(d, q), r)}
Lookup(d, r)    == IF Matches(d, r) = {} THEN None ELSE CHOOSE q \in Matches(d, r) : TRUE
Lookup0Len(d, r) == Lookup(d, IF r.lo = r.hi THEN Bytes(r.lo, r.hi + 1) ELSE r)

-----------------------------------------------------------------------------
(* gomp_map_vars.  A list of items is [kind |-> "map", r |-> its range],   *)
(* "zero" (a zero-length array section) or "struct" with the fields that   *)
(* lie in its range.  The function goes through the list twice, here as m: *)
(* the device, tgt->list so far, what the first pass adds up to in size,   *)
(* where the second pass is in the block, and whether all is well.         *)

Entry(q, r) == [key |-> q, r |-> r]

(* mutant: a mapping that exists is used without being counted *)
Existing_Uncounted(m, q, r) ==
  [m EXCEPT !.ok = @ /\ Within(r, KeyOf(m.d, q)), !.list = Append(@, Entry(q, r))]

(* gomp_map_vars_existing *)
Existing(m, q, r) ==
  [m EXCEPT !.ok = @ /\ Within(r, KeyOf(m.d, q)),
            !.list = Append(@, Entry(q, r)),
            !.d.tgt[q[1]].array[q[2]].refs = IF @ = REFCOUNT_INFINITY THEN @ ELSE @ + 1]

(* gomp_map_fields_existing: field f of a struct of which n is mapped.     *)
FieldExisting(m, n, f) ==
  LET q == Lookup(m.d, f) IN
  IF q # None /\ q[1] = n[1]
     /\ KeyOf(m.d, q).lo - KeyOf(m.d, n).lo = KeyOf(m.d, q).off - KeyOf(m.d, n).off
  THEN Existing(m, q, f) ELSE [m EXCEPT !.ok = FALSE]

FieldsExisting(m, n, fields) == FoldLeft(LAMBDA acc, f : FieldExisting(acc, n, f), m, fields)

Mapped(m, q) == q # None /\ KeyOf(m.d, q).refs # REFCOUNT_LINK
SizeOf(it)   == it.r.hi - (IF it.kind = "struct" THEN it.fields[1].lo ELSE it.r.lo)

(* First pass: what is mapped is counted, the sizes of the rest add up;    *)
(* m.left keeps the items the second pass has to look at.                  *)
FirstPass(m, it) ==
  LET q == IF it.kind = "zero" THEN Lookup0Len(m.d, it.r) ELSE Lookup(m.d, it.r) IN
  CASE it.kind = "struct" /\ q # None -> FieldsExisting(m, q, it.fields)
    [] it.kind # "struct" /\ Mapped(m, q) -> Existing(m, q, it.r)
    [] it.kind = "zero" /\ ~Mapped(m, q) -> [m EXCEPT !.list = Append(@, Entry(None, it.r))]
    [] OTHER -> [m EXCEPT !.left = Append(@, it), !.size = @ + SizeOf(it)]

(* The next node of tgt->array becomes a key for r.  It takes the place of *)
(* a "declare target link" variable there.                                 *)
Insert(m, k, r, off) ==
  LET n    == Lookup(m.d, r)
      key  == [lo |-> r.lo, hi |-> r.hi, refs |-> 1, off |-> off, link |-> n]
      q    == <<k, Len(m.d.tgt[k].array) + 1>>
  IN  [m EXCEPT !.d.map = (@ \ {n}) \cup {q},
                !.d.tgt[k].array = Append(@, key),
                !.d.tgt[k].refcount = @ + 1,
                !.list = Append(@, Entry(q, r))]

MapRange(m, k, r, off) ==
  LET q == Lookup(m.d, r) IN IF Mapped(m, q) THEN Existing(m, q, r) ELSE Insert(m, k, r, off)

(* Second pass: the items left get their keys, a struct's fields as far    *)
(* apart as they are on the host.                                          *)
SecondPass(m, k, it) ==
  LET n    == Lookup(m.d, it.r)
      base == it.fields[1].lo
      Fields(acc, f) == MapRange(acc, k, f, m.at + f.lo - base) IN
  IF it.kind # "struct"
  THEN IF Mapped(m, n) THEN Existing(m, n, it.r)
       ELSE [Insert(m, k, it.r, m.at) EXCEPT !.at = @ + SizeOf(it)]
  ELSE IF n # None THEN FieldsExisting(m, n, it.fields)
       ELSE [FoldLeft(Fields, m, it.fields) EXCEPT !.at = @ + SizeOf(it)]

(* The whole of gomp_map_vars with the tgt k; first is tgt->refcount at    *)
(* its start, 0 for enter data and 1 for a region.                         *)
MapVars(d, items, first) ==
  LET k     == NewTgt(d)
      begin == [d |-> [d EXCEPT !.tgt[k] = [Freed EXCEPT !.live = TRUE, !.refcount = first]],
                list |-> <<>>, left |-> <<>>, size |-> 0, at |-> 0, ok |-> TRUE]
      found == FoldLeft(FirstPass, begin, items)
      all   == FoldLeft(LAMBDA m, it : IF m.ok THEN SecondPass(m, k, it) ELSE m,
                        found, found.left)
      done  == [all EXCEPT !.d.tgt[k].size = found.size, !.d.tgt[k].list = all.list]
      block == NewBlock(d)
  IN  IF first = 0 /\ done.d.tgt[k].refcount = 0 THEN [done EXCEPT !.d.tgt[k] = Freed]
      ELSE IF found.left = <<>> THEN done
      ELSE [done EXCEPT !.d.tgt[k].block = block, !.d.tgt[k].own = TRUE,
                        !.d.memory = @ \cup {block}]

-----------------------------------------------------------------------------
(* Releasing.  gomp_unmap_tgt frees the block on the device, the array of  *)
(* keys and the descriptor.                                                *)

FreeTgt(d, k) ==
  [d EXCEPT !.tgt[k] = Freed,
            !.environ = [i \in DOMAIN @ |-> IF @[i] = k THEN Dangling ELSE @[i]]]

UnmapTgt(d, k) ==
  LET e == FreeTgt(d, k) IN
  IF d.tgt[k].own THEN [e EXCEPT !.memory = @ \ {d.tgt[k].block}] ELSE e

DropTgt(d, k) == IF d.tgt[k].refcount > 1 THEN [d EXCEPT !.tgt[k].refcount = @ - 1]
                 ELSE UnmapTgt(d, k)

(* mutant: a link variable is not put back *)
RemoveKey_NoLink(d, q) == DropTgt([d EXCEPT !.map = @ \ {q}], q[1])

(* A key without references leaves the map; a link variable comes back.    *)
RemoveKey(d, q) ==
  DropTgt([d EXCEPT !.map = (@ \ {q}) \cup ({KeyOf(d, q).link} \ {None})], q[1])

SetRefs(d, q, n) == [d EXCEPT !.tgt[q[1]].array[q[2]].refs = n]

UnmapEntry(d, e) ==
  IF e.key = None \/ KeyOf(d, e.key).refs \in {0, REFCOUNT_INFINITY} THEN d
  ELSE LET n == KeyOf(d, e.key).refs - 1
       IN  IF n > 0 THEN SetRefs(d, e.key, n) ELSE RemoveKey(SetRefs(d, e.key, 0), e.key)

(* gomp_unmap_vars *)
UnmapVars(d, k) ==
  IF d.tgt[k].list = <<>> \/ state = "finalized" THEN FreeTgt(d, k)
  ELSE DropTgt(FoldLeft(UnmapEntry, d, d.tgt[k].list), k)

(* One item of gomp_exit_data: [r, zero |-> zero-length, delete]. *)
ExitItem(d, it) ==
  LET q == IF it.zero THEN Lookup0Len(d, it.r) ELSE Lookup(d, it.r) IN
  IF q = None \/ KeyOf(d, q).refs = REFCOUNT_INFINITY THEN d
  ELSE LET n == IF it.delete \/ KeyOf(d, q).refs = 0 THEN 0 ELSE KeyOf(d, q).refs - 1
       IN  IF n > 0 THEN SetRefs(d, q, n) ELSE RemoveKey(SetRefs(d, q, 0), q)

-----------------------------------------------------------------------------
(* Offload images. *)

(* gomp_load_image_to_device: one tgt holds the keys of the whole image.   *)
Load(d, i) ==
  LET k == NewTgt(d)
      Node(r, n) == [lo |-> r.lo, hi |-> r.hi, refs |-> n, off |-> 0, link |-> None]
      nodes == [j \in DOMAIN Images[i].vars |-> Node(Images[i].vars[j], REFCOUNT_INFINITY)]
               \o [j \in DOMAIN Images[i].links |-> Node(Images[i].links[j], REFCOUNT_LINK)]
  IN  [d EXCEPT !.map = @ \cup {<<k, j>> : j \in DOMAIN nodes},
                !.tgt[k] = [Freed EXCEPT !.live = TRUE, !.refcount = REFCOUNT_INFINITY,
                                         !.array = nodes]]

(* gomp_unload_image_from_device.  The key of a link variable may be one   *)
(* that has taken its place.                                               *)
Unload(d, i) ==
  LET node == Lookup(d, Images[i].vars[1])
      Out(m, r) ==
        LET n == Lookup(m.d, r)
            e == [m.d EXCEPT !.map = @ \ {n}] IN
        IF n = None \/ KeyOf(m.d, n).link = None THEN [m EXCEPT !.d = e]
        ELSE [d |-> DropTgt(e, n[1]), unmapped |-> m.unmapped \/ m.d.tgt[n[1]].refcount <= 1]
      m == FoldLeft(Out, [d |-> d, unmapped |-> FALSE], Images[i].vars \o Images[i].links)
  IN  IF node = None \/ m.unmapped THEN m.d ELSE [m.d EXCEPT !.tgt[node[1]] = Freed]

-----------------------------------------------------------------------------

Init == /\ program \in Programs
        /\ step = [t \in Threads |-> 1]
        /\ item = [t \in Threads |-> 1]
        /\ pc = [t \in Threads |-> "run"]
        /\ state = "uninitialized"
        /\ device = [map |-> {}, tgt |-> [k \in Tgts |-> Freed], memory |-> {}, environ |-> <<>>]
        /\ images = program.images
        /\ target_data = [t \in Threads |-> <<>>]
        /\ entered = [a \in Addrs |-> 0]
        /\ process = "runs"

Op(t)      == program.ops[t][step[t]]
At(t, o)   == process = "runs" /\ pc[t] = o
Started(t) == t = program.first \/ step[program.first] > program.alone
Calls(t, o) == /\ process = "runs" /\ Started(t)
               /\ step[t] <= Len(program.ops[t]) /\ Op(t).op \in o
Goto(t, place) == pc' = [pc EXCEPT ![t] = place]
Return(t)  == Goto(t, "run") /\ step' = [step EXCEPT ![t] = @ + 1]
Push(t, k) == target_data' = [target_data EXCEPT ![t] = <<k>> \o @]

(* gomp_target_data_fallback: an empty tgt, if there are any others.       *)
Fallback(t) ==
  /\ IF Op(t).op = "data" /\ target_data[t] # <<>>
     THEN LET k == NewTgt(device) IN
          /\ device' = [device EXCEPT !.tgt[k] = [Freed EXCEPT !.live = TRUE, !.refcount = 1]]
          /\ Push(t, k)
     ELSE UNCHANGED <<device, target_data>>
  /\ Return(t)

(* resolve_device; the first call for a device makes gomp_init_device load *)
(* the images registered so far, without register_lock.                    *)
Resolve(t) ==
  /\ At(t, "run")
  /\ Calls(t, {"data", "enter", "exit", "update", "associate", "disassociate"})
  /\ IF Op(t).host \/ state = "finalized"
     THEN Fallback(t) /\ UNCHANGED state
     ELSE /\ state' = "initialized"
          /\ device' = IF state = "initialized" THEN device ELSE FoldLeft(Load, device, images)
          /\ Goto(t, "resolved")
          /\ UNCHANGED <<step, target_data>>
  /\ UNCHANGED <<program, item, images, entered, process>>

(* GOMP_target_data behind resolve_device.  Without a device, as when it   *)
(* has just been finalized, there is no tgt to push: a null dereference.   *)
TargetData(t) ==
  /\ At(t, "resolved") /\ Calls(t, {"data"})
  /\ LET m == MapVars(device, Op(t).items, 1) IN
     IF state = "finalized"
     THEN process' = "crashed" /\ UNCHANGED <<device, target_data, step, pc>>
     ELSE /\ process' = IF m.ok THEN process ELSE "aborted"
          /\ Push(t, NewTgt(device))
          /\ device' = m.d
          /\ Return(t)
  /\ UNCHANGED <<program, item, state, images, entered>>

(* GOMP_target_end_data *)
TargetEndData(t) ==
  /\ At(t, "run") /\ Calls(t, {"end"})
  /\ IF target_data[t] = <<>> THEN UNCHANGED <<device, target_data>>
     ELSE /\ device' = UnmapVars(device, Head(target_data[t]))
          /\ target_data' = [target_data EXCEPT ![t] = Tail(@)]
  /\ Return(t)
  /\ UNCHANGED <<program, item, state, images, entered, process>>

(* GOMP_target_enter_exit_data, entering: one gomp_map_vars for each item. *)
EnterData(t) ==
  /\ At(t, "resolved") /\ Calls(t, {"enter"})
  /\ LET it == Op(t).items[item[t]]
         m  == IF state = "finalized" THEN [d |-> device, list |-> <<>>, ok |-> TRUE]
               ELSE MapVars(device, <<it>>, 0)
         counted == {i \in DOMAIN m.list :
                       m.list[i].key # None /\ KeyOf(m.d, m.list[i].key).refs # REFCOUNT_INFINITY} IN
     /\ process' = IF m.ok THEN process ELSE "aborted"
     /\ device' = m.d
     /\ entered' = [a \in Addrs |->
                      entered[a] + Cardinality({i \in counted : m.list[i].r.lo = a})]
  /\ IF item[t] < Len(Op(t).items)
     THEN item' = [item EXCEPT ![t] = @ + 1] /\ UNCHANGED <<pc, step>>
     ELSE item' = [item EXCEPT ![t] = 1] /\ Return(t)
  /\ UNCHANGED <<program, state, images, target_data>>

(* ... and exiting: gomp_exit_data, all items in one step.                 *)
ExitData(t) ==
  /\ At(t, "resolved") /\ Calls(t, {"exit"})
  /\ LET Exit(m, it) ==
           LET q == IF it.zero THEN Lookup0Len(m.d, it.r) ELSE Lookup(m.d, it.r)
               k == KeyOf(m.d, q) IN
           IF q = None \/ k.refs = REFCOUNT_INFINITY THEN m
           ELSE [d |-> ExitItem(m.d, it),
                 entered |-> IF it.delete
                             THEN [a \in Addrs |-> IF a \in k.lo .. k.hi - 1 THEN 0 ELSE m.entered[a]]
                             ELSE [m.entered EXCEPT ![it.r.lo] = @ - 1]]
         m == FoldLeft(Exit, [d |-> device, entered |-> entered], Op(t).items) IN
     IF state = "finalized" THEN UNCHANGED <<device, entered>>
     ELSE device' = m.d /\ entered' = m.entered
  /\ Return(t)
  /\ UNCHANGED <<program, item, state, images, target_data, process>>

(* gomp_update: the item may be absent, but not in part.                   *)
Update(t) ==
  /\ At(t, "resolved") /\ Calls(t, {"update"})
  /\ LET part == {it \in ToSet(Op(t).items) :
                    LET q == Lookup(device, it.r) IN q # None /\ ~Within(it.r, KeyOf(device, q))} IN
     process' = IF state # "finalized" /\ part # {} THEN "aborted" ELSE process
  /\ Return(t)
  /\ UNCHANGED <<program, item, state, device, images, target_data, entered>>

(* omp_target_associate_ptr: a tgt of its own with one key that stays.     *)
Associate(t) ==
  /\ At(t, "resolved") /\ Calls(t, {"associate"})
  /\ LET r == Op(t).r
         k == NewTgt(device)
         key == [lo |-> r.lo, hi |-> r.hi, refs |-> REFCOUNT_INFINITY, off |-> 0, link |-> None] IN
     device' = IF Lookup(device, r) # None THEN device
               ELSE [device EXCEPT !.map = @ \cup {<<k, 1>>},
                                   !.tgt[k] = [Freed EXCEPT !.live = TRUE, !.refcount = 1,
                                                            !.array = <<key>>]]
  /\ Return(t)
  /\ UNCHANGED <<program, item, state, images, target_data, entered, process>>

(* omp_target_disassociate_ptr, for what omp_target_associate_ptr has made *)
(* only.                                                                   *)
Disassociate(t) ==
  /\ At(t, "resolved") /\ Calls(t, {"disassociate"})
  /\ LET at == Op(t).r.lo
         q  == IF Lookup0Len(device, Bytes(at, at)) # None THEN Lookup0Len(device, Bytes(at, at))
               ELSE Lookup(device, Bytes(at - 1, at)) IN
     device' = IF q # None /\ KeyOf(device, q).lo = at /\ KeyOf(device, q).refs = REFCOUNT_INFINITY
                  /\ device.tgt[q[1]].refcount = 1 /\ device.tgt[q[1]].list = <<>>
               THEN [device EXCEPT !.map = @ \ {q}, !.tgt[q[1]] = Freed]
               ELSE device
  /\ Return(t)
  /\ UNCHANGED <<program, item, state, images, target_data, entered, process>>

-----------------------------------------------------------------------------
(* GOMP_offload_register_ver and GOMP_offload_unregister_ver, under        *)
(* register_lock: first the devices, then the list of images.              *)

RegisterLockFree == \A t \in Threads : pc[t] \notin {"append", "delist"}

Register(t) ==
  /\ At(t, "run") /\ Calls(t, {"register"}) /\ RegisterLockFree
  /\ device' = IF state = "initialized" THEN Load(device, Op(t).image) ELSE device
  /\ Goto(t, "append")
  /\ UNCHANGED <<program, step, item, state, images, target_data, entered, process>>

RegisterAppend(t) ==
  /\ At(t, "append")
  /\ images' = Append(images, Op(t).image)
  /\ Return(t)
  /\ UNCHANGED <<program, item, state, device, target_data, entered, process>>

Unregister(t) ==
  /\ At(t, "run") /\ Calls(t, {"unregister"}) /\ RegisterLockFree
  /\ device' = IF state = "initialized" THEN Unload(device, Op(t).image) ELSE device
  /\ Goto(t, "delist")
  /\ UNCHANGED <<program, step, item, state, images, target_data, entered, process>>

(* The last image takes the place of the one that goes.                    *)
UnregisterDelist(t) ==
  /\ At(t, "delist")
  /\ LET i == CHOOSE j \in DOMAIN images : images[j] = Op(t).image IN
     images' = Front([images EXCEPT ![i] = Last(images)])
  /\ Return(t)
  /\ UNCHANGED <<program, item, state, device, target_data, entered, process>>

(* gomp_target_fini, when the program exits. *)
Fini(t) ==
  /\ At(t, "run") /\ Calls(t, {"fini"})
  /\ state' = IF state = "initialized" THEN "finalized" ELSE state
  /\ Return(t)
  /\ UNCHANGED <<program, item, device, images, target_data, entered, process>>

-----------------------------------------------------------------------------

Step(t) == \/ Resolve(t) \/ TargetData(t) \/ TargetEndData(t) \/ EnterData(t) \/ ExitData(t)
           \/ Update(t) \/ Associate(t) \/ Disassociate(t) \/ Fini(t)
           \/ Register(t) \/ RegisterAppend(t) \/ Unregister(t) \/ UnregisterDelist(t)

Finished == process # "runs" \/ \A t \in Threads : step[t] > Len(program.ops[t])

Next == \/ \E t \in Threads : Step(t)
        \/ Finished /\ UNCHANGED vars

Spec == Init /\ [][Next]_vars

-----------------------------------------------------------------------------

(* Its properties, for the set active of the tgts that somebody holds: of  *)
(* open data regions and of data that OpenACC has created.                 *)

InUse == process = "runs" /\ state # "finalized"

(* What active tgts and the data entered hold of key q.                    *)
HeldRefs(q, active) ==
  MapThenSumSet(LAMBDA k : Cardinality({i \in DOMAIN device.tgt[k].list :
                                          device.tgt[k].list[i].key = q}), active)
EnteredRefs(q) ==
  MapThenSumSet(LAMBDA a : entered[a], KeyOf(device, q).lo .. KeyOf(device, q).hi - 1)

(* A key counts the list items of active tgts and the data entered that    *)
(* refer to it, and a tgt its keys in the map and its own holder.          *)
RefsAgree(active) ==
  /\ \A q \in device.map : KeyOf(device, q).refs \notin {REFCOUNT_INFINITY, REFCOUNT_LINK}
       => KeyOf(device, q).refs = HeldRefs(q, active) + EnteredRefs(q)
  /\ \A k \in Tgts : device.tgt[k].live /\ device.tgt[k].refcount # REFCOUNT_INFINITY
       => device.tgt[k].refcount = Cardinality({q \in device.map : q[1] = k})
                                   + (IF k \in active THEN 1 ELSE 0)

(* What an active tgt has mapped is in the map until its end, unless data  *)
(* of its own tgt is deleted, and the device memory and the keys are there.*)
ItemsMapped(active) ==
  /\ \A q \in device.map : device.tgt[q[1]].live /\ q[2] \in DOMAIN device.tgt[q[1]].array
  /\ \A k \in active : \A i \in DOMAIN device.tgt[k].list :
       LET e == device.tgt[k].list[i] IN
       e.key # None =>
         /\ device.tgt[e.key[1]].live
         /\ Within(e.r, KeyOf(device, e.key))
         /\ e.key \in device.map \/ e.key[1] = k

(* The keys of the map cover disjoint host ranges, and those of one block  *)
(* have disjoint places within the size the first pass has added up.       *)
BlocksFit ==
  \A q \in device.map :
    LET x == KeyOf(device, q)
        b == device.tgt[q[1]].block IN
    /\ b # NoBlock => /\ b \in device.memory
                      /\ x.off >= 0 /\ x.off + x.hi - x.lo <= device.tgt[q[1]].size
    /\ \A r \in device.map \ {q} :
         LET y == KeyOf(device, r) IN
         /\ ~Overlap(x, y)
         /\ b # NoBlock /\ device.tgt[r[1]].block = b
              => x.off + x.hi - x.lo <= y.off \/ y.off + y.hi - y.lo <= x.off

(* A link variable of a loaded image is in the map, itself or by the key   *)
(* that stands for it.                                                     *)
LinksKept ==
  \A k \in Tgts : device.tgt[k].refcount = REFCOUNT_INFINITY =>
    \A n \in DOMAIN device.tgt[k].array : device.tgt[k].array[n].refs = REFCOUNT_LINK =>
      (<<k, n>> \in device.map) # (\E q \in device.map : KeyOf(device, q).link = <<k, n>>)
=============================================================================
