-------------------------------- MODULE AccMap --------------------------------
(***************************************************************************)
(* OpenACC on the memory map of TargetMap: how a thread comes to a device, *)
(* explicitly or by its first OpenACC call, and how the device is shut     *)
(* down (oacc-init.c); the runtime routines that create, map, delete and   *)
(* look up data (oacc-mem.c), and data regions (oacc-parallel.c).  There   *)
(* is one device, which does not share the memory of the host.             *)
(*                                                                         *)
(* The routines look something up under devicep->lock, let go of it and    *)
(* then act on what they have found: each part is a step here.             *)
(***************************************************************************)
EXTENDS TargetMap

VARIABLES
  acc,             \* acc[t]: t's goacc_thread: [listed |-> in goacc_threads,
                   \*         set |-> its fields are initialised, dev |-> it has one]
  cached_base_dev, \* whether it is set
  mapped_data,     \* mapped_data[t]: the chain of t's data regions
  tgt,             \* tgt[t]: the local variable of that name, 0 is NULL
  ptr              \* ptr[t]: the device pointer t's last call has returned

accVars == <<acc, cached_base_dev, mapped_data, tgt, ptr>>
allVars == <<vars, accVars>>
rest    == <<program, item, images, target_data, entered>>   \* not changed here

NoTgt == 0

AccInit ==
  /\ Init
  /\ cached_base_dev = FALSE
  /\ acc = [t \in Threads |-> [listed |-> FALSE, set |-> FALSE, dev |-> FALSE]]
  /\ mapped_data = [t \in Threads |-> <<>>]
  /\ tgt = [t \in Threads |-> NoTgt]
  /\ ptr = [t \in Threads |-> NoBlock]

Abort == process' = "aborted"
Crash == process' = "crashed"

-----------------------------------------------------------------------------
(* oacc-init.c *)

(* Held by acc_init through one step and by acc_shutdown through three.    *)
AccDeviceLockFree == \A t \in Threads : pc[t] \notin {"shutdown_threads", "shutdown_devices"}

Lazy   == {"acc_create", "acc_map_data", "acc_malloc", "acc_data", "acc_update", "acc_hostptr"}
Direct == {"acc_delete", "acc_unmap_data", "acc_free"}

(* goacc_lazy_initialize: the first thread initialises the device, others  *)
(* only attach to it.  The look at cached_base_dev takes no lock.          *)
LazyInitialize(t) ==
  /\ At(t, "run") /\ Calls(t, Lazy)
  /\ Goto(t, IF acc[t].dev THEN "acc" ELSE IF cached_base_dev THEN "attach" ELSE "init")
  /\ UNCHANGED <<rest, step, state, device, process, accVars>>

(* The routines that suppose the thread to be attached.                    *)
CallDirect(t) ==
  /\ At(t, "run") /\ Calls(t, Direct)
  /\ IF acc[t].dev THEN Goto(t, "acc") /\ UNCHANGED process ELSE Crash /\ UNCHANGED pc
  /\ UNCHANGED <<rest, step, state, device, accVars>>

CallInit(t) ==
  /\ At(t, "run") /\ Calls(t, {"acc_init"})
  /\ Goto(t, "init")
  /\ UNCHANGED <<rest, step, state, device, process, accVars>>

(* acc_init under acc_device_lock; acc_init_1 *)
InitDevice(t) ==
  /\ At(t, "init") /\ AccDeviceLockFree
  /\ IF state = "initialized"
     THEN Abort /\ UNCHANGED <<state, device, cached_base_dev, pc>>
     ELSE /\ state' = "initialized"
          /\ device' = FoldLeft(Load, device, images)
          /\ cached_base_dev' = TRUE
          /\ Goto(t, "attach")
          /\ UNCHANGED process
  /\ UNCHANGED <<rest, step, acc, mapped_data, tgt, ptr>>

(* goacc_attach_host_thread_to_device; goacc_new_thread puts a block on    *)
(* the list whose fields are not set yet.                                  *)
NewThread(t) ==
  /\ At(t, "attach") /\ ~acc[t].listed
  /\ acc' = [acc EXCEPT ![t].listed = TRUE]
  /\ UNCHANGED <<rest, step, pc, state, device, process, cached_base_dev, mapped_data, tgt, ptr>>

Attach(t) ==
  /\ At(t, "attach") /\ acc[t].listed
  /\ acc' = [acc EXCEPT ![t].set = TRUE, ![t].dev = TRUE]
  /\ mapped_data' = [mapped_data EXCEPT ![t] = <<>>]
  /\ IF Op(t).op = "acc_init" THEN Return(t) ELSE Goto(t, "acc") /\ UNCHANGED step
  /\ UNCHANGED <<rest, state, device, process, cached_base_dev, tgt, ptr>>

(* acc_shutdown_1: the images are unloaded ...                             *)
ShutdownImages(t) ==
  /\ At(t, "run") /\ Calls(t, {"acc_shutdown"}) /\ AccDeviceLockFree
  /\ device' = IF state = "initialized" THEN FoldLeft(Unload, device, images) ELSE device
  /\ Goto(t, "shutdown_threads")
  /\ UNCHANGED <<rest, step, state, process, accVars>>

(* ... every attached thread loses its device, and its map is emptied by   *)
(* gomp_free_memmap, which frees a tgt for each of its keys ...            *)
ShutdownThreads(t) ==
  /\ At(t, "shutdown_threads")
  /\ LET listed == {u \in Threads : acc[u].listed}
         tgts   == {q[1] : q \in device.map} IN
     IF \E u \in listed : ~acc[u].set THEN Crash /\ UNCHANGED <<device, acc, pc>>
     ELSE IF \E u \in listed : mapped_data[u] # <<>> THEN Abort /\ UNCHANGED <<device, acc, pc>>
     ELSE IF (\A u \in listed : ~acc[u].dev) \/ Cardinality(tgts) = Cardinality(device.map)
     THEN /\ device' = IF \A u \in listed : ~acc[u].dev THEN device
                       ELSE FoldSet(LAMBDA k, d : FreeTgt(d, k), [device EXCEPT !.map = {}], tgts)
          /\ acc' = [u \in Threads |-> [acc[u] EXCEPT !.dev = FALSE]]
          /\ Goto(t, "shutdown_devices")
          /\ UNCHANGED process
     ELSE Crash /\ UNCHANGED <<device, acc, pc>>
  /\ UNCHANGED <<rest, step, state, cached_base_dev, mapped_data, tgt, ptr>>

(* ... and the device is closed.  cached_base_dev and data_environ stay.   *)
ShutdownDevice(t) ==
  /\ At(t, "shutdown_devices")
  /\ IF state = "initialized"
     THEN state' = "uninitialized" /\ Return(t) /\ UNCHANGED process
     ELSE Abort /\ UNCHANGED <<state, pc, step>>
  /\ UNCHANGED <<rest, device, accVars>>

(* goacc_destroy_thread, when the thread exits.                            *)
DestroyThread(t) ==
  /\ At(t, "run") /\ Calls(t, {"acc_exit"})
  /\ acc' = [acc EXCEPT ![t] = [listed |-> FALSE, set |-> FALSE, dev |-> FALSE]]
  /\ process' = IF mapped_data[t] = <<>> THEN process ELSE "aborted"
  /\ Return(t)
  /\ UNCHANGED <<rest, state, device, cached_base_dev, mapped_data, tgt, ptr>>

-----------------------------------------------------------------------------
(* oacc-mem.c.  Every step of a routine but the last goes on at next.      *)

ItemOf(t) == [kind |-> "map", r |-> Op(t).r]

(* lookup_host                                                             *)
Found(t)  == Lookup(device, Op(t).r)
StartAt(r) == Bytes(r.lo, r.lo + 1)

(* lookup_dev goes through data_environ from its head.                     *)
Reached(b) == {i \in DOMAIN device.environ :
                 \A j \in 1 .. i - 1 : device.environ[j] = Dangling
                                       \/ device.tgt[device.environ[j]].block # b
                                       \/ ~device.tgt[device.environ[j]].own}
MeetsDangling(b) == \E i \in Reached(b) : device.environ[i] = Dangling
DevKey(b) == LET S == {i \in Reached(b) : device.environ[i] # Dangling
                                         /\ device.tgt[device.environ[i]].block = b
                                         /\ device.tgt[device.environ[i]].own}
             IN  IF S = {} THEN None ELSE <<device.environ[CHOOSE i \in S : TRUE], 1>>

(* gomp_map_vars for one item; without a device there is no tgt.           *)
MapOne(t, next) ==
  LET m == MapVars(device, <<ItemOf(t)>>, 1) IN
  IF state = "finalized" THEN Crash /\ UNCHANGED <<device, tgt, pc>>
  ELSE /\ process' = IF m.ok THEN process ELSE "aborted"
       /\ device' = m.d
       /\ tgt' = [tgt EXCEPT ![t] = NewTgt(device)]
       /\ Goto(t, next)

(* present_create_copy, up to the unlock: what is present is only reported,*)
(* if it may be.                                                           *)
CreateLookup(t) ==
  /\ At(t, "acc") /\ Calls(t, {"acc_create"})
  /\ LET n == Found(t) IN
     IF n = None
     THEN Goto(t, "create") /\ UNCHANGED <<step, process, ptr>>
     ELSE IF Op(t).present /\ Op(t).r.hi <= KeyOf(device, n).hi
     THEN ptr' = [ptr EXCEPT ![t] = device.tgt[n[1]].block] /\ Return(t) /\ UNCHANGED process
     ELSE Abort /\ UNCHANGED <<step, pc, ptr>>
  /\ UNCHANGED <<rest, state, device, acc, cached_base_dev, mapped_data, tgt>>

CreateMap(t) ==
  /\ At(t, "create")
  /\ MapOne(t, "chain")
  /\ UNCHANGED <<rest, step, state, acc, cached_base_dev, mapped_data, ptr>>

(* The end of present_create_copy and of acc_map_data.                     *)
Chain(t) ==
  /\ At(t, "chain")
  /\ device' = [device EXCEPT !.environ = <<tgt[t]>> \o @]
  /\ ptr' = IF Op(t).op = "acc_create" THEN [ptr EXCEPT ![t] = device.tgt[tgt[t]].block] ELSE ptr
  /\ tgt' = [tgt EXCEPT ![t] = NoTgt]
  /\ Return(t)
  /\ UNCHANGED <<rest, state, process, acc, cached_base_dev, mapped_data>>

(* delete_copyout, up to the unlock: it must be a whole mapping.           *)
DeleteLookup(t) ==
  /\ At(t, "acc") /\ Calls(t, {"acc_delete"})
  /\ LET n == Found(t)
         k == KeyOf(device, n) IN
     IF n # None /\ k.lo = Op(t).r.lo /\ k.hi = Op(t).r.hi
     THEN /\ ptr' = [ptr EXCEPT ![t] = device.tgt[n[1]].block]
          /\ Goto(t, "unmap")
          /\ UNCHANGED process
     ELSE Abort /\ UNCHANGED <<pc, ptr>>
  /\ UNCHANGED <<rest, step, state, device, acc, cached_base_dev, mapped_data, tgt>>

CallUnmap(t) ==
  /\ At(t, "acc") /\ Calls(t, {"acc_unmap_data"})
  /\ Goto(t, "unmap")
  /\ UNCHANGED <<rest, step, state, device, process, accVars>>

(* mutant: the descriptor stays on the chain *)
Unmap_KeepsChain(t) ==
  /\ At(t, "unmap")
  /\ LET n == Lookup(device, StartAt(Op(t).r)) IN
     IF n = None \/ KeyOf(device, n).lo # Op(t).r.lo THEN Abort /\ UNCHANGED <<device, tgt, pc>>
     ELSE /\ device' = [device EXCEPT !.tgt[n[1]].own = FALSE]
          /\ tgt' = [tgt EXCEPT ![t] = n[1]]
          /\ Goto(t, "unmap_vars") /\ UNCHANGED process
  /\ UNCHANGED <<rest, step, state, acc, cached_base_dev, mapped_data, ptr>>

(* acc_unmap_data, up to the unlock: the last reference but the map's      *)
(* takes the descriptor off the chain, and leaves the memory alone.        *)
Unmap(t) ==
  /\ At(t, "unmap")
  /\ LET n == Lookup(device, StartAt(Op(t).r))
         k == n[1]
         places == {i \in DOMAIN device.environ : device.environ[i] = k}
         i == CHOOSE j \in places : \A l \in places : j <= l IN
     IF n = None \/ KeyOf(device, n).lo # Op(t).r.lo THEN Abort /\ UNCHANGED <<device, tgt, pc>>
     ELSE IF device.tgt[k].refcount # 2
     THEN tgt' = [tgt EXCEPT ![t] = k] /\ Goto(t, "unmap_vars") /\ UNCHANGED <<device, process>>
     ELSE IF places # {} /\ \A j \in 1 .. i : device.environ[j] # Dangling
     THEN /\ device' = [device EXCEPT !.tgt[k].own = FALSE, !.environ = RemoveAt(@, i)]
          /\ tgt' = [tgt EXCEPT ![t] = k]
          /\ Goto(t, "unmap_vars") /\ UNCHANGED process
     ELSE Crash /\ UNCHANGED <<device, tgt, pc>>
  /\ UNCHANGED <<rest, step, state, acc, cached_base_dev, mapped_data, ptr>>

(* gomp_unmap_vars at its end; acc_delete and acc_free then free memory.   *)
UnmapDescriptor(t) ==
  /\ At(t, "unmap_vars")
  /\ device' = UnmapVars(device, tgt[t])
  /\ tgt' = [tgt EXCEPT ![t] = NoTgt]
  /\ IF Op(t).op = "acc_unmap_data" THEN Return(t) ELSE Goto(t, "free") /\ UNCHANGED step
  /\ UNCHANGED <<rest, state, process, acc, cached_base_dev, mapped_data, ptr>>

(* free_func, which takes no lock of the library.                          *)
FreeMemory(t) ==
  /\ At(t, "free")
  /\ device' = [device EXCEPT !.memory = @ \ {ptr[t]}]
  /\ ptr' = [ptr EXCEPT ![t] = NoBlock]
  /\ Return(t)
  /\ UNCHANGED <<rest, state, process, acc, cached_base_dev, mapped_data, tgt>>

Malloc(t) ==
  /\ At(t, "acc") /\ Calls(t, {"acc_malloc"})
  /\ device' = [device EXCEPT !.memory = @ \cup {NewBlock(device)}]
  /\ ptr' = [ptr EXCEPT ![t] = NewBlock(device)]
  /\ Return(t)
  /\ UNCHANGED <<rest, state, process, acc, cached_base_dev, mapped_data, tgt>>

(* acc_free: memory that is mapped is unmapped first.  The op names the    *)
(* host range, which the code finds by the device's.                       *)
Free(t) ==
  /\ At(t, "acc") /\ Calls(t, {"acc_free"})
  /\ IF ptr[t] = NoBlock THEN Return(t) /\ UNCHANGED process
     ELSE IF MeetsDangling(ptr[t]) THEN Crash /\ UNCHANGED <<step, pc>>
     ELSE Goto(t, IF DevKey(ptr[t]) # None THEN "unmap" ELSE "free") /\ UNCHANGED <<step, process>>
  /\ UNCHANGED <<rest, state, device, accVars>>

(* acc_map_data with a pointer of the program: neither side may be mapped. *)
MapDataLookup(t) ==
  /\ At(t, "acc") /\ Calls(t, {"acc_map_data"})
  /\ IF Found(t) # None THEN Abort /\ UNCHANGED pc
     ELSE IF MeetsDangling(ptr[t]) THEN Crash /\ UNCHANGED pc
     ELSE IF DevKey(ptr[t]) # None THEN Abort /\ UNCHANGED pc
     ELSE Goto(t, "map_data") /\ UNCHANGED process
  /\ UNCHANGED <<rest, step, state, device, accVars>>

MapData(t) ==
  /\ At(t, "map_data")
  /\ LET m == MapVars(device, <<ItemOf(t)>>, 1)
         k == NewTgt(device) IN
     IF state = "finalized" THEN Crash /\ UNCHANGED <<device, tgt, pc>>
     ELSE /\ process' = IF m.ok THEN process ELSE "aborted"
          /\ device' = [m.d EXCEPT !.tgt[k].block = ptr[t], !.tgt[k].own = TRUE,
                                   !.tgt[k].size = Op(t).r.hi - Op(t).r.lo,
                                   !.memory = device.memory]
          /\ tgt' = [tgt EXCEPT ![t] = k]
          /\ Goto(t, "chain")
  /\ UNCHANGED <<rest, step, state, acc, cached_base_dev, mapped_data, ptr>>

(* update_dev_host: data must be present.                                  *)
AccUpdate(t) ==
  /\ At(t, "acc") /\ Calls(t, {"acc_update"})
  /\ process' = IF Found(t) = None THEN "aborted" ELSE process
  /\ Return(t)
  /\ UNCHANGED <<rest, state, device, accVars>>

HostPtr(t) ==
  /\ At(t, "acc") /\ Calls(t, {"acc_hostptr"})
  /\ process' = IF MeetsDangling(ptr[t]) THEN "crashed" ELSE process
  /\ Return(t)
  /\ UNCHANGED <<rest, state, device, accVars>>

-----------------------------------------------------------------------------
(* oacc-parallel.c; a parallel construct is a data region for its kernel.  *)
(* On the host a region has an empty tgt.                                  *)

DataStart(t) ==
  /\ At(t, "acc") /\ Calls(t, {"acc_data"})
  /\ LET m == MapVars(device, IF Op(t).host THEN <<>> ELSE Op(t).items, 1) IN
     IF state = "finalized" /\ ~Op(t).host THEN Crash /\ UNCHANGED <<device, mapped_data, step, pc>>
     ELSE /\ process' = IF m.ok THEN process ELSE "aborted"
          /\ device' = m.d
          /\ mapped_data' = [mapped_data EXCEPT ![t] = <<NewTgt(device)>> \o @]
          /\ Return(t)
  /\ UNCHANGED <<rest, state, acc, cached_base_dev, tgt, ptr>>

DataEnd(t) ==
  /\ At(t, "run") /\ Calls(t, {"acc_data_end"})
  /\ device' = UnmapVars(device, Head(mapped_data[t]))
  /\ mapped_data' = [mapped_data EXCEPT ![t] = Tail(@)]
  /\ Return(t)
  /\ UNCHANGED <<rest, state, process, acc, cached_base_dev, tgt, ptr>>

-----------------------------------------------------------------------------

AccStep(t) ==
  \/ LazyInitialize(t) \/ CallDirect(t) \/ CallInit(t) \/ InitDevice(t) \/ NewThread(t) \/ Attach(t)
  \/ ShutdownImages(t) \/ ShutdownThreads(t) \/ ShutdownDevice(t) \/ DestroyThread(t)
  \/ CreateLookup(t) \/ CreateMap(t) \/ Chain(t) \/ DeleteLookup(t) \/ CallUnmap(t) \/ Unmap(t)
  \/ UnmapDescriptor(t) \/ FreeMemory(t) \/ Malloc(t) \/ Free(t) \/ MapDataLookup(t) \/ MapData(t)
  \/ AccUpdate(t) \/ HostPtr(t) \/ DataStart(t) \/ DataEnd(t)

AccNext == \/ \E t \in Threads : AccStep(t)
           \/ (\E t \in Threads : Step(t)) /\ UNCHANGED accVars
           \/ Finished /\ UNCHANGED allVars

AccSpec == AccInit /\ [][AccNext]_allVars

-----------------------------------------------------------------------------

(* The tgts somebody holds: open data regions of OpenMP and OpenACC, the   *)
(* data environment, and a routine between its steps.                      *)
Active == UNION {ToSet(target_data[t]) \cup ToSet(mapped_data[t]) \cup ({tgt[t]} \ {NoTgt}) :
                   t \in Threads} \cup (ToSet(device.environ) \ {Dangling})

(* Whatever regions share a mapping and in whatever order they let it go:  *)
(* a key counts just the list items of open regions, the data entered and  *)
(* the data created by OpenACC that refer to it, and a tgt its keys in the *)
(* map and its own holder, so that nothing is freed early or left behind.  *)
RefsCounted == InUse => RefsAgree(Active)

(* While a data region is open its items have their place on the device,   *)
(* whatever other threads map, unmap, create and delete; data_environ      *)
(* holds no freed descriptor; and a program that maps no object in parts   *)
(* is not refused, nor is a null or freed pointer followed in it, unless   *)
(* it exits under a thread that is at work.                                *)
RegionsStayMapped ==
  /\ InUse => /\ ItemsMapped(Active) /\ BlocksFit /\ LinksKept
              /\ \A i \in DOMAIN device.environ : device.environ[i] # Dangling
  /\ process = "aborted" => program.wrong
  /\ process = "crashed" => program.wrong \/ state = "finalized"

(* The comment before goacc_lazy_initialize: called from any function that *)
(* may need to initialize the runtime, globally or from a new host thread, *)
(* it returns with a valid and populated thread block, and so the device   *)
(* is initialised and the program has not been stopped.                    *)
LazilyInitialized ==
  /\ \A t \in Threads : pc[t] = "acc" => acc[t].dev /\ state = "initialized"
  /\ process # "aborted"
=============================================================================
