--------------------------------- MODULE Driver ---------------------------------
(***************************************************************************)
(* vdpau_driver.c, vdpau_driver_template.h, vdpau_gate.c and the configs   *)
(* of vdpau_video.c: the life of one driver instance.  vaInitialize gets   *)
(* an X connection, a VDPAU device, its functions, nine object heaps and   *)
(* the table of GLX functions; any of it may fail, and what is there by    *)
(* then goes through vaTerminate, as it does when the application is done. *)
(*                                                                         *)
(* Abstractions: objects of a heap are counted; held counts what they own  *)
(* outside of the heap, in memory or in VDPAU.  Version, vendor string and *)
(* the assignments of the function tables are left out.                    *)
(***************************************************************************)
EXTENDS Naturals, Sequences, FiniteSets, SequencesExt

CONSTANTS
  Procs,        (* the VDPAU functions, in the order vdpau_gate_init asks  *)
  Used,         (* the heaps the application makes objects of              *)
  ObjectsPerHeap,   (* objects of one heap                                     *)
  Attribs,      (* config attributes, [type, value]                        *)
  MaxList,      (* attributes passed to one vaCreateConfig                 *)
  VDPAU_MAX_CONFIG_ATTRIBUTES,          (* 10 in the code                  *)
  Default,      (* the attribute each config begins with                   *)
  Failing,      (* what may fail, and the functions VDPAU may not have     *)
  NONE

(* The order of CREATE_HEAP and that of DESTROY_HEAP.                      *)
Created == <<"config", "context", "surface", "buffer", "output", "image",
             "subpicture", "mixer", "glx_surface">>
Destroyed == <<"buffer", "image", "subpicture", "output", "surface", "context",
               "config", "mixer", "glx_surface">>
Heaps == Range(Created)
ConfigIDs == 1..ObjectsPerHeap

DriverConstants ==
  /\ Procs \in Seq(STRING) /\ Procs # <<>> /\ Procs[1] = "device_destroy"
  /\ {"video_mixer_destroy", "get_api_version", "get_information_string"} \subseteq Range(Procs)
  /\ Used \subseteq Heaps \ {"config"} /\ ObjectsPerHeap \in Nat /\ MaxList \in Nat
  /\ VDPAU_MAX_CONFIG_ATTRIBUTES \in Nat \ {0}

ASSUME DriverAssumption == DriverConstants

VARIABLES
  stage,        (* how far vaInitialize or vaTerminate is                  *)
  turn,         (* the function or heap it is at                           *)
  vdp_dpy,      (* the X connection: "none", its "own", or the             *)
                (* application's, "shared" (x_fallback)                    *)
  vdp_device,   (* "zero" by calloc, "invalid", or "live"                  *)
  loaded,       (* entries of vdp_vtable that are set                      *)
  heap,         (* objects allocated from each heap, NONE if not set up    *)
  owned,        (* what objects of each heap own outside of it             *)
  config,       (* attributes of each config, and how many were passed     *)
  shared_open,  (* external: the application's X connection is open        *)
  lost,         (* history: what nothing refers to any more                *)
  faulted       (* a call through NULL, to a dead device, or an assertion  *)

setupVars == <<vdp_dpy, vdp_device, loaded>>
objectVars == <<heap, owned, config>>
driverVars == <<stage, turn, setupVars, objectVars, shared_open, lost, faulted>>

Outcomes(what) == IF what \in Failing THEN BOOLEAN ELSE {TRUE}
In(p) == stage = p /\ ~faulted
GoTo(p, k) == stage' = p /\ turn' = k
Fails == GoTo("drain", 1)     (* vdpau_Initialize calls vdpau_Terminate    *)

DriverInit ==
  /\ stage = "off" /\ turn = 0
  /\ vdp_dpy = "none" /\ vdp_device = "zero" /\ loaded = 0
  /\ heap = [h \in Heaps |-> NONE] /\ owned = [h \in Heaps |-> 0]
  /\ config = [c \in ConfigIDs |-> NONE] /\ shared_open = TRUE
  /\ lost = {} /\ faulted = FALSE

(* VDPAU_INVOKE: an entry that is not set is an error, not a call.         *)
IsLoadedNot(proc) == TRUE              (* mutant: the entry is not tested  *)
IsLoaded(proc) == proc \in Range(SubSeq(Procs, 1, loaded))
CallFaults(proc) ==
  /\ IsLoaded(proc)
  /\ proc \notin Range(SubSeq(Procs, 1, loaded)) \/ vdp_device # "live" \/ vdp_dpy = "none"
-----------------------------------------------------------------------------
(* vdpau_common_Initialize: a connection of its own, or the application's, *)
(* which vaGetDisplayDRM does not have.                                    *)
BeginInitialize ==
  /\ In("off")
  /\ \E display \in Outcomes("display") :
       IF display THEN GoTo("open", 0) ELSE Fails
  /\ UNCHANGED <<setupVars, objectVars, shared_open, lost, faulted>>

OpenDisplay ==
  /\ In("open")
  /\ \E own \in Outcomes("open") : vdp_dpy' = IF own THEN "own" ELSE "shared"
  /\ GoTo("device", 0)
  /\ UNCHANGED <<vdp_device, loaded, objectVars, shared_open, lost, faulted>>

CreateDevice ==
  /\ In("device")
  /\ \E ok \in Outcomes("device") :
       /\ vdp_device' = IF ok THEN "live" ELSE "invalid"
       /\ IF ok THEN GoTo("gate", 1) ELSE Fails
  /\ UNCHANGED <<vdp_dpy, loaded, objectVars, shared_open, lost, faulted>>

(* vdpau_gate_init: one function after the other.                          *)
GateInit ==
  /\ In("gate")
  /\ \E ok \in Outcomes(Procs[turn]) :
       IF ok THEN /\ loaded' = turn
                  /\ IF turn < Len(Procs)
                     THEN GoTo("gate", turn + 1) ELSE GoTo("version", 0)
             ELSE Fails /\ UNCHANGED loaded
  /\ UNCHANGED <<vdp_dpy, vdp_device, objectVars, shared_open, lost, faulted>>

CheckVersion ==
  /\ In("version")
  /\ \E ok \in Outcomes("version") : IF ok THEN GoTo("heaps", 1) ELSE Fails
  /\ faulted' = (CallFaults("get_api_version") \/ CallFaults("get_information_string"))
  /\ UNCHANGED <<setupVars, objectVars, shared_open, lost>>

CreateHeap ==
  /\ In("heaps")
  /\ \E ok \in Outcomes("heap") :
       IF ok THEN /\ heap' = [heap EXCEPT ![Created[turn]] = 0]
                  /\ IF turn < Len(Created)
                     THEN GoTo("heaps", turn + 1) ELSE GoTo("vtable", 0)
             ELSE Fails /\ UNCHANGED heap
  /\ UNCHANGED <<setupVars, owned, config, shared_open, lost, faulted>>

(* The driver data is freed; what only it referred to is lost.             *)
Unreleased ==
  {h \in Heaps : owned[h] > 0 \/ heap[h] # NONE}
    \cup (IF vdp_dpy = "own" THEN {"display"} ELSE {})
    \cup (IF vdp_device = "live" THEN {"device"} ELSE {})

Forgotten ==
  /\ lost' = lost \cup Unreleased
  /\ vdp_dpy' = "none" /\ vdp_device' = "zero" /\ loaded' = 0
  /\ heap' = [h \in Heaps |-> NONE] /\ owned' = [h \in Heaps |-> 0]
  /\ config' = [c \in ConfigIDs |-> NONE]
  /\ GoTo("off", 0)

(* vdpau_Initialize returns without vdpau_Terminate if there is no memory  *)
(* for the GLX functions: the application has no driver, all is lost.      *)
GetVTableGLX ==
  /\ In("vtable")
  /\ \E ok \in Outcomes("vtable") :
       IF ok THEN GoTo("ready", 0) /\ UNCHANGED <<setupVars, objectVars, lost>>
       ELSE Forgotten
  /\ UNCHANGED <<shared_open, faulted>>
-----------------------------------------------------------------------------
(* The application makes and destroys objects.                             *)
CreateObject(h) ==
  /\ In("ready") /\ heap[h] < ObjectsPerHeap
  /\ heap' = [heap EXCEPT ![h] = @ + 1]
  /\ owned' = [owned EXCEPT ![h] = @ + 1]
  /\ UNCHANGED <<stage, turn, setupVars, config, shared_open, lost, faulted>>

DestroyObject(h) ==
  /\ In("ready") /\ heap[h] > 0
  /\ heap' = [heap EXCEPT ![h] = @ - 1]
  /\ owned' = [owned EXCEPT ![h] = @ - 1]
  /\ UNCHANGED <<stage, turn, setupVars, config, shared_open, lost, faulted>>

(***************************************************************************)
(* vdpau_CreateConfig.  vdpau_update_attribute looks for an attribute of   *)
(* the type with a condition that never holds (i < attrib_count the other  *)
(* way round), so that each attribute is appended, until one has no room.  *)
(***************************************************************************)
HasRoom(q) == Len(q) < VDPAU_MAX_CONFIG_ATTRIBUTES

Updated(q, attrib) == IF HasRoom(q) THEN Append(q, attrib) ELSE q

(* The list of the config after each turn of the loop, and at its end.     *)
Attributes(list) ==
  LET after[n \in 0..Len(list)] ==
        IF n = 0 THEN <<Default>> ELSE Updated(after[n - 1], list[n])
  IN  after[Len(list)]

(* The config of a list that does not fit goes through vdpau_DestroyConfig *)
FailedKept(new) == new                  (* mutant: it stays, unfinished    *)
Failed(new) == NONE

CreateConfig(c, list) ==
  /\ In("ready") /\ config[c] = NONE
  /\ LET new == [attrs |-> Attributes(list), passed |-> list]
     IN config' = [config EXCEPT ![c] =
                     IF Len(new.attrs) = Len(list) + 1 THEN new ELSE Failed(new)]
  /\ UNCHANGED <<stage, turn, setupVars, heap, owned, shared_open, lost, faulted>>

DestroyConfig(c) ==
  /\ In("ready") /\ config[c] # NONE
  /\ config' = [config EXCEPT ![c] = NONE]
  /\ UNCHANGED <<stage, turn, setupVars, heap, owned, shared_open, lost, faulted>>
-----------------------------------------------------------------------------
BeginTerminate ==
  /\ In("ready") /\ GoTo("drain", 1)
  /\ UNCHANGED <<setupVars, objectVars, shared_open, lost, faulted>>

(***************************************************************************)
(* DESTROY_HEAP: all objects of a heap are freed, those of two heaps with  *)
(* what they own.  A heap vdpau_Initialize did not reach is zero and holds *)
(* no object.                                                              *)
(***************************************************************************)
ReleasedNot(h) == owned[h]              (* mutant: object_heap_free for all *)
Released(h) == IF h \in {"buffer", "mixer"} THEN 0 ELSE owned[h]

DestroyHeap ==
  /\ In("drain")
  /\ LET h == Destroyed[turn]
     IN /\ heap' = [heap EXCEPT ![h] = NONE]
        /\ owned' = [owned EXCEPT ![h] = Released(h)]
        /\ config' = IF h = "config" THEN [c \in ConfigIDs |-> NONE] ELSE config
        /\ faulted' = (h = "mixer" /\ heap[h] \notin {NONE, 0} /\ CallFaults("video_mixer_destroy"))
  /\ IF turn < Len(Destroyed) THEN GoTo("drain", turn + 1) ELSE GoTo("destroy_device", 0)
  /\ UNCHANGED <<setupVars, shared_open, lost>>

(* A device VDPAU did not make is not destroyed; one that was never asked  *)
(* for is zero, which only the missing entry of the table keeps from       *)
(* VDPAU.  The handle is forgotten whatever vdpau_device_destroy returns.  *)
DestroyDevice ==
  /\ In("destroy_device")
  /\ vdp_device' = "invalid"
  /\ faulted' = (vdp_device # "invalid" /\ CallFaults("device_destroy"))
  /\ lost' = IF vdp_device = "live" /\ ~IsLoaded("device_destroy")
             THEN lost \cup {"device"} ELSE lost
  /\ GoTo("close", 0)
  /\ UNCHANGED <<vdp_dpy, loaded, objectVars, shared_open>>

Closes(dpy) == dpy = "own"

CloseDisplay ==
  /\ In("close")
  /\ vdp_dpy' = IF Closes(vdp_dpy) THEN "none" ELSE vdp_dpy
  /\ shared_open' = (shared_open /\ ~(Closes(vdp_dpy) /\ vdp_dpy = "shared"))
  /\ GoTo("free", 0)
  /\ UNCHANGED <<vdp_device, loaded, objectVars, lost, faulted>>

FreeDriver ==
  /\ In("free") /\ Forgotten
  /\ UNCHANGED <<shared_open, faulted>>

DriverNext ==
  \/ BeginInitialize \/ OpenDisplay \/ CreateDevice \/ GateInit \/ CheckVersion
  \/ CreateHeap \/ GetVTableGLX
  \/ \E h \in Used : CreateObject(h) \/ DestroyObject(h)
  \/ \E c \in ConfigIDs :
       (\E list \in BoundedSeq(Attribs, MaxList) : CreateConfig(c, list)) \/ DestroyConfig(c)
  \/ BeginTerminate \/ DestroyHeap \/ DestroyDevice \/ CloseDisplay \/ FreeDriver

DriverSpec == DriverInit /\ [][DriverNext]_driverVars
-----------------------------------------------------------------------------
(* The types of the steps and of what they set up, and of the objects.     *)
SetupTyped ==
  /\ stage \in {"off", "open", "device", "gate", "version", "heaps", "vtable", "ready",
                "drain", "destroy_device", "close", "free"}
  /\ vdp_dpy \in {"none", "own", "shared"} /\ vdp_device \in {"zero", "invalid", "live"}
  /\ loaded \in 0..Len(Procs)

ObjectsTyped ==
  /\ heap \in [Heaps -> 0..ObjectsPerHeap \cup {NONE}]
  /\ owned \in [Heaps -> 0..ObjectsPerHeap]
  /\ config \in [ConfigIDs -> {NONE} \cup
       [attrs : BoundedSeq(Attribs \cup {Default}, VDPAU_MAX_CONFIG_ATTRIBUTES),
        passed : Seq(Attribs)]]

DriverTypeOK == SetupTyped /\ ObjectsTyped

(***************************************************************************)
(* Wherever vdpau_Initialize fails, and after vdpau_Terminate, nothing of  *)
(* the driver stays but what heaps without a callback owned: its X         *)
(* connection is closed, the device destroyed, no heap left.  The          *)
(* application's X connection, which the driver uses when it cannot open   *)
(* its own (x_fallback), stays open.                                       *)
(***************************************************************************)
NothingLeftBehind == lost \subseteq Used \ {"buffer", "mixer"} /\ shared_open

(* No function VDPAU did not give is called, and nothing is asked of a     *)
(* device that is gone or was never there, in a part-way vdpau_Initialize. *)
NeverFaults == ~faulted

(* What vaCreateConfig is given on top of the default, and of it what no   *)
(* later attribute of the same type replaces.                              *)
Given(made) == <<Default>> \o made.passed

LastGiven(list) ==
  {list[i] : i \in {k \in DOMAIN list :
                      \A l \in DOMAIN list : l > k => list[l].type # list[k].type}}

(* A config that vaCreateConfig returned has the last value given for each *)
(* type, and the default's unless it is replaced, and none that was not    *)
(* given: also when the list just fits, and none is left when it does not. *)
ConfigsComplete ==
  /\ DriverTypeOK
  /\ \A c \in ConfigIDs : config[c] # NONE =>
       /\ LastGiven(Given(config[c])) \subseteq Range(config[c].attrs)
       /\ Range(config[c].attrs) \subseteq Range(Given(config[c]))

(* vdpau_update_attribute: "Check existing attrbiutes", and "Update        *)
(* existing attribute": no type stands in a list twice.  The loop's        *)
(* condition, attrib_count < i, never holds, so that none is updated.      *)
AttributesUpdated ==
  \A c \in ConfigIDs : config[c] # NONE =>
    LET attrs == config[c].attrs
    IN  \A i, j \in DOMAIN attrs : attrs[i].type = attrs[j].type => i = j

(* The order of vdpau_common_Terminate, from whatever step it is reached:  *)
(* a device goes when no heap is left whose objects would need it, and the *)
(* driver's X connection when no device is left on it.                     *)
TeardownOrder ==
  [][/\ (vdp_device = "live" /\ vdp_device' # "live") => \A h \in Heaps : heap[h] = NONE
     /\ (vdp_dpy = "own" /\ vdp_dpy' # "own") => vdp_device # "live"]_driverVars

-----------------------------------------------------------------------------
(***************************************************************************)
(* The inductive invariant: what the theorems of ObjectHeapProofs about    *)
(* this module rest on.  The stages before all functions are there, and    *)
(* those that may use the device:                                          *)
(***************************************************************************)
Opening == {"off", "open", "device", "gate", "version"}
Running == {"version", "heaps", "vtable", "ready"}
Closing == {"destroy_device", "close", "free"}

Complete == vdp_dpy # "none" /\ vdp_device = "live" /\ loaded = Len(Procs)

(* Each loop is within what it goes through.                               *)
LoopInv ==
  /\ stage = "gate" => turn \in DOMAIN Procs
  /\ stage = "heaps" => turn \in DOMAIN Created
  /\ stage = "drain" => turn \in DOMAIN Destroyed

(* What is there in each stage of the X connection, the device and the     *)
(* functions: a device that is live has device_destroy unless VDPAU has it *)
(* not, and a device that never was has no function.                       *)
DeviceInv ==
  /\ stage \in {"off", "open", "device"} => vdp_device = "zero" /\ loaded = 0
  /\ stage \in {"off", "open"} => vdp_dpy = "none"
  /\ stage = "device" => vdp_dpy # "none"
  /\ stage = "gate" => vdp_dpy # "none" /\ vdp_device = "live" /\ loaded = turn - 1
  /\ stage \in Running => Complete
  /\ stage \in {"drain", "destroy_device"} =>
       IF vdp_device = "live"
       THEN vdp_dpy # "none" /\ (loaded > 0 \/ "device_destroy" \in Failing)
       ELSE loaded = 0
  /\ stage \in {"close", "free"} => vdp_device = "invalid"
  /\ stage = "free" => vdp_dpy # "own"

(* What is there of the heaps: as many as were created and not destroyed,  *)
(* objects only where the driver was complete, and what the objects of the *)
(* heaps that are gone left behind.                                        *)
HeapsInv ==
  /\ \A h \in Heaps : owned[h] > 0 => h \in Used
  /\ stage \in Opening => \A h \in Heaps : heap[h] = NONE
  /\ stage = "heaps" => \A i \in DOMAIN Created : i < turn => heap[Created[i]] = 0
  /\ stage \in {"heaps", "drain"} =>
       \A h \in Heaps : heap[h] \in {NONE, 0} \/ (stage = "drain" /\ Complete)
  /\ stage = "vtable" => \A h \in Heaps : heap[h] = 0
  /\ stage = "ready" => \A h \in Heaps : heap[h] \in 0..ObjectsPerHeap /\ owned[h] = heap[h]
  /\ stage \in (Opening \cup {"heaps", "vtable"}) => \A h \in Heaps : owned[h] = 0
  /\ stage = "drain" => \A i \in DOMAIN Destroyed : i < turn =>
       /\ heap[Destroyed[i]] = NONE
       /\ Destroyed[i] \in {"buffer", "mixer"} => owned[Destroyed[i]] = 0
  /\ stage \in Closing =>
       /\ \A h \in Heaps : heap[h] = NONE
       /\ owned["buffer"] = 0 /\ owned["mixer"] = 0

SetupInv == SetupTyped /\ LoopInv /\ DeviceInv /\ NeverFaults

(* What the loop of vdpau_CreateConfig makes: all it was given, in order.  *)
ConfigsInv ==
  /\ DriverTypeOK
  /\ \A c \in ConfigIDs : config[c] # NONE => config[c].attrs = Given(config[c])

DriverInv == SetupInv /\ HeapsInv /\ ConfigsInv
=============================================================================
