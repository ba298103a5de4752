# Verification of vdpau-video

This directory is a TLA+ development about `vdpau-video`, the VA-API driver
that implements decoding and presentation on top of VDPAU (`src/src/*.c`). It
models the driver's control and shared state, checks it with TLC on small
instances, and proves the core for all instances with TLAPS. Source references
below are to `src/src/`.

## 1. The system

An application calls VA-API entry points. libva dispatches each to a function
`vdpau_Xxx` of this driver with the driver context `ctx`. Every VA object
(config, context, surface, buffer, image, subpicture, and internally output
surface, mixer, GLX surface) lives in an *object heap* of its own and is named
by an integer ID. A handler looks its IDs up, changes the objects, calls VDPAU
through function pointers and returns a status. The driver starts no thread of
its own. Threads are those of the application, the VDPAU presentation queue
and the X server act in the background, and only the object heaps take a lock.

| component | files | state | operations | promises that matter |
|---|---|---|---|---|
| object heap | `object_heap.c` | buckets, free list, heap size, mutex | init, allocate, lookup, first/next, free, destroy | an ID belongs to one owner; iterations miss nothing; the list survives expansion and failure |
| driver | `vdpau_driver.c` | nine heaps, VDPAU device, X display | initialize, terminate | everything is released, also on an error half way |
| VDPAU gate | `vdpau_gate.c` | table of function pointers | init, one wrapper per VDPAU call | none beyond forwarding |
| VA buffers | `vdpau_buffer.c` | type, contents, `delayed_destroy`, owner | create, destroy, map, set elements, scheduled destruction | a buffer outlives every pointer into it, and is destroyed once |
| decoding | `vdpau_decode.c` | per context: target, `last_*` pointers, bitstream array, generated data, decoder | Begin/Render/EndPicture, translation of each buffer type per codec | what VDPAU is given is the picture the application described |
| contexts, surfaces, configs | `vdpau_video.c` | associations, surface status, config attributes, display attributes | create, destroy, query, sync | both ends of an association agree; sync returns |
| X11 presentation | `vdpau_video_x11.c` | per window: ring of two output surfaces, dirty flags, fields, sizes, refcount | vaPutSurface | a picture on the screen is never drawn over; every picture put is shown |
| GLX presentation | `vdpau_video_glx.c`, `utils_glx.c` | GL state stack, FBO, pixmaps, output surface | create, destroy, copy, begin/end render | the application's GL context is restored |
| mixers | `vdpau_mixer.c` | shared by geometry, refcount, deinterlacing history, attribute times | create cached, ref, unref, render | freed with the last user; attributes are applied once changed |
| subpictures | `vdpau_subpic.c` | image, palette, associations in both directions, commit time | create, associate, commit, destroy | associations agree in both directions; the newest image is shown |
| images | `vdpau_image.c` | buffer, format, palette | create, derive, get, put, destroy | image and buffer live and die together |
| hash map | `map.c` | buckets of chains | init, set, get, remove | a key maps to its last value across a resize |
| asynchronous queue | `uasyncqueue.c`, `uqueue.c`, `ulist.c` | list, mutex, condition | push, pop, timed pop | compiled, but used by no other file |
| helpers | `utils.c`, `utils_x11.c`, `debug.c`, `vdpau_dump.c`, `put_bits.h` | - | time, environment, reallocation, X geometry, tracing | counters and arrays agree after reallocation |

How they interact:

* *shared tables.* All handlers share the heaps. The objects a lookup returns
  are not locked: another thread may free the object between the lookup and
  its use, and the free list hands the same ID out again at once.
* *pointers kept across calls.* Translating a buffer stores pointers into it in
  the context (`last_slice_params`, `last_pic_param`,
  `vdp_bitstream_buffers`). `vaEndPicture` reads them.
* *deferred work.* `vaRenderPicture` schedules buffers on `dead_buffers`. The
  list is walked at `vaBeginPicture`, `vaEndPicture` and `vaDestroyContext`.
* *IDs kept across calls.* `current_render_target`, `render_targets`,
  `va_context` and `dead_buffers` hold IDs which are looked up again later.
* *external progress.* `vaPutSurface` blocks on the presentation queue,
  `vaSyncSurface` polls it.

Hard to test, and therefore the subject of the properties: interleavings of
threads between two lookups; IDs that are reused; memory that is freed while a
pointer to it is kept; failures of `realloc` or of a VDPAU call half way through
a handler; the window resized at any time; waiting that only another party can
end. Nothing is persisted and nothing is sent over a network, so crash recovery
and lost messages do not arise. `PROJECT.json` lists the hazards one by one,
with the line where each bites and the properties that cover it.

## 2. The modules

```
AbstractHeap  <== refined by ==  ObjectHeap     <- MCObjectHeap, ObjectHeapProofs
SharedObjects <== refined by ==  OutputSurfaces <- MCOutputSurfaces, OutputSurfacesProofs
              <== refined by ==  Mixers         <- MCMixers, MixersProofs
                                 DecodePicture  <- MCDecodePicture, DecodePictureProofs
                                 PutSurface     <- MCPutSurface, PutSurfaceProofs
                                 Subpictures    <- MCSubpictures, SubpicturesProofs
                                 GLX            <- MCGLX, GLXProofs
                                 Images         <- MCImages, ImagesProofs
                                 Driver         <- MCDriver, ObjectHeapProofs
```

`ObjectHeapProofs` extends both `ObjectHeap` and `Driver`, which sets up and empties
the heaps. The definitions of `Driver` therefore have names of their own
(`DriverInit`, `DriverNext`, `DriverSpec`, `BeginTerminate`).

A line `mutant:` beside a definition marks a deliberately wrong variant of the
definition after it. No specification uses it. It serves to check that the
properties notice that mistake.

### ObjectHeap, AbstractHeap (`object_heap.c`, `vdpau_driver.c:115-153`)

`AbstractHeap` is the promise to callers: a set of live IDs, handed out one at
a time to whoever asks, looked up exactly. `ObjectHeap` is the code: `slots` is
the `next_free` field of every object (`LAST_FREE`, `ALLOCATED` or the next free
slot), `next_free` the head, `num_buckets` the capacity of the bucket array.
Every operation holds the mutex, so one operation is one action
(`AllocateFromList`, `AllocateAndExpand`, the failures of `realloc` and
`malloc`, `Lookup`, `First`, `Iterate`, `Free`). Iterations take one action per
object because the code unlocks in between. `Terminate`, `Drain` and `Destroy`
are the `destroy_heap` loop of `vaTerminate`. `held`, `due` and `call` are
history variables: who was given what, what an iteration still owes, and the
result of the last call.

### SharedObjects (what mixers and output surfaces have in common)

`SharedObjects` is the promise to surfaces: each key (a geometry, a drawable) has one
object, which is made when the first user asks for the key, found by the others
(`Acquire`), handed on (`Pass`) and gone when the last user has let go (`Release`).
It has no reference counts, no search and no failures. `Mixers` implements it with the
surfaces of the application as users (`SharesMixers`). In `OutputSurfaces` the users are
surfaces, the calls that have counted a reference and not yet stored it, and one
user `lost` for the references that nobody will give back (`SharesOutputs`).

### DecodePicture (`vdpau_buffer.c`, `vdpau_decode.c`, contexts and surfaces of `vdpau_video.c`)

| variable | code |
|---|---|
| `codec`, `targets`, `target`, `decoder` | `vdp_codec`, `render_targets`, `current_render_target`, `max_ref_frames` of an existing `vdp_decoder` |
| `bits`, `sliceParams`, `picParam` | the blocks `vdp_bitstream_buffers`, `last_slice_params` and `last_pic_param` point into |
| `genSize`, `genMax`, `genRoom` | `gen_slice_data_size`, `gen_slice_data_size_max`, and what the block of `gen_slice_data` really has room for: a failing `realloc` leaves the second raised and the third as it was |
| `dead` | `dead_buffers`: how often each ID is on the list |
| `type`, `owner`, `delayed` | buffer objects: type, `va_context`, `delayed_destroy` |
| `status`, `assoc` | surface objects: `va_surface_status`, `va_context` |
| `pending` | where `vaRenderPicture` stands in its second loop |
| `held`, `sent`, `job` | history |

Memory is modelled by what pointers point to: when a block is freed every
pointer into it becomes `FREED`, in all contexts at once. IDs are slots that
are reused as soon as they are free. Each context has its own thread.
`vaRenderPicture` verifies all IDs in one step (`RenderPicture`) and translates
one buffer per step (`TranslateCopied`, `TranslatePicParam`,
`TranslateSliceParam`, `TranslateSliceData`, `TranslateRejected`, `GenerateFails`,
`AppendFails`, `TranslateCrashes`), so that other threads act between verification
and use.
The remaining handlers are one step each. A failed `ASSERT` or a NULL
dereference stops the process (`fault`). Failed assertions abort in debug and
in release builds alike (`sysdeps.h:46-57`). Two more ways to stop come with the
slice headers the driver generates: a VOP header for a `macroblock_offset` that no
byte has (`HeaderOverlong`, `vdpau_decode.c:629-639`), and a header written where
the block once did not grow (`GenerateOverruns`). A picture generates at most
`MaxHeaders` headers.

What the application promises is a constant, `AppRules`: `held` (a buffer is
rendered by the thread that created it, and once), `order` (slice parameters
before slice data, the code's own `XXX` comment at `vdpau_decode.c:506`) and
`surfaces` (a surface serves one context and is destroyed after it). Runs drop
promises to show which property needs which. Even under `held` the
application may call `vaDestroyBuffer` on buffers that wait for destruction, as
applications do.

Contents are abstracted: picture parameters are accepted or rejected, a slice
data buffer holds one slice, and the constant start codes put before slices are
left out (they are static and cannot dangle). A call of `vaCreateContext` that
names a dead surface undoes its associations and has no effect, and is left out.

### PutSurface (`vdpau_video_x11.c`, `query_surface_status` and `sync_surface` of `vdpau_video.c`)

One window, its ring of two output surfaces, any number of threads that put,
one thread in `vaSyncSurface`, the presentation queue (`Present`) and the window
manager (`Resize`). `put_surface` is cut where it calls VDPAU: `PutSurface` reads
the geometry and decides about a flush, `Flush` queues the previous picture,
`EnsureSize` is `output_surface_ensure_size`, `Wait` the blocking call, `Render`
the mixer, `Queue` the display. `exists`, `dirty`, `current`, `displayed`,
`queued`, `fields`, `size`, `max_size` are the fields of `struct object_output`.
Of the size only one dimension is kept. `drawn` is history: which fields the
pixels of an output surface really contain; `mishaps` remembers that the window was
resized or a display call failed, because from then on less is promised. The queue of VDPAU is external: it
shows entries in order, the entry on the screen is released when the next one
is shown, and destroying an output surface removes it.

### Subpictures (`vdpau_subpic.c`, `vdpau_video.c:247-425`, `render_subpictures`)

| variable | code |
|---|---|
| `links.surface`, `links.sub` | the arrays `assocs` of each surface and of each subpicture |
| `links.block` | the `SubpictureAssociation` blocks in memory, which name both ends by ID |
| `image` | image and buffer: width, whether it is mapped, `mtime`, pixels |
| `shows`, `width`, `last_commit` | `image_id`, `width`, `last_commit` of a subpicture |
| `bitmap` | the pixels last uploaded to VDPAU |
| `aborted` | an `ASSERT` failed |

The calls take no lock over the lists, so the application has to serialise
them, and each is one step. What is hard is inside the calls: loops that change
the list they walk, and lists of surfaces that end half way. A loop is a
function `after` of the number of rounds, and each round is `Associated` or
`Deassociated`. An entry is removed by moving the last one into its place.
`RenderSubpictures` may stop after each subpicture, since any VDPAU call may
fail, and keeps the uploads made until then. `LoseList` is the `realloc` that fails
when an array is full (every `ListStep` entries): the array is freed and its count
stays. What its entries are from then on is not defined, so the object is marked
`lost` and nothing happens any more; all other objects still have to agree.

`AppRules` holds what the application promises: `once` (a pair is associated at
most once at a time), `paired` (only associated pairs are taken apart) and
`pixels` (an image shown by a subpicture is written through `vaMapBuffer`,
stays, and is not exchanged after the first upload; later associations show no
new area). None of them is checked by the code.

### OutputSurfaces (`output_surface_*` of `vdpau_video_x11.c`, `vdpau_DestroySurfaces`)

`PutSurface` is one window; this module is how windows get their output
surface. `vaPutSurface` looks for the object of a drawable among those of the
surface (`Looked`), then walks over the heap (`Search`), counts itself in
(`Ref`) or allocates and fills a new object (`Allocate`, `Create`,
`CreateFails`), and remembers it at the surface (`Append1`, `AppendFails`). An array
that cannot grow is freed, every `ArrayStep` entries: its references are `lost`, its
surface is among `freed`, and whoever looks into it later follows NULL (`TouchFreed`,
`fault`).
`DestroySurface`, `Unref`, `Destroy` give the references back one by one. `out`
is what the memory of an object contains, `in_use` whether it is allocated:
freed objects keep their fields, and the walk sees those of objects that are
allocated and not yet filled in. Only heap operations are locked, so each of the
above is a step.

### Mixers (`vdpau_mixer.c`, display attributes and surfaces of `vdpau_video.c`)

| variable | code |
|---|---|
| `surface` | geometry and `video_mixer` of each surface |
| `mixer` | `refcount`, `vdp_colorspace`, `vdp_procamp` and `vdp_procamp_mtime`, `vdp_bgcolor_mtime`, `va_scale`, `deint_surfaces` |
| `vdp` | what VDPAU was last told for the mixer |
| `attrs`, `mtime` | `va_display_attrs` with `va_display_attrs_mtime`, and the clock |
| `render` | the thread in `video_mixer_render`: the attribute it is at, `new_mtime` |

A render is cut at every attribute read and every VDPAU call, any of which may
fail and leave the cached state where it was. `AppRules` holds `serial`: attributes
are not changed while a picture is mixed, which the code does not check. The surfaces
mixed before, which VDPAU gets for deinterlacing, are left out (section 5).

### GLX (`vdpau_video_glx.c`, `utils_glx.c`)

`fault` is what GL or VDPAU was given and must not be; the process ends there.
`current` is the GL context of each thread, `contexts` the driver's own.
`Enter` and `Leave` are the two `gl_set_current_context` around every call;
between them a call is one step per part that can fail: association, binding,
drawing, unbinding, deassociation. `glx` holds what a GLX surface owns
(`gl_output`, `gl_surface`, `pixo`, `fbo`) and what it shows. `gl_output` may be
`empty`: its size could not be set and VDPAU made no surface for it, but the next
association takes it for made. Both ways to the
texture are there, VDPAU/GL interop and X pixmaps. `Failing` lists the calls that
may fail, `AppRules` holds `current` (the application's thread has a context),
`begun` (`vaEndRenderSurfaceGLX` after `vaBeginRenderSurfaceGLX`) and `ended` (no
association in between). `OneCallPerSurface` is the surprising part: nothing
locks a GLX surface, and what keeps two threads apart is that GL refuses to make
a context current twice.

### Images (`vdpau_image.c`)

`image` is the memory of each slot and `live` whether it is allocated, because the
error path of `vaCreateImage` reads fields a previous image left there. `Formats` may
hold one that is not in `vdpau_image_formats_map`, which fails before any field is
reset. What a step destroys or overwrites that is not its own is noted in `astray`,
and no further step is modelled. `buffer`
and `surface` record which component (Y, U, V) lies in which plane, so that a
transfer in the wrong plane order is seen. `Layout` computes offsets and pitches
as the code does, `Offset` adds what the address lacks to 16, and `PlanesFit`
compares them with the rows VDPAU transfers (`Rows`, external). `output` are the
VDPAU output surfaces of RGBA images.

### Driver (`vdpau_driver.c`, `vdpau_driver_template.h`, `vdpau_gate.c`, configs of `vdpau_video.c`)

`stage` and `turn` follow `vdpau_Initialize` step by step: connection, device,
each VDPAU function, version, each heap, the table of GLX functions. Every step
may fail and goes to `vdpau_Terminate` from there, which drains the nine heaps in
its own order (`Destroyed`), destroys the device and closes the connection.
`owned` is what objects own outside of their heap; only buffers and mixers have a
callback that releases it. `lost` is history. A config is the list of its
attributes, appended one after the other up to the limit (`Attributes`, the loop of
`vdpau_CreateConfig`), with what was passed (`passed`).

## 3. The runs

| run | instance | what it shows |
|---|---|---|
| `heap_threads` | 2 threads, 2 buckets of two slots, bucket array growing by one | the heap stays whole (`HeapIsWhole`: the inductive invariant `HeapInv`, a free list that is complete and ends, a bucket array that is large enough), exclusive ownership (`SoleHolder`), complete iterations (`WalkMissesNothing`), no assertion fails (`NeverAborts`) and refinement of `AbstractHeap`, over interleavings, expansions that fail half way, drain and re-initialisation |
| `decode_buffers` | 2 contexts, 2 surfaces, 3 buffers, H264 and MPEG4, lists of up to 2, 2 generated headers | no pointer of an open picture dangles (`NoDangling`), each buffer has one holder or waits once and only while a picture is open (`BuffersAccountedFor`), no accepted slice is lost (`SlicesReachDecoder`), no crash but for an overlong VOP header (`NeverFaults`) |
| `decode_surfaces` | 2 contexts, 2 surfaces, 2 buffers, 4 codecs, no `order` promise, failing `realloc` | associations agree (`AssociationsAgree`), the decoder holds enough references (`DecoderHoldsReferences`), also after headers were written outside a block that did not grow |
| `decode_generated` | MPEG2 | *violation*: generated slice headers dangle after the block moves |
| `put` | 1 thread, 2 surfaces, sizes 1 and 3, frames and fields, failures of every VDPAU call | until the first resize nothing on screen or queued is drawn over (`RendersOnlyIdle`) and a frame shown as complete is (`QueuedFrameIsComplete`); `vaPutSurface` returns (`WaitEnds`), and `vaSyncSurface` if no display call fails (`SyncEnds`) |
| `subpictures` | 2 surfaces, 2 subpictures, 2 images, memory for 3 associations, arrays that grow at each entry and may fail to | both ends of each association agree (`BothEndsAgree`), none leaks (`AssociationsOwned`), no upload that is needed is skipped (`CommittedIsNewest`), no assertion fails (`NeverAborts`), whichever object is destroyed first and whichever list is lost |
| `outputs` | 1 thread, 3 surfaces, 2 drawables, memory for 3 objects, arrays that grow at each entry, 1 lost reference per object | references are counted exactly and keep the object allocated (`ReferencesCounted`), a drawable has one output surface (`OneOutputPerDrawable`), assertions hold, and NULL is followed only after an array was lost (`NeverAborts`), with failures of VDPAU and of memory; refinement of `SharedObjects` (`SharesOutputs`) |
| `mixers` | 3 surfaces, 2 geometries, 2 color attributes and the background, 2 changes | a mixer counts its surfaces and goes with the last (`MixersCounted`), VDPAU has every newest setting when it mixes whatever failed before (`PictureUsesSettings`); refinement of `SharedObjects` (`SharesMixers`) |
| `glx` | 2 threads, 2 GLX surfaces, 2 VA surfaces, 3 contexts, top field and frame | a call gives the context back (`SurfaceContextsAreFree`) and excludes others (`OneCallPerSurface`), the texture shows what was asked for (`ShowsAssociated`), a copy that fails leaves nothing bound (`CopyCleansUp`), no dead context and no mapped surface is used, and a NULL surface only where GL refused to register it (`NeverFaults`) |
| `images` | 2 images, 2 buffers, 7 formats and one that is not listed, sizes 2x2 and 3x3, misaligned and aligned memory, 2 handles that VDPAU gives again | an image keeps its own buffer over the slot's earlier lives (`BuffersOwned`), VDPAU surfaces come and go with images (`OutputsOwned`), each but for the one way a failing `vaCreateImage` breaks it; components stay apart between formats (`ComponentsKept`), transfers from a surface no larger stay in the plane and the buffer (`PlanesFit`) |
| `driver` | 5 of the 41 functions, 3 heaps with objects, 2 configs of up to 3 attributes | wherever initialisation fails nothing is left but what heaps without a callback own and the application's connection stays open (`NothingLeftBehind`), nothing that is missing or dead is called (`NeverFaults`), a config has the last value given for each type or is absent (`ConfigsComplete`) |
| `config_repeats` | a list that repeats a type | *violation*: a type of attribute stands twice in a config (`AttributesUpdated`) |

Each module has a type invariant `TypeOK`. It is a conjunct of one property of
its runs: `HeapIsWhole`, `BuffersAccountedFor`, `RendersOnlyIdle`,
`AssociationsOwned`, `MixersCounted`, `ReferencesCounted`,
`ShowsAssociated`, `BuffersOwned` and `ConfigsComplete`.

Deadlock is checked where the system goes on for ever. It is not in
`decode_buffers`, `decode_surfaces`, `outputs` and `glx`, in which the process may
crash, nor in `images` and `subpictures`, in which memory may be left in a state
that is not followed further.

### Known disagreements

`decode_generated` and `config_repeats` are kept as runs because comments of the code
say the opposite. The following are as certain, and each is reproduced by changing
one constant of a run or by dropping one condition of a property:

| change | fails | what happens |
|---|---|---|
| `heap_threads` with `id_offset + heap_increment` among `ForeignIds` | `ImplementsAbstractHeap` | the check at `object_heap.c:160` is `id > heap_size + id_offset`, so the ID after the last slot passes and a bucket that was never allocated is read; `object_heap.h:66-67`: "Returns a pointer to the object on success, returns NULL on error" |
| `put` without `~Resized` | `RendersOnlyIdle` | a change of size clears the dirty flags of output surfaces that are queued or visible (`vdpau_video_x11.c:146`), and the wait is skipped; `:644-645`: "Wait for the output surface to be ready. i.e. it completed the previous rendering" |
| `put` without `~Resized` | `QueuedFrameIsComplete` | growth between two fields destroys the output surface with the first (`:129`) and keeps `fields`; `:682`: "Queue surface for display, if the picture is complete (all fields mixed in)" |
| `put` without `"display" \notin mishaps` | `SyncEnds` | the status is `VASurfaceDisplaying` before the display call that fails (`:607`), and `sync_surface` polls for ever; `vdpau_video.c:729`: "Wait for the surface to complete pending operations" |
| `subpictures` without `once` | `NeverAborts` | associating a pair again replaces at the surface and appends at the subpicture; after the surface is destroyed an association is left behind, and `ASSERT(obj_subpicture)` fails later; `vdpau_video.c:261`: "XXX: this should not happen, but replace it in the interim" |
| `outputs` with two threads, two surfaces, a drawable each | `NeverAborts` | the walk over the heap finds an object another thread has allocated and not filled in, whose old drawable matches; the assertions at `vdpau_video_x11.c:726-728` fail |
| `mixers` without `serial` | `PictureUsesSettings` | an attribute is changed between the loop that reads them and `VdpVideoMixerRender` |
| `glx` without `current` | `NeverFaults` | with no context to return to, `gl_set_current_context` does nothing and the driver's context stays current; the next destruction returns to it when it is gone. The comment at `utils_glx.c:456-458` says the context is replaced |
| `glx` without the condition on `"null"` | `NeverFaults` | when GL refuses to register the output surface, the second association finds `gl_output` and does not create the missing `gl_surface` (`vdpau_video_glx.c:382-397`); `gl_vdpau_bind_surface` is given NULL |
| `glx` without `begun`, or without `ended` | `NeverFaults` | unmapping a GL surface that is NULL; rendering to one that GL has mapped |
| `images` without `"output" \in astray` | `OutputsOwned` | the error path of `vaCreateImage` passes the handle an earlier image left to `VdpOutputSurfaceDestroy`, which by then may belong to another image |
| `images` without `"unlisted" \in astray` | `BuffersOwned` | a format that is not in the map fails (`vdpau_image.c:198-202`) before `image->buf` is reset (`:206`), and the buffer whose ID an earlier image left is destroyed |
| `driver` with `"vtable"` in `Failing` | `NothingLeftBehind` | `vdpau_Initialize` returns without `vdpau_Terminate` (`vdpau_driver_template.h:681`) |

More facts about the code that are no failure of a checked property, or show up
when an assumption is dropped:

* with `MemoryShort`, `NoDangling` fails: when `realloc` fails the array of
  bitstream buffers is freed (`utils.c:181`), but its count is kept and
  `vaEndPicture` passes both on;
* without the promise `held`, `NeverFaults` fails: a buffer rendered twice stands
  twice on `dead_buffers`, and `ASSERT(obj_buffer)` (`vdpau_buffer.c:47`) aborts;
* with two threads in `put_surface`, `RendersOnlyIdle` fails, because
  `output_surface_lock` (`vdpau_video_x11.c:95-105`) has an empty body;
* `vaEndPicture` leaves `va_surface_status` at `VASurfaceRendering`. A surface that
  is decoded and never displayed reports that it is being rendered for ever;
* without `held` and with `USE_DEBUG`, `NeverFaults` fails as well: the trace of
  an unknown buffer ID reads the object (`vdpau_decode.c:1598`) before it is
  compared with NULL;
* without `pixels`, `CommittedIsNewest` fails: `vaGetImage`,
  `vaSetSubpictureImage` and a further associated rectangle change what has to
  be uploaded and not the time `commit_subpicture` compares;
* removing an association moves the last one into its place, so that the
  remaining subpictures of a surface may be blended in another order.
* a failing `vaCreateImage` on a slot no image has used yet reads memory that
  `malloc` left uninitialised, as buckets are not cleared. What it destroys or frees
  then may be anything; the properties name this case;
* when `output_surface_ensure_size` fails in an association (`vdpau_video_glx.c:382-389`)
  `gl_output` stays without a VDPAU surface, and later associations render to
  `VDP_INVALID_HANDLE`, which VDPAU refuses (`Mixed`);
* a destroyed surface stays in `deint_surfaces` of a mixer that other surfaces keep,
  and VDPAU is given its handle (`vdpau_mixer.c:428`);
* `'AYUV'` is in `vdpau_image_formats_map` (`vdpau_image.c:31`: "List of supported
  image formats") but `vaCreateImage` has no case for it and always fails;
* an NV12 image of odd width has a pitch below the row of chroma VDPAU
  transfers, so that rows overlap (`PlanesFit` holds: they stay in the buffer);
  `vaGetImage` compares its rectangle with the surface and not with the image, so
  that a larger surface overruns the buffer (`astray`); `vaSetImagePalette`
  does not change the image's time;
* a failed `vaCreateSurfaces` loses the surface of the round (`CreateSurfacesFails`)
  and a failed `realloc` in `vaPutSurface` the reference just counted with all others
  of the surface (`AppendFails`); both are bounded by `MaxLost`. After the latter the
  next `vaPutSurface` or `vaDestroySurfaces` of the surface follows NULL;
* the error returns of `vaCreateSurfaceGLX` lose its GL context and leave it
  current (`vdpau_video_glx.c:293-299`);
* objects left at `vaTerminate` lose what they own unless they are buffers or
  mixers; a VDPAU device that has no `VdpDeviceDestroy` stays;
* a thread in `vaSyncSurface` on a surface whose picture another thread has open
  fails the assertion at `vdpau_video.c:773`, before the line that would return an
  error. It takes decoding and presentation in one model;
* two threads that begin a VP9 picture first may both fill the static maps of
  quantizers (`vdpau_decode.c:1550`).

### Bounds

* heap: two buckets of two slots, so that the heap and the bucket array grow
  and the order inside a bucket and across buckets matters; two threads, so
  that a slot freed by one is taken by another. The proofs remove these bounds.
* decoding: two contexts are needed for reuse of an ID by another thread, three
  buffers for picture, slice parameters and slice data of one MPEG4 picture (or
  two slices of an H264 picture), lists of two for a rejection in mid-list. With
  `MaxHeaders` = 2 the block of generated headers is made and has to grow.
  Two surfaces let two pictures be open at once.
* presentation: `CounterSpan` = 4 stands for the 2^32 values of
  `queued_surfaces`, so that it wraps; `QueueLimit` = 2 entries of the
  presentation queue, as many as the ring has; sizes 1 and 3 with a granularity
  of 2: 1 to 3 is a resize beyond the allocated size, back to 1 one inside it.
* subpictures: two of each kind, so that each list has an order; memory for
  three associations, so that a list of surfaces may end half way; two parts
  of a subpicture, so that rectangles overlap without being equal; `MaxTime` = 2
  for one cycle of map and unmap. `VDPAU_MAX_SUBPICTURES` is 2, which is reached
  only when a pair is associated twice, as there are two subpictures. `ListStep` = 1
  lets a list of one entry be lost, which takes four in the code.
* output surfaces: three surfaces share two drawables, so that an object has
  several references and outlives the surface it was made for. `ArrayStep` = 1 lets
  an array of one entry be lost, which takes four in the code.
* mixers: three surfaces of two geometries, so that a mixer has two users beside
  another mixer; two color attributes stand for four, since the time that decides is
  one number over all of them; `MaxTime` = 2 changes, so that one can be read,
  missed or overtaken by the other.
* GLX: a thread more than contexts in use, and one context more than surfaces
  for the one a failed creation loses.
* images: one surface of odd size; `Aligns` 0 and 8, an aligned address and the
  one malloc gives on most machines; two handles for two images, so that VDPAU has to
  give one again.
* driver: five of the functions, two that start uses and two that the end uses,
  stand for all; the config limit is 3 and lists are as long as that, so
  that the last has no room.
* symmetry is used on threads of the heap, on buffers, surfaces and contexts of
  decoding, on surfaces, subpictures, images and buffers, on the mixers' IDs, and
  on the threads and contexts of GLX; all properties of these
  runs are safety, and no definition distinguishes the permuted values.

### Fairness

`PutSurface` assumes weak fairness of each thread inside `put_surface` (a thread
that runs C code continues), of `Present` (VDPAU shows what is queued) and of
`SyncReturns` (the polling loop with `delay_usec` looks again and again). No
fairness is assumed of the application's calls or of the window manager.
`SyncEnds` is stated for executions in which pictures stop coming: otherwise
each poll may fall into the moment after a new flip, which the code's polling
does not exclude.

## 4. The proofs

`ObjectHeapProofs` proves, for every number of threads, bucket size and memory
bound, that `HeapInv` is inductive (`HeapInvariant`) and from it `TypeCorrect`,
`FreeListSafe`, `AllocationExclusive`, `NoAssertionFails` and
`IterationComplete`. None of the wanted properties is inductive alone.
Exclusive allocation needs that the head of the list is a free slot, which needs
that the list runs through distinct free slots (`FreeListInv` states it locally:
each link leads to another free slot, and no slot has two predecessors).
Completeness of iterations needs to relate the iterator to the set still due
(`DueInv`), and the absence of failed assertions at `vaTerminate` needs to know
how far the drain has come (`DrainInv`). `Refinement` proves that the heap
implements `AbstractHeap`. Its hypothesis `NeverPastTheEnd` says that no
caller asks for the one ID that the code mishandles (section 3).
`FreeListWhole` proves `FreeListComplete`, which follows the list with a recursive
function. No induction theorem is needed for it: `ChainInv` has the whole list as a
function from steps to slots, which taking the head shortens, freeing a slot
prolongs and an expansion replaces (`ChainWithoutHead`, `ChainWithHead`,
`ChainOfBucket`), and that function solves the recursive equation
(`ChainCompletes`); as it is injective, it is no longer than the heap.
`BucketsSuffice` needs that the heap consists of whole buckets (`WholeBuckets`),
because the division in `object_heap_expand` rounds. `HeapStaysWhole` puts these together.
The proofs rest on `HeapAssumption` only (positive bucket size and growth, a
heap offset aligned to the ID mask).

Its last part is about `Driver`, for every list of VDPAU functions and of failing
steps, any number of objects and configs, any limit of attributes and any length of
attribute lists. The order of the heaps is that of the code. `DriverInv`
(`DriverInvariant`) says, stage by stage, how far each loop is (`LoopInv`), which of
connection, device and functions are there (`DeviceInv`), and what is left in which
heap (`HeapsInv`). It is needed because `vdpau_Terminate` is reached from everywhere:
`DriverNeverFaults` holds since heaps have objects only where all functions were loaded,
and a device that never was has no function. `ConfigsAreExact` is about the loop of
`vdpau_CreateConfig`, a recursive function, and says what it makes of any list: the
default and then everything it was given. `LoopKeeps` shows that after n rounds it has
kept as much of the list as fits, because there is no least round at which it has not
(`AllSteps`). `ConfigsAreComplete` follows: the last value given for each type is there,
though nothing given before it is replaced (run `config_repeats`). `DriverLeavesNothing` and the action property `DriverTeardownOrder` (no
device is destroyed before all heaps are gone, no connection closed before the device)
have as hypothesis that `vdpau_Initialize` does not fail at the table of functions
(`"vtable" \notin Failing`), where it forgets to clean up (section 3), and the first one
that VDPAU has a `VdpDeviceDestroy`. `TeardownOrder` is proved only and no run checks it.

`GLXProofs` proves, for every number of threads, GLX surfaces and contexts and
whichever calls fail, that no thread is left with a surface's context
(`SurfaceContextsFree`) and that calls on a surface exclude each other
(`SurfacesExclude`). Both follow from `ContextInv` (`ContextsAreKept`).
`SurfaceContextsAreFree` is about threads between calls, so `ContextInv` speaks of
the context a thread will return to, `Home`: what `old_cs` has during a call and
what is current outside. Homes differ from each other and from the contexts of
surfaces (`HomesApart`); a thread inside a call has its surface's context, or none
once it has destroyed it (`CallsHaveContext`); and GL has no context current twice
(`CurrentApart`). So the thread that leaves finds its home free, and the one that
enters takes a context that is free or fails. Creating surfaces needs that contexts
of surfaces are alive and distinct (`ContextsOwned`). All parts of a call that work
on the surface object leave its context alone (`Keeps`), which is one lemma for all
of them (`WorkStep`). The hypothesis `"current" \in AppRules` is that the
application does not call without a context of its own: without it
`gl_set_current_context` has nothing to restore and leaves the surface's context
current (section 3). `GLXAssumption` adds that the names of contexts and threads differ, and that
`NONE` is none of them, no GLX object and no VA surface.

The other half is about what calls do (`UsesAreKept`). `UsesInv` says of each object
that it shows the surface it names with no field waiting (`ObjectsGood`), of each call
what it has achieved at its present step (`CallsKnow`), and that a bound framebuffer is
a copy's between binding and unbinding (`BoundInCopy`). It needs `ContextInv`, since
another call on the same object would undo what a call knows. `SurfacesShowTheirs` and
`CopiesCleanUp` follow with whichever calls failing; `begun` is that
`vaEndRenderSurfaceGLX` and the like follow `vaBeginRenderSurfaceGLX`.
An object whose `gl_output` is empty never names a VA surface, as every association of
it fails. `GLNeverFaults` takes one more hypothesis (`Careful`): `ended`, that no
association is changed while rendering. It holds whichever calls fail, and names the
one fault left: the next association goes on with a NULL surface when registering it
with GL failed (section 3). That a fault is the last step is `FaultStep`.

`OutputSurfacesProofs` proves, for every number of threads, surfaces, drawables
and output surfaces, that a drawable has one output surface (`OneOutput`). The
walk of `output_surface_lookup` over the heap is not locked: between two of its
steps other threads allocate, fill in and free objects. `NonePassed` says what
makes it right all the same: while a thread searches, no output surface of its
drawable lies behind it, and there is none at all when it goes on to allocate.
Another thread cannot put one there, since a drawable belongs to one thread
(`UserOf`) and only that thread makes its output surface. That the walk reaches each object needs that the set of IDs above the present one has a
least element (`LeastExists`), and `Working` that a thread which fills in an object
is alone with it. Together these are `WalkInv` (`WalkIsComplete`).

The second part of `OutputSurfacesProofs` proves reference counts and assertions
(`ReferencesAreCounted`, `NoAssertionFails`) under the hypothesis `Serialised`,
that calls follow each other: objects and their counts are used without a lock, and
section 3 shows how two threads make an assertion fail. `CountInv` (`ReferencesInvariant`) holds
at every step of a call, so on every error path: the count of an output surface is
the number of surfaces that have it in their array, plus the reference the call
holds between `output_surface_ref` and the array, plus those lost because an array
could not grow (`Counted`). That array takes the references of its whole list with it:
`FailureLoses` shows that exactly these become `lost`, so that counts stay exact and the
objects are never freed. `NoAssertionFails` adds `Excused`: NULL is only followed where
references were lost this way. That adding to an array adds one surface to the set
needs that no surface has an output surface twice (`Distinct`), and that needs what
the call has already found not to be there (`AtWork`). `OutputAssumption` says that
surfaces are finitely many and that `NONE` is no sequence of IDs and no drawable.

`OutputsAreShared` proves under the same hypothesis that `OutputSurfaces` implements
`SharedObjects`. It needs both invariants: `CountInv` to know that a count above zero
and a user are the same thing (`UsersAre`), so that the object which `Destroy` frees has
lost its drawable before, and `NonePassed` for the step at which a new object gets its
drawable, since the abstract specification allows that only while no other has it.
`output_surface_ref` and the end of `output_surface_create` are `Acquire`, storing the
reference (or failing to) is `Pass`, each round of `vaDestroySurfaces` is `Release`;
the walk, the allocation, its failures, the presentation and the final free are
invisible (`NothingPasses`).

`MixersProofs` proves the properties of `Mixers` for any number of surfaces,
mixers, geometries and attributes. Counts (`MixersAreCounted`) need, besides the
property itself, only that the surfaces a failed `vaCreateSurfaces` has lost have no
mixer (`LostHaveNoMixer`), so that the users of a mixer are all the application's;
the counting itself is the cardinality of a union in `vaCreateSurfaces` and of a
difference in `vaDestroySurfaces`. That VDPAU has all newest settings (`SettingsAreUsed`, under `serial`) rests on the
meaning of the two cached times (`CacheIsTrue`): an attribute not newer than the
time has been told to VDPAU, for mixers at rest and in use alike, and whichever call
failed before. With `Clocked` it holds of new mixers and is kept when an attribute
changes, and `Conversion` and `Told` follow the render in progress: what
the loop has passed was read and is covered by `new_mtime`, and what has been told
stays told up to the mixing. `MixerAssumption` says that there are finitely many
surfaces and that `NONE` is none of the objects and no geometry.
`MixersAreShared` proves that `Mixers` implements `SharedObjects`: creating surfaces
acquires the mixer of their geometry for all of them at once, destroying them releases
whatever they use, everything else is invisible, failures and renders included.
`MixersLiveWhileUsed` is what this is good for: the promise of `SharedObjects`, derived
from its own steps (`SharedStep`), holds of the mixers.

`DecodePictureProofs` proves all properties of `DecodePicture` for any number of
contexts, surfaces and buffers and lists of any length. What a theorem needs the
application to promise is its hypothesis:

* `TypeCorrect` and `DecodersHoldReferences` need no promise.
* `BuffersAreAccountedFor` needs `held`. `BuffersAccountedFor` is not inductive,
  because a buffer changes hands in the middle of `vaRenderPicture`. `AccountInv`
  (`AccountInvariant`) adds that what is still to be translated is held, each
  buffer once, in an open picture (`PendingIsHeld`), and that whoever holds a
  buffer made it and does not also have it on a list (`HeldExist`, `DeadWait`).
* `PointersStayValid` (no dangling pointer) follows from `PointersKept`: what an open
  picture points to is on the list of its own context, so that only this context
  frees it, and clears the pointers when it does. It needs that slice data finds
  memory (`~MemoryShort`), and that there is no MPEG-2, since there the generated headers
  move (run `decode_generated`).
* `DataIsDescribed` (`held` and `order`) and `SlicesAllReachDecoder` (also with
  enough memory): accepted slices stay in the bitstream array until `vaEndPicture`.
* `AssociationsStayInAgreement` (`surfaces`) follows from `SurfacesInv`
  (`SurfacesInvariant`): contexts list live surfaces, each of one context.
* `DecodingNeverFaults` takes all three promises: the process stops at a buffer on
  `dead_buffers` or in the list to render that is gone, at slice data with no
  parameters before it, and at a context whose surfaces are gone or another's. Two
  ways to stop are left, and the property names them: a VOP header with more bits
  than it has room for, and a header for which the block has no room because it once
  did not grow (`genRoom` below `genMax`). That no other crash follows a crash is
  `FaultsAreFinal`.

A step changes at most one context's picture. `StepTouches` proves this once, for all
actions: to any given context a step is one of `Untouched`, `Fresh` (a picture begins),
`IsClosed`, `TranslatesOne` and `LosesSlices`. The proofs about pictures split on these.

`PutSurfaceProofs` proves `TypeCorrect` for any number of threads and sizes, and
`RendersIdle` and `FramesAreComplete` under `OneThread`, for any number of surfaces,
sizes, fields, counter and queue sizes, and failures of every VDPAU call. The
hypothesis is what the code needs, as `output_surface_lock` has an empty body. The
properties speak of the time before the first resize, and section 3 shows how one
breaks both. `PutInv` (`PutInvariant`) says of that time that what VDPAU shows or has queued is dirty (`UsedAreDirty`),
hence waited for; that the window fits, hence nothing is destroyed (`SizesFit`); that
the fields counted are in the pixels of the current output surface
(`FieldsAreDrawn`); and what a call knows at each place (`CallsKnow`).

`SubpicturesProofs` is about lists of any length. The loops are functions of the
number of rounds; an induction over rounds with a least failing round
(`AllRounds`) needs no induction theorem. `TypeInvariant` holds whatever the
application does: each list names blocks of its own object, each once (`Sound`).
Under `once`, links are also `Full` (`LinksInvariant`): each block in
use is listed at both ends, which exist. From this `EndsAgree` and `NoneLeaks` follow,
for all objects that have not lost their list. A call that loses one has made the
associations before it like any other, so that both ways to end are one lemma
(`AssociatesSome`).
The lemmas about one round say what `Deassociated` frees (`Frees`) and
`Associated` adds (`Adds`); those about loops that n rounds empty a list of n entries,
although each round moves the last entry into the place of the first.
`CommitsAreNewest` (under `pixels`) needs `CommitsAreKept` (`PixelsInvariant`): VDPAU has
what the image contained at `last_commit`, a subpicture never uploaded is blank, and
so is an image never mapped, which is why time 0 counts as committed. `NothingAborts`
takes all three promises and both invariants: lists taken apart are not empty, what a
surface renders exists and has its image's size. `SubpictureAssumption` says that
rectangles lie in the subpicture and are not empty and that `NONE` is no object.

`ImagesProofs` proves the properties of `Images` for any number of images, buffers and
surfaces. `ImagesInv` (`ImagesInvariant`) says that a live image has a format with a
layout and a buffer it made (`ImageFine`), or has been robbed of it in the one way the
code has (`Robbed`), and that its planes, like the components of
a surface (`SurfacesFine`), are all there or all blank: a transfer can only copy
everything or nothing, which is what makes `ComponentsKept` inductive
(`ComponentsStay`). The wrong order of pointers would break it at `PointersMatch`.
`ImagesOwnBuffers` needs that the failing `vaCreateImage` of a format in the map has
reset the buffer ID before it calls `vdpau_DestroyImage`; one of any other format has
not, and destroys the buffer whose ID its slot has. `PlanesAlwaysFit` is arithmetic: for all widths and
heights, odd ones included, and all alignments `PackedFits`, `InterleavedFits` and
`PlanarFits` bound each transfer by the next plane and the end of the buffer. With an odd
width NV12 reads one byte per row more than its pitch, and only the pitch of the
next row and the rounded size make up for it. It is about surfaces no larger than the
image. `OutputsAreOwned` lets VDPAU give handles again. The error path of
`vaCreateImage` then may destroy the output surface of another image, by the handle an
earlier image left in its slot, and the theorem says that nothing else does and that
it is one at most (`OutputsInv`). None of the three has a hypothesis. `ImagesAssumption` says that sizes are positive,
alignments below 16, and that `INVALID` and `NONE` are no objects.

Only model-checked: `WaitEnds` and `SyncEnds`, since the prover does not reason about
fairness. Every other property of a passing run is the statement of a theorem.

## 5. Not modelled, and why

* The translation of picture parameters field by field, the dumps and traces:
  data without control. `vaMapBuffer` and friends return pointers and have no
  state beyond what `Subpictures` uses.
* The wrappers of `vdpau_gate.c` one by one: each tests its entry of the table and
  passes its arguments on. `Driver` has the table and the test.
* Geometry, textures, colors and matrices of GLX; `vaDeriveImage`, which is a stub.
* Overflow of `width * height` in image sizes: sizes come from surfaces VDPAU
  has accepted.
* The hash map holds two constant tables and is sequential. The asynchronous
  queue and its lists are compiled and never called.
* The surfaces a mixer gets for deinterlacing. `deint_surfaces` keeps the handles of
  surfaces that were destroyed (`vdpau_mixer.c:428`), and neither the code nor the
  VA-API promises anything about them that could be checked.
* A render target that is destroyed while its context lives: `vaEndPicture` looks its
  ID up again (`vdpau_decode.c:1650`) and decodes into whatever surface has it then.
  An application that keeps to the API never meets the case.
* The handles of reference surfaces in the picture info: they can only become
  stale if a surface is destroyed while its context decodes, which `surfaces`
  excludes.
* What a program does after it has read freed memory or written past a block: each
  such place is a step of its own and ends the behaviour (`fault`, `astray`, `lost`
  of `Subpictures`).

## 6. Plan

Done: all modules of section 2, their runs, and the proofs of section 4. What would
extend them:

1. `DecodePicture` and `PutSurface` composed over one set of surfaces:
   `vaSyncSurface` and `vaPutSurface` while a picture is open.
2. `Mixers` composed with the iterations of `ObjectHeap` and unlocked counts, with
   two threads that create and destroy surfaces.

3. Two threads in `Subpictures` and in the counts of `Mixers`, which the code does not
   lock either.

Runs stay at two or three objects of each kind: each hazard on the list needs two
actors and one reused ID.
