# A verification development for IntelIGPU-Tahoe

The repository brings an Intel Alder Lake GPU up under a macOS that no longer
ships a driver for it. It does so with a kernel extension that provides the
framebuffer and a reset workaround, a dormant gate that is opened by hand, a
script that walks through the stages, and a hardware HEVC encoder that runs
inside a vendor service. Most of this is code that touches hardware, processes
or memory shared with somebody else, where the order of events decides whether
the machine keeps a picture.

This directory holds TLA+ modules that model that control flow, the TLC
configurations that check them, and proofs checked by TLAPS. Paths below are
relative to `src/`; `PROJECT.json` maps every definition to its lines.

Contents: [the system](#the-system) ·
[modules and code](#modules-and-the-code) · [runs](#runs) ·
[fairness](#fairness) · [proofs](#proofs) ·
[assumptions about the outside](#what-is-assumed-of-the-outside) ·
[findings](#findings) · [what is not modelled](#what-is-not-modelled) ·
[plan](#plan) · [running it](#running-it)

## The system

| Component | State it keeps | Operations | Meets |
|---|---|---|---|
| **HEVC recovery owner** `hevc-encode-implementation/backend/hevc_recovery.cpp`, `gen12_scratch.c` | the tables of resources, contexts (slots) and deferred ranges, `reservedBytes`, an XPC transaction per active context, one mutex | wrappers of resource create/release, `vm_allocate`/`vm_deallocate`, context create/release; `reims_owned_execute`; the detached recovery worker | the VA driver (its imports are bound to the wrappers), the vendor framework, the GPU |
| **HEVC batch preparation** `backend/prepare_gen12_probe.cpp`, `video_batch_rewrite.cpp`, `gen12_packet_layout.cpp`, the vendored headers under `backend/official-reference/` | the candidate and an array of scratch per call; the driver's own buffers, which it overwrites | converts the packets of a frame and their relocations, allocates and binds scratch, hands both to the owner | the driver's buffers, the owner |
| **HEVC service route** `backend/service-route-20260917/` | bound symbols | loads the vendor library once and rebinds it | dyld, XPC |
| **Framebuffer: flips** `desktop-reset-recovery-20260917/source/desktop-link/intel_framebuffer.cpp`, `flip_state.hpp`, `native_mapping.hpp` | flip state, `front`, `pending`, the proof cache, the DPT mode, pins | `flip`, `itcm`, the 1 ms tick, `setProperties`, `stop` | IntelAccelerator's queue, the pipe |
| **Framebuffer: vertical blank** (same file) | the registrations, the frame counter with `wraps`/`notifiedWraps` | register, unregister, enable, disable, tick, stop, free | IOGraphics clients called back outside the lock |
| **Framebuffer: power, modes, vald** `display_timing.hpp`, `native_layout.hpp`, `native_transaction.hpp` | none of their own beyond the power state | pure functions of registers | IOGraphics |
| **Manual activation gate** `desktop-manual-20260917/fix/manual-gate/gate.cpp` | latches `selfTest`, `requested`, `committed`, the property `DisplayPreparationReady`, personalities it added | `SelfTest`, `PrepareRuntime`, `PrepareDisplay`, `CommitDisplay`, `RemoveRules` | IOKit's catalogue, the desktop link |
| **Desktop link** `ReimsADLDesktopLink.cpp`, `reset_registry.hpp`, `graphics_control.cpp` | workaround property, reset-list registration, the linked route | `PrepareRCSADLP`, `CaptureRCS`, `route` | the accelerator's engines, the framebuffer |
| **Session start** `igpu-start`, `desktop-manual-20260917/fix/session.py`, `runtime_video.py` | a lock file; everything else is read from the registry | preflight, state detection, the cold and the prepared phase, video | the gate (through `control.c`), the publisher, the handoff |
| **Video discovery publisher** `video-decode-candidate/.../publisher.cpp` | properties of the accelerator | publish, restore | the accelerator |
| **Desktop handoff** `desktop-manual-20260917/fix/desktop_handoff.py` | the marker on disk | one run: look three times, save the intent, signal, watch, escalate | WindowServer, the framebuffer's counters |
| **GPU recorder** `desktop-reset-recovery-20260917/collector-v5/` (`recorder.py`, `worker.m`) | rolling files and incident directories; the child worker, its pid line, its lock, pipe and capture files | append, trigger, tick, trim; spawn, read, reap, request; the worker's sampling and captures | the link (`CaptureRCS`), the disk, signals |
| **Backlight** `source/backlight/` | a level | level to duty cycle | the panel's PWM |
| **Command capture** `command_capture.hpp`, `capture_walk.hpp` | none | read-only walks of page tables and command buffers | - |
| **Application libraries** `app-blank-candidate/`, `wechat-menu-tearing/`, ... | none | wrap single entry points of Metal and others | one application each |
| **Build and receipt tools** `scripts/`, `prepare-deferred-runtime.py` | files | offline processing | - |

How they interact. `igpu-start` reads the registry and calls the gate; the gate
adds personalities, IOKit matches the accelerator, the native driver comes up
hidden, the link prepares the reset workaround, `route` gives up the firmware's
framebuffer and attaches the native one, the gate publishes the accelerator, the
handoff ends the WindowServer that is still on the old framebuffer. From then on
IntelAccelerator's queue flips surfaces, the timer tells IOGraphics of each
vertical blank, and the encoder service submits batches under the recovery
owner.

What is hard in it, and what makes each part correct:

* **Owner.** A batch's memory may be released by three parties (the driver, the
  batch that ends, the worker that drains), in any order, while a submission
  that *failed* may still be running on the GPU. Correct means: what the GPU may
  access exists (`GpuSafe`, `LeaseSpec`), everything is freed once and only once
  (`ReferencesExact`, `ScratchOwnedOnce`, `BudgetExact`, `TransactionsExact`),
  a slot has one owner (`OneOwnerPerSlot`), a failure is not forgotten
  (`FailureIsSticky`), and nothing is kept for no reason (`NothingStranded`,
  `ContextReclaimed`, `BatchReturns`).
* **Flips.** The pipe takes the armed registers at an instant the code does not
  see. Correct means: an update counts as shown only when it is
  (`FrontIsOnScreen`, `BufferSpec`, `LatchNeedsBlank`), what is scanned is mapped
  (`ScanoutMapped`), each prepare is completed once (`PinsBalance`), the proof
  cache tells the truth (`ProofsCurrent`), the global tiling mode fits
  (`TiledRouted`), and each flip completes (`FlipCompletes`).
* **Vertical blank.** Callbacks run outside the lock over a snapshot while
  clients leave and `stop` runs: no lost notification, no late callback, no use
  after free, and `stop` ends.
* **Activation.** A run can die while its control tool is inside the kernel; the
  call completes later, next to those of the next run; a GT reset may undo the
  workaround in between. Correct means an order of events (`HandoffOrder`,
  `WorkaroundHeld`, `DoneMeansReady`), each transition once (`CommitsOnce`,
  `PublishedIsFinal`), and that runs end (`RunEnds`).
* **Handoff.** "Never twice in the same boot" across crashes, reruns, a desktop
  that is replaced between looking and signalling, and markers of the previous
  version (`OneDesktopEnded`, `IntentOnDisk`, `VerifiedIsNew`, `RunEnds`).
* **Batch preparation.** A relocation names a DWORD by its index in the whole
  batch, and most packets change their length. Correct means: after the rewrite
  each entry still patches the field it was made for (`RelocsOnFields`,
  `BindingsKept`), each scratch buffer is bound once at its place and owned by
  nobody after a failure (`ScratchBound`), and the result fits the buffers the
  driver lent (`BatchFits`), also when the driver submits them a second time.
* **Recorder.** A daemon that may die between two operations, between the two
  writes of a line, or in the middle of a trigger, a tick, a trim or a start;
  disks that lose what was not synced; retention that deletes while incidents
  are taken, by names that need not sort as the incidents were made. Correct
  means: an incident has the lines before it (`WindowKept`) and after it, but
  for the one line a death may cost (`AfterExact`), and what is deleted is what
  the order of the names says (`Retention`). The sampler is another process, which may be
  stuck in the driver and outlive its daemon: a signal never kills it
  (`SignalsHandled`), requests are answered (`Answered`), captures are not lost
  (`FilesAccounted`), and a worker comes back (`SamplerReturns`).

The hazards, each with its line and the properties aimed at it, are listed in
`PROJECT.json`. Some properties named here are proved and no longer the subject
of a run: `FailureIsSticky`, `LatchNeedsBlank`, `ProofsCurrent`,
`NotificationKept`, `PublishedIsFinal`, `VerifiedIsNew`, `OneSampler`.

## Modules and the code

| Module | Models | Grain of an action |
|---|---|---|
| `HevcRecovery` | the owner: wrappers, `reims_owned_execute`, worker, scratch | one critical section of the mutex, or one native call outside it |
| `HevcOwnership` | its properties and the refinement to `GpuLease` | |
| `GpuLease` | what owned batches promise: nothing on lease is taken away | abstract |
| `HevcRecovery_proofs` | theorems about the owner, its memory and its refinement | |
| `FlipEngine` | the primary plane of the native framebuffer, its pins, proof cache, DPT mode and `stop` | one hold of the state lock; the register writes of `armPrimary` and the steps of `stop` are actions of their own because the pipe does not wait for locks |
| `FlipSafety` | its properties and the refinement to `DoubleBuffer` | |
| `DoubleBuffer` | what a double-buffered plane promises | abstract |
| `Flip_proofs` | theorems about the plane and its refinement | |
| `VblDispatch` | timer, registrations, frame counter, stop | one block under the lock; a callback is two actions |
| `VblDispatch_proofs` | theorems about it | |
| `Activation` | the gate, the link, session start, what IOKit and the GPU do | the parts of a call between two points where other actors can be seen; the gate's lock is held from guard to return |
| `Activation_proofs` | theorems about it | |
| `Handoff` | the script and its marker, the desktop | one read of the registry, one read of the process list with the decision taken on it, one save, one kill |
| `Handoff_proofs` | theorems about it | |
| `Gen12Layout` | the vendored command structs and their constructors | constants only |
| `BatchRewrite` | the preparation of a batch from the driver's submission to the owner's answer | one stage of `prepare`; each scratch buffer is a step |
| `BatchRewrite_proofs` | theorems about it | |
| `RecorderStore` | the recorder's `Store` and the daemon's life around it | one call of the store; a death inside one is an action of its own |
| `RecorderStore_proofs` | theorems about it | |
| `RecorderCapture` | the daemon's `CaptureGate` and child handling, and the worker process | daemon: one statement that another process can see between; worker: one system call |
| `RecorderCapture_proofs` | theorems about it | |
| `MC*` | sets and symmetries for TLC | |

### HevcRecovery

`slots` is the table `contexts[]` (record fields keep the source's names, `held`
and `scratch` are sets), `catalog` the table `resources[]`, `deferred` the table
of ranges. `refs`, `ctxRefs` and `mapped` are the native side: reference counts
and pages. `gpu[io]` is what accepted work of a context may still access: it is
set by a submission *even when the call returned an error*, since
`IOAccelVideoContext...Submit` may fail after the kernel accepted the commands,
and it is cleared only by the GPU. `drops`, `dropping` and `ends` count calls
that the code makes after it released the lock, so that they can come late.
`reims_owned_execute` is `Refuse`, `RejectScratch`, `Reject`, `Acquire` (the
locked part, with each early return), `Submit`, `FinishFence`, `Complete`,
`Fail`, `Spawn`/`SpawnFails`, `EndTransaction` and `Cleanup`; the worker is
`Drain`, `Recover`, `GiveUp`. Bytes are units (`Size`), packets are the set of
resources they name.

### FlipEngine, DoubleBuffer

`surf` is the armed SURF register, `live` what the pipe scans; `VerticalBlank`
copies one to the other at any time. A mapping is an address and a flag `sound`:
whether the page table holds the pages of the descriptor, which is what
`inspect` compares page by page. A resource is mapped while `native` holds it or
the driver pins it; when the last holder is gone the address may be given to
another. `flipSurface` is `flip` with all its exits; the choice of a victim in
the cache by age is a choice among all candidates. Unsigned frame arithmetic is
reduced to the two facts `flip` uses (`newFrame`, `unseen`); the arithmetic
itself is in `VblDispatch`.

### VblDispatch

`Width` is 2^32 in the hardware, `lastFrame`, `wraps`, `notifiedWraps` are the
code's. `snapshot`/`remaining` is the array a tick iterates over. The history
variable `owed` holds clients that were listening when a frame was counted and
have not been told yet.

### Activation

`gate`, `link`, `rcs` and `fb` are the state of the drivers, `call[r]` the call
of run `r` in the kernel, `run[r]` the script. `run[r]` may become `dead` at any
time; `call[r]` stays. Receipts, signatures and every allocation are a choice to
fail. `rcs.saved` is the value the native reset saved: it is written back only if
the register was added to the reset list, which is what `PrepareRCSADLP` is for.
`CaptureRCS`, called by the recorder's worker whenever it looks, refreshes a
property the gate relies on, so it is an action of the model.

### Handoff

A process is its pid and start time: a number that is never reused. A snapshot
is two actions because registry and process list are read one after the other.
`save_marker` is one action: it writes a temporary file, syncs it and renames it.
`signals` is the history of the kills of this boot.

### Gen12Layout, BatchRewrite

A command is the sequence of the *kinds* of its DWORDs: header, address, upper
half, attributes, pitch, offset, data, reserved. The bit fields inside a data
DWORD are abstracted; a DWORD all of whose fields are reserved is `"reserved"`.
A constructor is the length it encodes and the DWORDs it presets. Three facts
about the whole catalogue are assumptions of the module, which TLC evaluates in
the run of `MCBatch`: every encoded length is that of the struct, no two
commands of an engine share a number, and no address starts other than zero.
The presets of the constructors serve these facts only; the properties of
`BatchRewrite` use the kinds and numbers of the DWORDs.

A batch is a sequence of packets (`cmd`, the generation of the encoding, the
packet `from` which it stems, the index `at` of its first DWORD), a relocation a
target index, an access kind, the handle it binds and, as history, the `origin`
it had in the driver's table. `prepare` is, stage by stage, `Check`, `Convert`
(with the row-store entries dropped), `Rewrite`, `Clone`, `Create`/`Created`,
`Rebind`, `Bind`, `BindRows`, `Finish` and `Execute`; `Reject` and `Abandon` are
its early returns before and after scratch exists. `Resubmit` is the driver
submitting its buffers once more after a rejection, as the preparation left
them: untouched, or holding a finished candidate that the owner refused.

The driver's table (`DriverRelocs`) has an entry on each address DWORD that
`prepare` lists for the reconstructed surface and for the two packets of pipe
buffers, on the references and on the statistics: 56 entries, 59 when the row
stores are in memory. The constant `Frames` says what a submission may be like:
how many entries its table may have besides these (`more`) and how many of them
it lacks (`less`), whether the converter supports the frame, the room for
commands and entries, and how far the stated length is off. `MCBatch` gives it
the single departures; the theorems are for every `Frames`, hence for every
table that can be put together from entries on the driver's DWORDs.
`ScratchBound` itself says of an executed batch only what the code's counting
can give: it is restricted to the tables in which the number of entries on the
six scratch DWORDs of the codec engine tells what they are (`CountTells`), see
[findings](#findings). No other entry of the table matters to the restriction.

### RecorderStore

A line is its index in `log`, the history of all lines given to `append`; a file
is a set of lines. `rolling` is the rolling directory, `handles` the open
segment of each kind, `safe` what an fsync has reached. An incident is its
number, in the order they were made, and keeps what it copied (`pre`) and
received (`after`).

An incident also has a `name`: the place of its directory among all names as
`trim_incidents` sorts them. The name is the local time in seconds and
`str(time.time_ns()%1000000)`, which is not padded and restarts every
millisecond (`recorder.py:87`), so two incidents of one second may sort either
way, and local time goes back once a year. The constant `Names` gives each second
the set of names an incident made then may get, in any order; `FreeNames` leaves
out those that are on disk, where `mkdir` fails. `Trim` is the loop of
`trim_incidents`: of the directories other than the least name and the active
one the least name goes, until count and size fit.

The daemon dies in `Kill` between two operations or behind a sync;
`KillInAppend` between the write of a line to its segment and the one to
`after.jsonl` (also the disk full at the second, which leaves `main` by its
`finally`); `KillInTrigger` with any part of the lines copied, or in the trim
behind `event.json`; `KillInTick` with any of the expired segments deleted, or
in the trim; `KillInRestart` in the incident that a start makes. `TrimCut` is a
trim that ends after any number of removals, or with a directory emptied and not
removed. `PowerLoss` takes unsynced lines and may empty copies. A directory that
lost lines in one of the last two ways is `torn`. `Restart` is `main` up to its
loop, which makes an incident of what the last run left.

### RecorderCapture

A slot is a process identifier. `pc` is where its process is: `start` (not yet
locked), `locked` (no handler yet), `armed` (handler, no pid line yet), `loop`,
and the stages of a capture; `Stuck` is inside a driver call that does not
return, where no signal is taken. `pipe` is the unread output of the child.
`scratch` holds the capture files that no incident has; `orphans` is the history
of those whose line died with a process. `Request` and `Send` are two actions:
the checks of `CaptureGate.request` and the `kill` behind them, between which
the worker may exit. `EndDaemon` is a crash or an orderly stop; the worker lives on.

## Runs

States are distinct states found by TLC 2.

| Run | Instance | States | Question |
|---|---|---|---|
| `hevc_shared` | 2 contexts, 2 slots, 2 threads, 1 worker, 1 shared resource | 112,980 | Do two contexts that share memory keep each other's memory, in every order of release, failure, drain? Refinement of `GpuLease`. |
| `hevc_scratch` | 1 context, 2 threads, 3 kinds of resource, 2 scratch, overlapping ranges, 1 deferred range, budget 3, failing unmaps | 588,438 | Is every reference, byte and scratch accounted for on each rejection path? |
| `hevc_live` | 2 contexts, 1 slot, 1 worker, fair | 17,568 | Does a batch return, and is a released context reclaimed unless its completion is unknown? |
| `flip` | 1 tiled and 1 linear resource, 2 addresses, 1 cache entry, fair | 202,252 | Is the plane a double buffer, also while it stops? Does each flip complete? |
| `flip_cache` | 3 resources, 3 addresses, 2 cache entries | 824,240 | Do pins and proofs stay exact when the cache is full and mappings come and go? |
| `vbl` | 2 clients, counter of width 3, 4 frames, fair | 54,069 | Is any notification lost, late, or made to a freed object? Does stop end? |
| `handoff` | 3 WindowServers, 2 runs, 2 boots, old markers, fair | 378,220 | Is one desktop ended per boot, and is the intent on disk first? |
| `activation` | 2 runs, 2 GT resets, fair | 68,086 | Is the order of the hand-over kept by live and by dead runs? Do runs end? |
| `activation_resume` | the same with 1 reset | violation | See [findings](#findings). |
| `recorder` | 2 kinds kept 1 s and 2 s, segments of 2 s, post-window 1 s, 1 line per file, 2 incidents, 3 triggers, 1 crash, names in either order | 2,154,115 | Does each incident keep the lines around it, whatever is deleted, rotated, killed or lost, and does each trim go by name? |
| `recorder_capture` | 2 process identifiers, pipe of 1 line, 1 worker exit, 1 daemon end, fair | 201,149 | Is a worker ever killed by a request? Is each request answered, each capture filed, each worker replaced? |
| `batch` | both frame types and widths, with and without row stores, all single departures from the driver's table, 2 tries | 118,320 | Does each entry of an executed batch patch the field it was made for, and is scratch bound or freed? |

Why the bounds are enough:

* *HEVC.* Every conflict in the code is between two holders of one thing: two
  contexts and a resource, two slots, two threads on one context, a thread and a
  worker. Two slots with one worker make a slot wait for a worker that another
  occupies; one slot with two contexts (`hevc_live`) fills the table. Budget 3
  with sizes 1, 1, 1, 3 makes both the resources and the scratch overrun it.
  Two ranges given back while a batch holds both fill the deferred table of one
  in `hevc_scratch`, and the second is refused; in the other two instances the
  table does not fill, and there a full one is covered by the theorems only.
  `MaxDrain` 2 in the shared and live runs gives a drain that fails and is then
  repeated, and one that gives up; `MaxEnds` bounds only context releases
  that are between unlock and transaction end.
* *Flips.* A resource on screen, one pending and one cached are three; two
  entries and three addresses make an eviction and an address that is reused.
  The tiled run needs one resource of each kind and one entry.
* *VBL.* Width 3 rolls over within 4 frames. A tick is assumed to come before the
  counter is back where it was (2^32 frames: more than two years at 60 Hz);
  the guard of `Frame` says so.
* *Handoff.* A first desktop, its successor, and a third that replaces either;
  two runs in a boot, the second boot with or without the marker file.
* *Activation.* One dead run with a call in the kernel next to one that lives. The
  same properties were also checked with three runs (922,921 states) when the
  module was written.
* *Recorder store.* A segment of 2 s and windows of 1 s and 2 s let a file hold
  lines inside and outside the window at once, the case that deletion by file
  name has to get right; files of one line and an `after.jsonl` of one line fill
  up at the second; three triggers with room for two incidents make a trim
  choose between a least, an active and a middle one; a budget of 4 lines is
  exceeded by two incidents. An incident of second 1 has two names to take, and
  at time 3 local time is back at these, so that a start and a trigger of one
  second, and a trigger after the clock went back, sort before what was there. The theorems are free of the bounds.
* *Recorder processes.* Two identifiers are a worker left by an earlier daemon
  and its would-be successor; a third one would wait for the same lock. A pipe
  of one line blocks a writer at the second.
* *Batch.* The batch has the real lengths of the packets that `prepare` looks for
  or converts, in their order, about 540 DWORDs, and a table of 56 or 59 entries.
  It is shorter than the one recorded in
  `hevc-encode-implementation/backend/test_video_batch_rewrite.cpp:17-37`, which
  has 1266 DWORDs and 57 relocations: more packets lie between those that are
  looked for (`HCP_PIPE_MODE_SELECT` is at 11 there and `HCP_PIPE_BUF` at 26),
  which shifts indices and changes nothing else. A departure adds one entry on
  any DWORD that can take one or removes one; the theorems take any number of
  both. Room for entries and commands is tried around the exact limit. A third
  submission meets the buffers of the second.

`CHECK_DEADLOCK FALSE` is set for `Activation.cfg`, `ActivationResume.cfg`,
`Handoff.cfg`, `Recorder.cfg`, `RecorderCapture.cfg` and `Batch.cfg`: the runs of
the script, the time of the recorder, the exits and the tries are bounded, and
at the bound nothing has to happen. (A worker stuck in the driver may stop
`RecorderCapture` for good; that is real.)

Symmetry is used only in runs without liveness properties: threads, slots and
contexts in `hevc_shared` (no data buffers there), threads in `hevc_scratch`,
resources and addresses in `flip_cache`, where all are linear.

`PROJECT.json` lists for each property a mutant: a change of one definition in
the way a plausible bug would change the code (a guard that is dropped, an error
path that forgets its cleanup, a swapped order) under which TLC finds the
property violated. The mutated forms stand in the modules beside the
definitions, commented `Mutant:`.

## Fairness

* `HevcRecovery`: a thread inside the wrappers keeps running, a native wait
  returns (with an error if need be, each has a timeout), a call that follows an
  unlock is made. The GPU is *not* fair: `BatchReturns` holds if it never
  finishes, and `ContextReclaimed` then ends in quarantine.
* `FlipEngine`: the pipe runs, a flip that holds the lock goes on, and the native
  queue polls `itcm` at each blank it is told of. The tick is not assumed.
* `VblDispatch`: the timer re-arms itself every millisecond while ready and
  callbacks return; `removeEventSource` returns once no action runs.
* `Handoff`: a run takes its next step and the clock moves. WindowServer is free
  never to come back.
* `Activation`: a live run goes on and a call in the kernel is answered. IOKit may
  never match, the driver may never come up.
* `RecorderCapture`: the daemon's loop comes to each of its parts in every turn,
  whatever requests the turn makes: strong fairness of `Spawn`, `Read` and
  `Reap`, because a request in progress disables them again and again. A worker
  outside the driver takes its next step, and the limits of time run out. No
  fairness for requests, anomalies, the start of a daemon, or a driver call.
* `RecorderStore` and `BatchRewrite` are checked for safety only: no step of
  theirs is awaited by anybody.

Crashes, resets and failures are never fair, and never excluded.

## Proofs

Eight modules have theorems, each for every value of the constants. TLC checked
the invariants, or the properties they give, before they were proved.

### The recovery owner

`HevcRecovery_proofs` proves, for every set of contexts,
threads, workers, slots, resources and scratch, every memory layout and every
bound:

| Theorem | States |
|---|---|
| `TypeCorrect` | `Spec => []TypeOK` |
| `OneOwner` | `Spec => []OneOwnerPerSlot` |
| `GpuWorkIsSafe` | `Spec => []GpuSafe` |
| `ScratchHasOneOwner` | `Spec => []ScratchOwnedOnce` |
| `ReferencesBalance` | `Spec => []ReferencesExact` |
| `NothingIsStranded` | `Spec => []NothingStranded` |
| `TransactionsBalance` | `Spec => []TransactionsExact` |
| `BudgetHolds` | `Spec => []BudgetExact` |
| `FailuresStick` | `Spec => FailureIsSticky` |
| `OwnerIsALease` | `Spec => LeaseSpec`, the refinement of `GpuLease` |

They rest on the named assumptions of `HevcRecovery`: that finitely many slots,
resources and scratch exist (cardinalities are counted), threads are not
workers, ranges consist of pages, sizes are natural numbers, and a context's own
data buffers are backed by no range the driver allocates.

None of these invariants is inductive alone. The invariant is

    Inv == TypeInv /\ OwnerInv /\ GpuInv /\ MemInv /\ ScratchInv /\ RefInv /\ CtxInv

* `TypeInv`: types, and which procs have a slot (`AtOK`).
* `OwnerInv`: each slot is sound (a slot that is not busy and has not failed
  holds nothing, an unused slot is empty), no two slots have the same context,
  no two procs the same slot, and `busy`/`recovering` say who it is. It is what
  lets a step assume that nobody else changes the slot it works on.
* `GpuInv`: what the GPU may access is covered by the holds of the context's
  slot, and a slot where the work may still run is busy or failed. This is the
  heart: `GpuSafe` follows because holds are only dropped after a confirmed
  fence or drain, when `gpu[io]` is empty.
* `MemInv`: pages of a held resource are mapped; deferred ranges are disjoint and
  no longer the driver's, so carrying one out cannot unmap what somebody owns.
* `ScratchInv`, `RefInv`, `CtxInv`: scratch has one owner; reference counts are
  the driver's reference plus the number of holders.

The accounts have an invariant of their own on top of it (`AccountsInvariance`):

* `StrandInv`: a slot that is busy, in recovery or given up holds something, it is
  marked released exactly when the driver gave its context up, and a deferred
  range has a holder unless unmaps may fail.
* `TransInv`: open transactions are counted over the finite sets of active slots
  and of procs about to end one. Finiteness is part of it: the set of threads
  may be infinite, and a cardinality says nothing about an infinite set.
* `BudgetInv`: the reserved bytes are the number of rows `(slot, k)`, `k` up to
  what the slot was charged; a step that charges or clears a slot adds or
  removes one block of rows.

The refinement maps every step to a step of `GpuLease` or a stutter: `Submit`
begins a lease, the end of the GPU's work ends it, and every other step only
provides (`ProvideOrDestroy`) or destroys what no lease covers, which is `GpuInv`
again.

Each part has an initial theorem and a step theorem with one step per action;
`Invariance` combines them, and each property above follows from `Inv`.

### Flips

`Flip_proofs`, for any resources, addresses and size of the proof cache:

| Theorem | States |
|---|---|
| `TypeCorrect` | `Spec => []TypeOK` |
| `ScanoutIsMapped` | `Spec => []ScanoutMapped` |
| `PinsAreOwed` | `Spec => []PinsBalance` |
| `ProofsAreCurrent` | `Spec => []ProofsCurrent` |
| `TiledIsRouted` | `Spec => []TiledRouted` |
| `FrontIsTheScreen` | `Spec => []FrontIsOnScreen` |
| `LatchComesAfterBlank` | `Spec => LatchNeedsBlank` |
| `PlaneIsDoubleBuffer` | `Spec => BufferSpec`, the refinement of `DoubleBuffer` |
| `ShownIsKept` | `Spec => []Buffer!ShownIsHeld`: the driver holds the surface on screen, before, during and after `stop` |

    FlipInv == TypeOK /\ PinsBalance /\ ProofsCurrent /\ ScanoutMapped
               /\ TiledRouted /\ Distinct /\ Blanked /\ Owned /\ Aimed /\ Plane

* `Plane` says which surface the two registers hold at each point of an update
  and of `stop`: between updates both show `front`, from the submission on the
  armed one shows `pending`, once latched the live one does too, and after
  `disable` neither shows anything new.
* `PinsBalance` and `ScanoutMapped` need each other: a mapping stays because the
  driver pins it, and a pin is only dropped when its holder goes.
* `Distinct`, `Blanked`: two mapped resources never share an address, so that the
  comparison of SURFLIVE with an address tells which surface is on screen.

The assumptions are that the placeholders are not resources or addresses, tiled
resources are resources, and the cache has a natural number of entries.

### Vertical blank

`VblDispatch_proofs`, for every set of registrations, every width of the counter
above 1 and any number of frames:

| Theorem | States |
|---|---|
| `TypeCorrect` | `Spec => []TypeOK` |
| `FramesAreCounted` | `Spec => []FramesCounted` |
| `NotificationsAreKept` | `Spec => []NotificationKept` |
| `CallbacksAreOwned` | `Spec => []CallbackOwned` |
| `DispatchesInTime` | `Spec => NoLateDispatch` |

    Inv == TypeOK /\ CountInv /\ ClientInv /\ TickInv /\ NotificationKept

* `CountInv`: the software count and the hardware counter differ by the frames
  nobody has looked at, fewer than one turn. The lemmas `ElapsedIsOutstanding`,
  `LookCountsAll` and `FrameCounts` are the arithmetic of `frame + Width -
  lastFrame` modulo `Width`, on both sides of the rollover.
* `ClientInv`: while the framebuffer is ready who is registered is in the list
  that a tick copies, and only listening clients are owed.
* `TickInv`: a callback belongs to a tick that runs and to its snapshot, and a
  tick keeps `stop` from going past `sync`. Hence retained and not freed.

The constants are as small as the code allows (`DispatchAssumption`): a client is
not the placeholder, the width is at least 2.

### Activation

`Activation_proofs`, for every set of runs, of which any may die at any time, and
any number of GT resets:

| Theorem | States |
|---|---|
| `TypeCorrect` | `Spec => []TypeOK` |
| `WorkaroundIsHeld` | `Spec => []WorkaroundHeld` |
| `HandoffInOrder` | `Spec => []HandoffOrder` |
| `OneCommit` | `Spec => CommitsOnce` |
| `PublicationIsFinal` | `Spec => PublishedIsFinal` |
| `DoneIsReady` | `Spec => []DoneMeansReady` |

    Inv  == KernelOK /\ LockInv /\ PrepareInv /\ CommitInv
    Inv2 == Inv /\ LatchInv /\ VideoInv /\ RunInv

* `LockInv`: one call is inside the gate and is where its operation goes. It is
  why nothing moves the gate between a call's guard and its return, whether the
  run that asked lives or not.
* `PrepareInv`: a preparation runs on a hidden accelerator; `ready` means that
  the accelerator is up and the register in the reset list.
* `CommitInv`: a call inside the commit found nothing committed; from `create`
  on, and ever after the firmware framebuffer is gone, the workaround is *held*:
  the bits are set, or the reset in progress has saved them set. `Reset`
  preserves this only because the register is in the list.
* `LatchInv`: what was matched was asked for. Without it a published
  accelerator could meet a first `SelfTest`, which `PublishedIsFinal` forbids.
* `VideoInv`, `RunInv`: a done run has seen `published`, which is final; a run
  that waits has a call of its own.

Of the assumption on the constants the proofs use that `MaxResets` is a natural
number.

### Handoff

`Handoff_proofs`, for any number of boots, runs, desktops and flips, with and
without markers of the previous version:

| Theorem | States |
|---|---|
| `TypeCorrect` | `Spec => []TypeOK` |
| `NeverTwice` | `Spec => []OneDesktopEnded` |
| `IntentComesFirst` | `Spec => []IntentOnDisk` |
| `VerifiedIsAnother` | `Spec => []VerifiedIsNew` |

    Inv == TypeOK /\ MarkerInv /\ SignalInv /\ RunInv /\ VerifiedIsNew

* `SignalInv`: the history of a boot is empty, one TERM, or a TERM and a KILL, all
  to the process the marker names; if it is not empty, the marker is of this
  boot. This is the property made exact enough to be inductive.
* `MarkerInv`: a marker is never of a later boot, and a marker of the previous
  version stands for a signal that was sent.
* `RunInv`: what each place of the script knows: no signal and no marker of this
  boot before `save`; exactly a TERM, to the process that was found stuck, in
  the escalation; `forced` once it has begun. It also makes the types hold:
  only a real marker is rewritten.

Assumed of the constants (`HandoffAssumption`): they are natural numbers, and there
is a first process and a first boot.

### Recorder

`RecorderStore_proofs`, for any kinds of line, retention, limits, and any number
of triggers, kills and power failures:

| Theorem | States |
|---|---|
| `TypeCorrect` | `Spec => []TypeOK` |
| `WindowIsKept` | `Spec => []WindowKept` |
| `AfterIsExact` | `Spec => []AfterExact` |
| `RetentionHolds` | `Spec => []Retention` |
| `EarliestSurvives` | `Spec => [](NamedInOrder => EarliestKept)` |

    WindowInv    == TypeOK /\ Aged /\ Marked /\ Frozen
    AfterInv     == WindowInv /\ Runs /\ OpenIsActive /\ Ended /\ Received /\ Whole
    RetentionInv == TypeOK /\ ByName(incidents) /\ ActiveLast

* `Aged` is what makes a copy of the rolling directory a copy of the window: a
  kept line that is in no file any more is past its window. It rests on the
  lemma `ExpiredIsOld`, that deletion by the *name* of a segment removes no line
  younger than the window of its kind.
* `OpenIsActive`: of the incidents of this run, at most the active one can still
  receive; the others were replaced after their window. Hence `Whole`: none
  misses a line, although only the active one is written, except the line a run
  died with. That line is the last of its run and stays it (`LastStaysLast`),
  which is why a death costs no more than one.
* `ByName`: what was removed sorts behind something on disk, and what outlived a
  younger incident sorts behind it or before all made till then. The lemma
  `TrimByName` shows it of the trimming loop, run to its end or cut short after
  any number of removals, by counting and without an induction over its turns;
  `LeastOnDisk`, that a finite set of names has a least one. Nothing is assumed
  of the order of the names.
* `EarliestSurvives` adds the assumption that the code makes and does not see to:
  if names sort as the incidents were made (`NamedInOrder`), the first incident
  is never removed.

`RecorderCapture_proofs`, for any number of identifiers, pipe length and crashes:

| Theorem | States |
|---|---|
| `TypeCorrect` | `Spec => []TypeOK` |
| `SignalsAreHandled` | `Spec => []SignalsHandled` |
| `OneSamplerOnly` | `Spec => []OneSampler` |
| `FilesAreAccounted` | `Spec => []FilesAccounted` |

    CaptureInv == TypeOK /\ Parent /\ Sends /\ Locked /\ Armed /\ ~killed
    FilesInv   == IsFiniteSet(scratch) /\ ReadyLine \notin scratch /\ Once
                  /\ FilesAccounted

* `Armed` is the argument for the signal: whoever has written anything has
  installed its handler, and the daemon signals only a child that it has read.
* `Locked` makes the sampler one: who is past the lock holds it.
* `Once`: no capture is in the pipe twice or both written and unwritten, so that
  reading a line accounts for one file.

### The batch

`BatchRewrite_proofs`, for both batches the driver builds, any table with any
number of entries besides those of `DriverRelocs` and any number of these
missing, any room, any number of tries:

| Theorem | States |
|---|---|
| `PreparationInductive` | `Spec => []Preparing`, the inductive invariant |
| `EntriesOnFields` | `Spec => []RelocsOnFields` |
| `BindingsNeverLost` | `Spec => []BindingsKept` |
| `ExecutedFits` | `Spec => []BatchFits` |
| `ScratchIsBound` | `Spec => []ScratchBound` |

The first part of the module is about data. `LaidOut`, the layouts of the
commands (`Gen12Layout` builds them with `Times` and concatenation) and
`FlattenSeq` are recursive functions and folds; what they return follows from
one fact, `NaturalInduction`: a *set* of naturals that holds 0 and with each
member its successor is `Nat`. It is proved by finite cardinalities, because the
library's induction takes an operator. Hence `PipeLayout` and `VdencLayout` (the
DWORDs of the two long packets that are addresses), `LaidOutOrdered` and
`Located` (a DWORD is in one packet), and `RebuiltRenewed`: the rewritten batch
holds each packet of the old one once, in order, as Gen12, with what belongs
before it, and each packet `prepare` looks for once.

    Preparing == \E b : Driven(b) /\ Prepared(b)
    Making    == \E b : /\ Driven(b) /\ Prepared(b) /\ ScratchMade
                        /\ CountTells(input.relocs) => Scratched(b)

* `Driven(b)` is what is used of the driver's batch: its packets in order, those
  that are looked for at their places. `Prepared(b)` says, for each stage, what
  the candidate is: the batch itself, then `Rebuilt(b)`; which entries of the
  table it has, each at its new place; that they fit. `client` holds `b` or
  `Rebuilt(b)`, and one that holds `Rebuilt(b)` never gets past `Check`, which is
  why a second try cannot rewrite a rewritten batch.
* From the clones on, every entry is `Fine` (on a field that takes it) and every
  entry of the driver is a `KeptEntry`. Binding scratch changes handles only
  (`ReboundEntry`) and adds entries only (`Adding`), so both last until
  execution.
* `ScratchMade` says which scratch exists at each stage and that whoever returns
  has none left; it holds for every table.
* `Scratched(b)` relates the *number* of bindings to *which* they are. The code
  compares `rebound` with 6, 8 and the number of buffers and never looks
  further. The entries it binds are the driver's on the six scratch DWORDs, so
  `CountTells` of the driver's table carries over to the candidate (`HitsTell`):
  eight or eleven hits do not come, and six are one for each buffer, at its place
  (`HitsCounted`, by a surjection between the hits and 1..6). Then eight are these
  and the two that only Gen12 has, and eleven the row stores as well (`SixBound`,
  `MoreBound`). The table of `DriverRelocs`, any table that lacks entries of it,
  and any that has others besides off the six DWORDs satisfy `CountTells`.

The restriction cannot be dropped: see [findings](#findings).

### Only model-checked

Liveness under fairness (`BatchReturns`, `ContextReclaimed`, `FlipCompletes`,
`ClientTold`, `StopEnds`, `RunEnds`, `Answered`, `SamplerReturns`) is out of the
prover's reach and stays with TLC. Every other property of a passing run is
stated by a theorem.

## What is assumed of the outside

The following is not in the repository and is modelled from how the code uses it
(`"external"` in the map where a definition stands for it):

* The vendor framework and the kernel behind it: reference counts, an error of a
  submission says nothing about acceptance, a drain that succeeds means the GPU
  is done with the context.
* IOKit: catalogue rules are matched some time, or never; a registered driver is
  published; a driver that starts may fail.
* The GPU reset of the native driver saves and restores the registers of its
  list. IntelAccelerator prepares and completes its own resources whenever it
  likes, and moves a resource only when nobody holds it prepared.
* `Attached` in `FlipEngine`: a native `flip` or `itcm` does not come after `stop`
  has begun. `callPlatformFunction` has no guard of its own; IOGraphics
  terminates the accelerator's pipe before the framebuffer stops. The hazard is
  in the list, without a property.
* WindowServer exits, hangs, comes back and flips at any moment.
* The batch and the table that the Gen11 driver builds, as far as `prepare` reads
  them: the packets in the order of the recorded batch, one entry on each address
  DWORD, and any departure from this table.
* The file system keeps what an fsync reached and may lose the rest. `time.time()`
  does not go back while the recorder runs; local time may.

## Findings

`activation_resume`: `docs/DEPLOY-SAME-HARDWARE.md:138` says that the entry
completes, by the state in the registry, whichever of hidden initialisation,
RCS/reset preparation, display commit and VideoDiscovery is not finished. If the
first run stops after the accelerator is hidden and before `PrepareDisplay`
has succeeded (it was killed, or the tool timed out), the next one does not
recognise the state: `runtime_state` (`session.py:129`) requires the link to be
ready for every hidden accelerator and raises otherwise. `gate.cpp` would still
accept `PrepareDisplay`. TLC finds the run in which the script refuses at its
first look. The consequence is that only a reboot helps, which is the documented
fallback; nothing unsafe happens.

A second one came out of the proof of `ScratchBound`, and has no run of its own.
`prepare_gen12_probe.cpp` counts the scratch bindings it makes (lines 181, 190,
206) and takes a count of six, eight or eleven for all of them (line 226). A
table in which one scratch DWORD of the codec engine has two address entries and
another has none makes six hits and is executed with a buffer that nothing
binds; two entries too many make eight, and the two buffers of the encoding
engine are left out. TLC confirms the first with
`Frames = {[Plain EXCEPT !.more = 1, !.less = 1]}` and the second conjunct of
`ScratchBound` without its condition. Nothing in the repository shows the driver
emitting such a table or states that one is refused, so it is no run that
expects a violation; it is the reason for `CountTells`. That condition is exact:
over all tables in which each of the six DWORDs has no, one or two entries, TLC
found, when the module was written, an executed batch bound wrongly if and only
if `CountTells` is false of its table. The other three properties do not depend
on it.

A third one came out of the names in `RecorderStore`. The comment at
`recorder.py:98` says "Keep the earliest incident as well as recent ones". The
code keeps the directory whose name sorts first. Line 87 appends
`time.time_ns()%1000000` without padding, which is no part of a second that
grows: a start that preserves the previous run (lines 121-123) and a trigger by a
`mark.request` left from before (lines 192-193) can make two incidents in one
second whose names sort the other way round, and after local time goes back every
new name sorts before those of the hour before. A trim then keeps the younger one
as the first and removes the earliest. In the run `recorder` this happens;
`Retention` therefore speaks of names, and `EarliestSurvives` proves that the
comment is true when the names are in order.

## What is not modelled

* **Bit fields** that hold no address (`gen12_hevc_cqp.cpp` and the tables of
  QP, lambda and cost): arithmetic of the codec. `BatchRewrite` models which
  DWORDs exist and what is patched into them, not the values of the others.
* **Vendored headers** of the Intel media driver, other than the commands the
  backend builds or reads: definitions for other codecs that nothing uses.
* **Service route**: dyld and symbol tables, done once at load.
* **Power, modes, vald, backlight**: functions of register values, planned as
  `NativeLayout` and `PanelPwm`.
* **Recorder**: the content of a sample line, the watchdog reports, the context
  snapshots and the log child. That a rotated segment is closed without an fsync,
  and that copies are never synced, is in the model (`safe`, `torn`); that the
  size limit is not enforced once only the first and the active directory are
  left is in `Trim`.
* **Command capture, application libraries, build tools**: read-only or
  stateless code, wrappers of one call each, offline file processing.
* **Publisher**: the properties it restores when it is unloaded; the program
  never unloads it.
* The wall clock: `kern.boottime` moves when the clock is set. The handoff model
  keeps one identity per boot.

## Plan

In order of importance. Items 1 to 8 exist; 9 is left.

1. `HevcRecovery` with `GpuLease`: modelled, checked, its safety and the
   refinement proved.
2. `FlipEngine` with `DoubleBuffer`: modelled, checked, its safety and the
   refinement proved.
3. `VblDispatch`: modelled, checked, its safety proved.
4. `Handoff`: modelled, checked, its safety proved.
5. `Activation` (gate, link, session): modelled, checked, its safety proved.
6. `RecorderStore`: modelled, checked, its safety proved.
7. `RecorderCapture`: modelled, checked, its safety proved.
8. `BatchRewrite` on `Gen12Layout`: modelled, checked, its safety proved (the
   binding of scratch where the count tells, see [findings](#findings)).
9. Pure functions of registers, each against a reference definition over bounded
   inputs: `PanelPwm` (`pwm.hpp`, `parameters.inc`) and `NativeLayout`
   (`native_layout.hpp`, `display_timing.hpp`). They keep no state between calls,
   which is why they come last.

## Running it

    tlc -workers 2 -config Flip.cfg MCFlip     # any run of the table
    tlapm BatchRewrite_proofs.tla              # any module *_proofs, minutes each
