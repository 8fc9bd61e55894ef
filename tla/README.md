# NAMFX in TLA+

A model of the NAMFX audio engine: how the user interface and MIDI, which run on
the message thread, change what the audio thread plays without stopping it; how
presets, backups and settings survive files; and the buffers of the modules that
remember sound.  TLC checks the modules on small instances; TLAPS proves, for every
size, the parts that several threads share, the edits, the controllers and their
file, the backups, the settings, and the buffers whose positions are integers.

The system is a C++17 engine (`src/core`) in a JUCE application
(`src/desktop`).  It has three threads that matter:

| thread | enters through | does |
|---|---|---|
| audio | `EngineHost::process`, once per block | takes a waiting chain, plays it, applies a recalled scene, queued commands and control sources |
| message ("control") | everything else: presets, edits, knobs, scenes, MIDI (posted with `callAsync`) | builds chains and binding tables, pushes commands, recalls scenes |
| device | `EngineHost::prepare` | block size and rate, while the callback is stopped |

They share no lock with the audio thread.  What crosses over: two atomic
pointers (`AudioGraph`), one atomic pointer and two rings (`ControlRouter`,
`SpscQueue`), atomic values and heartbeats of the control sources, and the
scene bank with its two atomic indices (`SceneEngine`).  `chainMutex_` only
serialises the control thread with the device thread.

## Inventory

| component | state | operations | hard part | what makes it correct |
|---|---|---|---|---|
| `audio/SpscQueue` | ring, two free-running counters | push, pop | two threads between load and store; counter wrap | a bounded FIFO, no racing element access |
| `audio/AudioGraph` | `pending_`, `retired_`, two slots, index | requestSwap, processBlock, destructor; current (not called) | every interleaving of exchanges and deletes | one owner per chain; an atomic exchange; the newest chain exists and gets to play |
| `audio/Chain` | per slot: bypass, mix, fade, parameters | process, startFadeIn, setBypass/Mix/ParamByIndex, reset | reversal in mid-fade, swap in mid-fade | no pop; bypass takes effect |
| chain editing (`chain_builder`, `EngineHost`) | the list of slots | load, add, remove, move, moveTo | ids against positions; a refused edit | an edit changes what it says and nothing else |
| `audio/ControlRouter` | binding table, pending values, sources, queues | bind, unbind, uiSet, uiSetBypass, setSourceValue, apply | table reclamation; relaxed accesses; stale indices; hang time | tables alive while read; values reach their own parameter and none is lost |
| `audio/SceneEngine` | scene bank, pending and active index | load, recall, apply | load against apply; chain changes underneath | what is shown as active is what plays; the newest recall wins |
| `audio/ParamStore` | value, target, ramp per parameter | set, setImmediate, advance, setSampleRate | restart in mid-ramp, new rate | reaches the newest target |
| `audio/OutputStage` | mute flag and gain, filters | setMute, process, prepare | mute hand-over | silent after mute |
| `midi/MidiRouter` | bindings of controllers, used sources, 14-bit halves | learn, clear, bindScene, setChain, handleEvent | relearning, clearing after an edit | one controller per source; a controller moves what it learned and nothing else |
| `preset/atomic_write`, `preset/backup` | the versions of a preset, temporary files | save, restore | a crash or a failure between any two file operations | no version is torn; what was saved can be restored; the newest are kept |
| `preset/preset_io`, `migration` | registered migrations, the document in the file | loadPreset, savePreset, registerMigration, migrate | strict and tolerant rules; clamping; order of registration | what was loaded saves and loads back; a migration takes nothing away |
| `preset/export_import` | a directory with a preset and its assets | exportPreset, importPreset | assets copied one by one under bare names | a package that was reported whole is whole anywhere |
| `platform/rt_alloc` | guard flag, violations and failpoint | ScopedAllocGuard, allocate, armOomFailpoint | nesting; threads that count and disarm | the nth allocation fails and no other; guards tell the truth |
| `modules/ir` | chunks of a file, partitions, ring positions | readWav, load, process in blocks, reset | cut files; block sizes that do not divide; cut history | every product once; a file whole or not at all |
| `modules/nam` | two resamplers, an output queue | prepare, setTier, process, reset | rates that do not divide; the queue's shift | every block fits; the latency is constant |
| `modules/dsp` | delay lines, reverb buffers, the pitch shifter's ring | process, reset | positions at the ends of a buffer | reads what was written that long ago; nothing from before a reset |
| `dsp/tuner` | the window, the shown and held frequency | push, detect | stability compares with an average | the held note is shown; no other is called stable |
| `desktop/EngineHost` | block size, chain, scenes; ties the above together | prepare, loadPresetText, edits, saveScene, process | prepare against load; refused scenes | a chunk never exceeds what the chain was prepared for; scenes shown are scenes recalled |
| `desktop/App` | list and file of controllers, settings file, mute and warm-up, user interface | learning, clearing, start-up, device change, saving and loading settings | the list beside the engine; files that are appended to; saving while loading | the list covers what is bound; the files bring it back |

`PROJECT.json` lists the hazards at their lines.  The one without a property says
why: the preset file that `savePreset` writes in place (a crash tears it, so there
is nothing to hold).  Where the code does go wrong in a part of a hazard, its property
holds of the rest, and the hazard's note says what is cut away.

## Modules

```
SpscQueue      -> BoundedFifo       (refinement, proved)
AudioGraph     -> ChainExchange     (refinement, proved)
ControlRouter   uses: queues as BoundedFifo, chain change as ChainExchange
SceneEngine     uses: chain change as ChainExchange
EngineHost      extends ChainEdit    (presets, devices and scenes over the edits)
Chain           extends ParamStore   (one chain's sound and its parameters)
OutputPanel     extends OutputStage  (mute: the application over both threads)
MidiLearn       extends MidiRouter   (learning and the file, over the bindings)
Handovers       extends SpscQueue, AudioGraph; an instance of SceneEngine
Playing         extends Chain, OutputPanel
ControlThread   extends EngineHost, MidiLearn
Settings                             (the settings file)
Backup         -> BackupStore       (refinement, proved)
PresetFiles     extends PresetIo     (a preset on its way, over what a file may hold)
NamAmp          uses: StreamResampler, twice
CabIr           uses: WavFile
DelayEffects, PitchShifter, Tuner, RtAlloc
Parts           extends Backup; instances of SceneEngine, RtAlloc, Settings,
                PitchShifter, NamAmp, Tuner, DelayEffects, CabIr, PresetFiles: their
                properties and assumptions
MC*             constants and symmetry for TLC; MCParts extends Parts by what only
                TLC checks and chooses which of ten parts runs; MCTuner has the
                notes of `tuner_low`
*Proofs         TLAPS proofs: HandoversProofs those of ring and graph, PartsProofs and
                PresetProofs those of the instances of Parts
```

`Handovers`, `Playing`, `ControlThread` and `MCParts` put parts side by side that share
no state: each behaviour follows one of them while the others stay as they are, since no
property relates two of them.

Where one module uses another's abstraction, the abstraction is what the
refinement theorem of that component justifies: a queue is a sequence, a
requested chain becomes live in one step at the start of a block.

**SpscQueue** (`spsc_queue.h`).  One step per atomic load or store of `push`
and `pop`, and one for the element access between them.  `WordSize` is the
number of values of `size_t`, so the counters wrap; all that is assumed is that
`Capacity` divides it, which the `static_assert`s give.

**AudioGraph** (`audio_graph.cpp`).  One step per exchange, slot write and
delete of `requestSwap` and `processBlock`, and the destructor once the callback
has stopped.  `alive` is the heap; identities come back after a delete, so an
ABA would show.  `newest` is the pointer `EngineHost` keeps and edits through.

**ChainEdit** (`chain.cpp` constructor, `chain_builder.cpp`,
`engine_host.cpp`).  A chain is its sequence of slot ids and modules.  An edit is
one step: snapshot, change, construct, hand over.  A constructor that throws (an
asset that does not load) is `Refuse`.  The constructor's sort is said without
sorting: slot ids are unique, so a slot's place is the number of slots below it.

**EngineHost** (`engine_host.cpp`).  `prepare` is two steps, the sizes outside
`chainMutex_` and the chain under it; `loadPresetText` is two, what it reads of the
size and the rest, so a prepare may come between.  A preset may be refused, be
played with its scenes or be played without them.  `process` cuts a callback into
chunks.  `raced` says that a whole prepare ran within a load; the model stops there.  The master
bypass is not modelled: the model is of an engine that is not bypassed.

**Settings** (`nam_editor_app.cpp`).  A session that saves the panel and the start
after it.  Loading goes line by line; the Mute button saves as it is set.

**Chain** (`chain.cpp`).  Fade, bypass and mix.  Slots do not interact in this
part, so one slot is enough.  A sample is not modelled: `fade` is dry, partial
or wet and `fadeRemaining` counts down; `heard` is what the last block let
through.  An edit is two steps of two threads: `Snapshot`, on the control thread, reads
the flags and values of the chain that plays, and `LandEdit`, at the start of a later block,
replaces it; in between it goes on playing, ramping and being set.  A preset that is
loaded lands likewise.  `coming` says what is on its way.  `restart` remembers a swap or a
reset since the last block, `settled` the slots whose bypass flag was acted on in this
chain, `dialed` what was last asked of a parameter, `lost` the parameters whose newest
value the coming chain does not have and `cut` those an edit that landed took a value of
that was not the one asked for; these are history that only the properties read.

**ParamStore** (`param_store.cpp`).  The stores of a chain's slots advance
together and are one.  `remaining` counts a ramp's samples exactly; the value is
one of a few levels and in mid-ramp anywhere between its ends, which covers
whatever floating point makes of the step.

**OutputStage** (`output_stage.cpp`).  The mute.  `setMute(true)` is two stores,
and the audio thread may keep the gain in a register for any number of samples,
so either thread may overwrite the other's gain.  The exponential smoothing is
a fade of `Full` levels; level 0 is silence.

**OutputPanel** (`nam_editor_app.cpp`).  The Mute button, the start-up, the two
ways to change the device and the timer, on the message thread; the clock and the
audio thread go on between their steps.  The device manager (external) waits for the
last callback before it restarts the device.  `age`, `userUnmuted` and `wraps`
are history that only the properties read.

**ControlRouter** (`control_router.cpp`).  `apply` is split at everything the
control thread can come between: each command popped, the table check, each
binding.  `setSourceValue` is two relaxed accesses that may show in either order
(`SpeakValue`, `SpeakBeat`; `BeatEarly`, `ValueLate`); a late one shows by the
next block.  Tables are identities with contents; deleting removes one from
`bindings`, so reading a deleted table is an error of TLC and a violation of
`TablesAlive`.  `since` is the difference of ticks counted in blocks.  A module
has one parameter.  `heard`, the newest heartbeat of each source that a parameter ever
followed, and `unseen`, the parameters not yet looked at under the table just taken, are
history that outlives the tables, unlike `lastHeartbeat`.

**SceneEngine** (`scene_engine.cpp`, `engine_host.cpp`).  `load` is three stores
in the code's order, `apply` the exchange, the actions and the store of the
active index, in the place `EngineHost::process` gives it between the landing
of a chain and the router.  A module's parameters and bypass flag are one
setting.  The control thread may load, save, recall or rebuild the chain at any
point of a block.  A preset whose scenes are refused changes the chain and leaves
the bank; an index the bank no longer has ends the program (`thrown`).  `claim` is
history that only `ActiveIsInForce` reads: `void` when the bank was loaded during a
block or with a recall waiting, or is not that of the chain, until a scene is applied
while the bank is that of the chain; `touched` when the router changed a module since
the last scene; else `kept`.  Slot ids may have gaps and a module may be there twice: a
slot id is resolved by the first module of the name, as the code does, and one past the end of the
chain's count is dropped by `apply`.

**MidiRouter** (`midi_router.cpp`).  One operator per operation.  Of
`ControlRouter` it keeps what `bind` and `unbind` answer: a parameter has one
source and the table is limited.  A parameter is a module and an id; which are
there depends on the chain.  The value an event carries is left out (the 14-bit
pair needs a second byte that only `data3` of the same event could bring).
`relearned` is history for `MovesNothingElse`.

**MidiLearn** (`nam_editor_app.cpp`).  The application over `MidiRouter`'s
operations: begin to learn, the controller that is moved next, clearing one
controller after the other, and the file.  `juce::FileOutputStream` (external)
writes behind what a file already holds.  `Restart` may come at any point, also
between two cleared controllers; the file is then read line by line against a
fresh engine with the chain of the first preset.

**Backup** (`backup.cpp`, `atomic_write.cpp`, the POSIX branch).  One step per
file operation of `save` and `writeAtomically`; each may fail, the process may
end (`Crash`) and the power may go (`PowerLoss`) between any two.  The file
system is external: a directory's changes reach the disk in order, at the latest
when the directory is synced, and a file's data is only sure to be there once
the file was synced.  `mayFind` is the set of directories a loss of power may
leave.  A content is the number of the save that wrote it.  `BackupStore` is the
promise: numbered versions, only the newest added, never the newest dropped.

**PresetIo** and **PresetFiles** (`preset_io.cpp`, `preset_model.cpp`,
`migration.cpp`, `export_import.cpp`).  `PresetIo` has the rules as functions: what a
document may hold (each field absent, of the wrong type or a value), what Strict and
Tolerant make of it, what is written, the walk over the registered migrations, and
what export and import copy and prefix.  `PresetFiles` takes one preset through
them in any order; saving may leave the file torn, and so may an export, which does not
look at what its stream says (`written`).  The name of a scene is the bytes of its characters,
each with what is still to follow of the character: cutting eight of them may cut a character, and then `dump`
throws (`CanDump`; nothing is saved, `ExportThrows`).  The built-in migration is registered
when `migrate` first runs (`WithBuiltin`), which may be after another.  The module also names what a document and a
preset may be made of (`Documents`, `PresetDefs`).

**StreamResampler** and **NamAmp** (`resample_stream.h`, `nam_amp.cpp`).  Which
samples a resampler holds and gives; the amplifier runs one in each direction and a
queue behind them.  Samples are counted, not computed; rates are integers and the
places of samples their exact quotients.

**WavFile** and **CabIr** (`wav_io.cpp`, `cab_ir.cpp`, `partitioned_conv.h`).  A file
is a list of chunks, of which the last bytes may be missing.  A value of the
convolution is the bag of the products it is the sum of, so that one product too
many, missing or late shows.

**DelayEffects** (`bbd_delay.h`, its users, `hall_reverb.cpp`).  A cell has the age
of what was written to it and says whether that was before the last reset.

**PitchShifter** (`pitch_shifter.cpp`).  Positions in parts of a sample, `Unit` to
one; the smoothed ratio takes any value of an octave either way.  `hurried` says that a
fade began, or went on, with less room than its way; the model stops there.

**Tuner** (`tuner.cpp`).  From an autocorrelation, any function from lags to levels, to
what is shown and called stable.  Where no lag is found the code reads before its arrays;
whatever is there, the frequency that comes of it is not above zero (`Frequencies`).

**RtAlloc** (`rt_alloc.cpp`, as built for tests).  One step per atomic access of the
failpoint; each thread's guards are a stack.  `under` remembers what happened under guards
that are closed by now; only the property reads it.

## Runs

Every property of a passing run has a mutant in the module it is about, a
definition marked "deviation", which makes TLC report the property violated.

| run | question | bounds |
|---|---|---|
| `handovers` | FIFO, race freedom and progress of the ring; ownership, refinement and progress of the exchange; the newest of overtaking recalls is applied | capacity 2, word 8: all counter positions and wraps; 6 chains, no symmetry (liveness); 1 module, 2 scenes |
| `graph_audio_delete` | finding | 6 chains |
| `router` | tables, own parameter, UI values, hang time | 2 modules, 1 source, 3 tables, 2 bindings, 1 heartbeat; chains of both modules and of the first alone |
| `router_live` | source values and queued values land | 1 module, 1 source, 2 heartbeats, 1 bypass |
| `router_retakes` | finding | as `router` |
| `playing` | fades and ramps end where they should, no pop, bypass and parameters land; mute, warm-up, timer, both threads' gain | rates of 2 and 3 samples for a fade or a ramp, blocks up to 2: ends inside, at and beyond a block; 2 levels and one beyond at each end; a mute's fade of 2 levels in blocks of 2 samples, a clock of 8 ticks, a warm-up of 3 (2 at the start) |
| `fade_silent` | finding | as the chain in `playing` |
| `edit_reverts` | finding | as the chain in `playing` |
| `control_thread` | chains legal and prepared for every chunk, scenes that agree, exact edits; bindings, list and file through learning, clearing, edits and restarts | 2 modules, 3 slots (every pattern of gaps), block sizes 2 and 3, callbacks of 7, 2 scenes; 2 controllers, 2 parameters (one not in the first preset), 1 scene, 2 sources, 5 lines in the file |
| `parts` | ten parts that share no state; `Init` chooses one | below |
| `settings_loop` | finding | 2 positions, 2 saves |
| `tuner_low` | finding | lags 2 to 6, a note in range and one below it |

The run `parts` takes one of ten parts from its own initial states; a part's property
is about the behaviours in which it runs.  The parts and their bounds:

| part | properties | bounds |
|---|---|---|
| backups | `BackupSafety` (`BackupInv`, `LastBackupSurvives`), `KeepsTheNewest`, `ImplementsStore` | 2 versions kept, 4 saves |
| scenes | `ActiveIsInForce` | 2 modules, 2 settings, 2 slots, 1 scene; presets of both modules or the second alone, with no scene, one of their own, one of a module they lack, or too many |
| presets | `PresetsSurvive`, `OldPresetsStillLoad` | documents with every kind of wrong field in a slot, scene names that loading cuts at a character and within one, schemas up to 2, 2 migrations registered before or after the built-in one, exports written or not |
| amplifier | `NamInv`, `WindowsAreHeld` | windows of 2, rates 2 to 4, blocks of 1 and 3, 12 samples, 2 tiers |
| cabinet | `CabIsExact` | blocks and the direct limit of 2, responses up to 6 samples, files cut by 2 bytes or none |
| delays | `DelaysAreExact` | sample rates 10 and 60, all six effects, sample by sample |
| pitch | `TapsStayBehind` | halves of a sample, a crossfade of 4 samples; ratios 0.5, 1, 1.5 and 2, changing at any sample |
| tuner | `TunerInv` | windows of 4, lags 2 to 32, notes at lags 2, 3 and 16, notes out of range with and without a lag that is found, noise and silence; settled after 11 detections, 2 changes of sound |
| allocation | `RtAllocInv` | 2 threads, 2 guards each, 2 armings for the first or second allocation |
| settings | `RestoresTheLast` | 2 positions, 3 saves |

Properties that have parts: `RingSafety` is `RingInv` and no data race,
`GraphSafety` is `GraphInv` and `NewestIsAlive`, `RouterSafety` is `RouterInv` and
`NoForeignUiValue`, `ChainInv` is `FadeInv` and `DialedIsKept`, `BindingsAgree` is
`MidiInv`, `ListIsComplete` and `BoundIsSaved`, `MuteHolds` is `SilentWithinAFade` and
`MutedWhenItShould`, `HostInv` is the legal chain and `ScenesAgree`.  `EditsAreExact`
says what adding and removing do to the sequence of modules and, also for chains with
gaps, that a module that was added is played behind all others.

Why the bounds are enough.  The ring's behaviour depends on the two counters
only through their difference and their remainders, which all occur.  The
graph never owns more than six chains at a time (TLC finds no seventh with
eight identities), so six are all there is to see.  The router's tables are in use in
at most three places at once (`table_`, the one the audio thread reads and one handed
back), and `Tables` limits how many changes run ahead of `Recycle`; the proofs have
any number.  `MaxBeats` and `MaxBypasses` cut behaviours, never a single reaction: a
property tells apart at most two heartbeats.  `MaxTicks` is larger than the hang time
and differences beyond it are alike.  A fade is a count to zero and slots do not
interact in it, so one slot and three samples in blocks of two have every order of
"still to run", "ends in this block" and "ended"; so have the ramps, at the second
rate.  The panel's clock wraps at every phase of a wait; a mute falls at every sample of a
block, so its fade ends within a block and beyond it.  Two scenes are the least for a recall to
overtake another that is not the same.  Two modules are enough for an edit to move one of them and for
a scene to name one that is gone; a callback of 7 has full and partial chunks for both
block sizes.  Two controllers and two parameters are the least for a source or a
parameter to be disputed, and five lines hold two saves of both bindings and one
more.  Four saves prune twice and leave room for a temporary file of a crash.  Two
migrations are the least that form a chain, a detour or a conflict with the built-in
one.  The amplifier's rates divide each other, do not, and are equal, and twelve
samples shift its queue several times.  A response of up to six samples has no, one
and two partitions behind the first, the last one whole or not.  The delays' rates
give lines from shorter than a block to many blocks.  The tuner's notes are less than an
octave and three octaves apart.  An inner guard of each thread and a second arming are
the least for nesting and for an arming to be overwritten.

Conditions a property carries, each because the code does not promise more (see
the next section):

* `ActiveIsInForce` is about a load that no block interrupts and with no recall waiting,
  a chain that was not edited since the bank was loaded, and scenes nothing was changed
  of since (`claim = "kept"`).  The claim is back when a scene is applied while the bank is that of
  the chain.  Slot ids past the end of the chain's count are not set.
* `EditsAreExact` is about chains without gaps in their slot ids, but for where a new
  module is played.
* `ChunksFit` leaves out a whole prepare within a load (`raced`), where the model stops.
* `ScenesAgree` leaves out scenes that were rejected, edits that took a module away
  that a scene may name, and gaps in the slot ids.
* `PresetsSurvive` is about modules the registry knows, scene names that were not cut
  within a character (`CanDump`) and, where files must be found again, absolute paths
  and assets of different names.  An export that reports success may have left a torn
  `preset.json`; the property says that its import is then refused.
* `OldPresetsStillLoad` leaves out schema 0 from the moment a step from it is registered
  before `migrate` has run once (`BuiltinIsLate`).
* `ReleasedUntilHeard` allows, besides a heartbeat that is new, the first look at a
  binding under a table that was just taken (`unseen`); `router_retakes` shows what that lets
  happen.
* `TapsStayBehind` holds until a fade has no room (`hurried`): because the ratio rose in it
  or just before it, or because it was held at an octave up.
* `RtAllocInv`: an arming the plain store of the failure before it overwrites (`lost`)
  fails nothing.  A guard that says it was violated is right; one that does not say so
  may be wrong because a guard inside it put its violation back (`PutBack`), or because a
  guard outside it was violated before (`Before`), and for no other reason.
* `RestoresTheLast` is about files in which Mute was never on; `settings_loop` shows
  why.
* `TunerInv` asks that a note be shown as stable only where a lag is found for it
  (`InRange`); that nothing else is shown as stable it says of every sound.
* `DrivesItsOwnParameter` and `BoundParameterFollows` are checked with edits that
  leave the remaining modules in their slots (`Steady`).
* `MovesNothingElse` holds until a controller is learned for a second parameter
  (`relearned`).
* `SavedIsRestored` is about files that name a controller and a parameter once
  (`Consistent`): appending makes others.
* `LastBackupSurvives` is about saves whose directory was synced (`onDisk`), and
  `KeepsTheNewest` allows each temporary file a crash left to cost one version.
* `DialedIsKept` leaves out a parameter an edit caught in mid-ramp and one that was set
  between an edit's snapshot and its landing (`cut`); `edit_reverts` is about the latter.
* `MutedWhenItShould` and `ComesBack` leave out a wait in which the millisecond
  counter wraps (`wraps`), and the former a Mute button that is switched off
  while the device warms up (`userUnmuted`).  The settings file is taken to set the
  button once (see `Settings`).
* `BypassTakesEffect` is about slots whose bypass was toggled in this chain
  (`settled`).

## Fairness

* The device calls back: weak fairness of the audio thread's steps, in every
  module with liveness.  The audio thread is never blocked by the control
  thread, so it always has a step enabled or waits for the next block.
* A control call that has begun runs to its end (`requestSwap`, `bind`'s
  clean-up, the second access of `setSourceValue`).
* `ControlRouter`: strong fairness of leaving the loop that drains the
  commands.  The loop of the code would run for ever if the UI pushed as fast as
  it pops; clicks do not.
* `OutputPanel` (in `Playing`): time passes and the timer, which fires every few milliseconds, is never
  late by a tick of the model's clock once the message thread is idle.
* `Settings`: loading goes on; saves only happen as loading makes them.
* Nobody has to load, bind, speak, toggle or recall anything.

## What is proved

TLAPS checks, for every value of the constants that satisfies the named
assumptions:

* `HandoversProofs`, the ring.  `RingInv` is inductive as it stands: besides the types it
  says what each thread's local counter means to the other (`pushTail = tail`,
  room while the producer writes, something to take while the consumer reads,
  the element copied is the element in place).  `RaceFree` follows from it by
  the lemma `SlotsDiffer`: two counters less than a capacity apart are at the same element only if
  they are equal, also across the wrap, which needs `Capacity` to divide `WordSize`.
  `RingIsFifo` maps every step to a step of `BoundedFifo` or a stutter; the work
  is in the three lemmas on what each publish does to the sequence `Contents`.
* `HandoversProofs`, the graph.  `GraphInv` has one owner for each existing chain among all
  shared places and local variables.  The proof treats places as a function
  `Held` and shows that moving, creating and deleting keep `OneOwner`; each
  action is one of the three.  The strengthening is what the local variables
  imply (`LocalsOK`: the slot the audio thread writes is the one that is not
  current) and where the newest chain can be.  `NewestAlive` says that the
  pointer `EngineHost` keeps is never dangling, and `GraphIsExchange` that the
  scheme implements `ChainExchange`.

* `MidiLearnProofs`.  First, `MidiInv` is inductive over the operations of `MidiRouter`:
  a new binding takes a source nobody has (`SourceIsFree`), and clearing one
  controller cannot remove another's parameter because the two have different
  sources.  `MovesNothingElse` needs the strengthening `Learned`: as long as no
  controller was learned for a second parameter, all the router has bound some
  controller learned.  Then, every step of the application is a step of `MidiRouter`, none,
  or a restart (`StepsOfMidi`), which carries the two invariants over to it.  `LearnInv`
  adds that while clearing, what is still bound is still to come, and while loading,
  what is still to come is in the file (`TodoOK`); `ListIsComplete` and `BoundIsSaved`
  follow.  `SavedIsRestored` needs that nothing a line does is undone or refused later
  (`RestoreInv`): a later line of the same controller is the same line, and a source and
  a place in the table are left because all that is in use is from other lines of the
  file, of which `Consistent` allows no more than there are sources (`FewerWithout`).
* `PartsProofs`, the backups.  `IInv` adds to the properties what holds at each step of a save:
  while the new version is written it is above every name there is, what is renamed was
  synced before, and once the directory is synced every directory a loss of power may
  leave has the new version.  That the next number is above all others needs that a bounded set of
  numbers has a largest (`MaxExists`, by well-foundedness).  Temporary files are no
  versions (`TempIsNoVersion`), so all steps but the rename, the syncing of the
  directory, the pruning and a loss of power are stutters of `BackupStore`.
  `NewestAreKept` needs more (`KInv`): versions and the saves that wrote them ascend
  together (`Ascends`), and while a save prunes, each name it has listed is still
  there, except the next to come where a temporary file of the same version was removed
  in its place (`StillListed`).
  That enough are left is counted by injecting what must be kept into what is there.
* `PartsProofs`, the scenes.  `SceneInv` says what the active index means at every store
  of `load` and `apply`.  Chains stay sorted (`ChainsSorted`), so that a slot id that
  has no gap below it names one place; indices are of the bank unless a load is under
  way (`Indexed`); the bank is that of the chain and the definitions unless the claim is
  void (`BankBelongs`), which is what has to be seen again for it to be renewed; a load that keeps the claim began between two blocks with no
  recall waiting (`LoadedBetween`); and from `apply` to the store of the index the scene
  of that index is played, afterwards that of `active_` (`ActivePlays`).
* `PartsProofs`, the allocation guard.  `CountOK` says that what is left of the failpoint
  is what was armed less what was taken, unless an arming was lost; `StackOK` that each
  guard found, when it was opened, what the guards around it had noted (`SeenUpTo`).  A guard
  that says it was violated has a guard from it on with a violation of its own, which is an
  allocation since it was opened; one that does not has none, or one around it has.
* `PartsProofs`, the settings.  What was saved last is at the end of the file
  (`EndsWithSaved`), whatever is before it, and what was read of that end is in place
  (`ReadSoFar`).
* `PartsProofs`, the pitch shifter.  `Position` relates the two ring positions to the
  distance between them, `lag`.  `Room` says that out of a fade the tap is far enough
  behind for a whole fade at its ratio, and `InFade` how far both taps still are at each
  sample of a fade; the window of six crossfades and 16 samples is what makes a jump land in it.
  At an octave up a fade leaves a sample less room than it found (`Outruns`): there `Room`
  claims nothing, and a fade has its room because it is not `hurried`.
* `PartsProofs`, the amplifier.  `Streaming` says that both resamplers have given what
  was due of what they got (`DueOf`, a quotient rounded up), that the first holds its
  history, and that what is queued is what came back less what was taken of it.  What is
  due of n samples more is less than their length at the other rate and one
  (`DueGrows`), and what came back is never behind by more than the two windows, nor
  ahead (`BackFacts`); so what may wait in the queue and a block's output are no more
  than half the queue and a sample (`HalfIsEnough`), which is what is left of it when
  `Compact` has not moved it yet (`QueueHasRoom`).  `WindowsAreHeld` is
  `WindowIsHeld` at each block.
* `PartsProofs`, the tuner.  A detection moves what is shown to three fifths of the way to
  the note, so what is left of the way after `k` of them is at most `Far[k]` (`OnNote`):
  however far the note before was, it comes within a sixtieth, from where each next detection
  is near the last (`CloseIsNear`) and three of them are stable; and what is near the last
  is within one percent of the note (`NearIsRight`).  A sound without a lag in range is
  shown with a frequency below zero, and so is never near the last
  (`OutOfRange`).  That `Far` is the function its
  recursive definition asks for is proved by taking the least number at which it would
  not be (`FarIs`).
* `PartsProofs`, the delays.  `LineOK` says how old each cell of a line is by its distance
  from the write index (`AgeAt`), and that it is empty where that is before the last
  reset.  Writing keeps it although the index wraps (`WrittenIsOK`), a place and the cell
  behind it are inside the line because no delay is longer than what the line was
  prepared for (`PlacesFit`), and the cell a comb reads is the oldest (`OldestIsExact`).
  That nothing is from before a reset is part of the same invariant: all sound is of now.
* `PartsProofs`, the cabinet.  `DirectOK` says which sample each element of the short
  convolver's buffer holds by its age.  For the long one `PartOK` gives its whole state
  after n samples: each place of the ring holds what is still to come of the sample it
  will give, the products of the taps from the next partition on (`Waiting`), by how far
  it is behind the block's own place (`BehindBy`).  A full block adds to every place just
  the products of the one partition that meets it there (`ShareIs`); what is then at
  the block's own places is complete and given, and the ring is two blocks longer than
  the response, so that a place that is cleared has nothing to come (`ClearedIs`).  For
  a recording, `BeginsGrow` says where the chunks lie and `RoundsGo` what each round of the
  walk has: up to the first data, and while every chunk is whole, round k is at chunk k + 1
  with the last complete format before it; from then on it has the answer.  That there
  are functions with these recursions over the samples of a block, the chunks and
  the rounds is proved by the least length without one (`LoopExists`).
* `PresetProofs`.  `PresetInv` says that what was loaded is a member of
  `PresetDefs`, whatever the document was: its numbers are in their ranges, its modules in
  scenes are known, no field is missing.  Such a preset is written as a document in which
  nothing is skipped or cut (`SelectedAll`, `KeepsParams`, `KeepsScenes`), so that loading it
  gives each slot back but for the directory before a relative path (`ReloadsPreset`).  A
  package is the export of what was sent (`PackInv`); every slot in it has the name of
  an asset that was copied, and the last slot with that name the contents (`CopiedFrom`).
  A name that was cut once is not cut again (`CutsName`).
  For the migrations, `Table` says that all of them lead upwards, so there is a function
  that follows them from every schema (`ReachExists`); one that is added comes after those
  that were there for its schema (`AddedComesAfter`), and the highest schema it could have
  taken something from is none (`AddedTakesNothing`).  What is followed is the table
  with the built-in step at its end where it is not there yet (`Builtin`); a step that is
  registered before it takes nothing but what `BuiltinIsLate` is about.
* `ControlRouterProofs`.  The hard part of `RouterInv` is that the queue of tables to
  be deleted never fills although a failed push would be ignored.  `ToCome` counts the
  tables that may still be handed back before another is published: one if
  `table_` is not the one the audio thread had last, two if the audio thread is about
  to replace that one by a third.  `RoomOK` bounds the queue and these by three, two
  once `bind` or `unbind` has drained it.  `WhereOK` says that while the
  audio thread holds a newer table than its last, that last one is not published.  `UiValuesStayTheirOwn` and
  `SourcesDriveTheirOwn` assume that edits leave the modules in their slots
  (`SlotsAreSteady`) and that one can tell where a value came from (`KindsApart`); they
  rest on `WaitingOK`: what waits in `pending_` belongs to the bindings of `lastTable_`,
  except between the reading of a new table and the reset that comes with it.
  `SilentSourcesStayAway` assumes also that a module that stays is in the slot it was
  in (`SlotsAreFixed`): `HangInv` says that whatever shows the UI's value has a source
  that has been silent for longer than the hang time, or has spoken since its binding
  last looked; `HeardInv` that what a binding compares with is the newest heartbeat its
  parameter ever followed (`heard`), unless it was not looked at since its table was taken (`unseen`).
* `EngineHostProofs`.  `CallbacksFit` rests on `SizeInv`: whenever the device runs, the
  chain that is played was prepared for the size the callback is cut to.  Nothing is
  claimed between the two steps of `prepare`; a load that has read another size and
  ends after the second is what `raced` is about.  `ChunksAreBlocks` says that no chunk is longer than a block,
  `EditsPrepare` that every edit that succeeds prepares anew.  `EditsAreExact` rests on what the
  order by slot id makes of a set of slots: ranks are different, in order, and every
  place is taken (`EveryPlaceIsTaken`, by counting), so that a sorted chain comes back
  from its own slots, and taking out or adding one shifts the others as the code's
  vector does.  `HostInv` adds `ScenesBelong`: bank and definitions are the same unless
  they were rejected, and name modules of the chain unless an edit took one away.
* `OutputPanelProofs`.  `FadeBound` says that once a sample of a block that knows
  of the mute was heard, whatever may become the gain has fallen as far: the
  register, and the memory unless a store to it is still to come.  `HeardBound`
  does the same for what was heard last and gives `NeverPopsIn`.
  `WaitsLongEnough` relates the wait to the age of the device: it ends no sooner than the
  warm-up, so the timer unmutes nothing too early, also when one device change follows
  another (`BusyMuted`).  `ComesBack` is only model-checked.
* `ChainProofs`.  `ParamInv` says that a parameter with no samples left is at its
  target and that the target is what was asked, clamped, except where an edit that
  landed had read something else (`cut`); while a chain is on its way, the snapshot has the
  same of every parameter that was neither in mid-ramp then nor set since (`lost`).  That clamping finds the closest legal value is `ClampIsClosest`.
  `FadeInv` is inductive once `ParamInv` bounds the rate: fades are proved action by
  action for any two slots, the one a bypass command names and another.  `NoPop` needs
  `HeardInv`: what the last block let through says where its fade ended, and a chain
  that has just taken over has every fade at dry.  `BypassTakesEffect` and `ParamLands`
  are liveness and only model-checked.

Assumptions: the sets of controllers and of sources are finite, and there are no more
sources than places in the table (16 sources, 32 places); `NoItem`, `NoChain` and `NoTable` are
not members of `Items`, `Chains` and `Tables`; the capacity of the ring is a positive
number that divides the word; the queue of tables holds more than three (8 in
`control_router.h`); the chains of presets are sorted by slot id, as `ChainEdit` builds
them (`SceneAssumption`); ratios are of an octave either way, both ends included, and a
crossfade has two samples or more (`PitchAssumption`); rates, windows, blocks and the 64 samples
added to the model's block are positive (`AmpAssumption`); so are the rates of the
delays, whose effects are the six there are (`DelayAssumption`); the lowest note is a
thousand units of frequency or more, and `Settles` detections are enough to come within a sixtieth of the lowest note
and three more (`TunerAssumption`); the block of the convolver is positive and so are the
rates, and the chunks of a recording have sizes and formats in natural numbers
(`CabAssumption`); a field that is missing or of a wrong type can be told from every value
(`PresetAssumption`).  Memory is sequentially
consistent in `SpscQueue` and `AudioGraph`: their atomics are acquire, release or
acq_rel, and each element or chain is handed over by such a pair.

Only model-checked: liveness, which is out of the prover's reach, and
`BoundParameterFollows`, which compares positions with slot ids and holds of the layouts of
the run.

## Findings

Each finding in `PROJECT.json` is a run that TLC ends with a counterexample
against a sentence of the code's own comments or tests:

* `graph_audio_delete`: two swaps around one drain make the audio thread destroy
  a chain (`audio_graph.cpp:38`).
* `fade_silent`: a bypassed module plays after every edit and preset load
  (`chain.cpp:131`).
* `router_retakes`: binding or unbinding one parameter lets the silent source of another
  take it back from the UI, whose queued value is forgotten (`control_router.cpp:210`); so does
  a source that never spoke, whose initial 0.0 is written.
* `edit_reverts`: what is set between an edit's snapshot and the block in which its chain
  lands is lost (`chain_builder.cpp:24`).
* `tuner_low`: a note below the tuner's range, such as a string tuned down to D, is detected without a
  lag: the arrays are read before their beginning and a frequency below zero is shown
  (`tuner.cpp:131`).
* `settings_loop`: a settings file that says mute=1 and later mute=0 grows while it is
  read and is never read to its end (`nam_editor_app.cpp:963`).

Disagreements met while modelling that have no run of their own; the conditions
above keep the properties clear of them:

* `AudioGraph::current()` loads the index and then the slot; two swaps in between
  make it return null with a chain live (`audio_graph.cpp:57`).  Nothing calls it.
* `snapshotChain` asks for the ids 0 .. `slotCount()`-1 although `defOf` takes slot
  ids, which keep their gaps: after a removal from the middle the next edit loses the
  last module (`chain_builder.cpp:15`); `savePreset`, `saveScene` and `chainInfo`
  have the same loop.
* A snapshot takes the values of the moment, so an edit within a parameter's ramp
  stops it there (`chain_builder.cpp:27`; line 25: "so an edit never reverts what the
  user dialed in").
* `setMute` zeroes the gain "immediately" (`output_stage.cpp:58`), but a block that is
  running writes its own gain over the zero; the mute is then a fade.
* Switching Mute on and off during a warm-up unmutes at once
  (`nam_editor_app.cpp:1595`; line 361: "stays muted until the new device has warmed up").  A
  wait whose end wraps unmutes at once, and one that ends exactly at 0 never does.
* A save in the middle of loading the settings puts sliders back to an earlier
  position (`nam_editor_app.cpp:970`).
* `reorderChain` permutes the definitions but leaves their slot ids, and the
  constructor sorts by slot id (`chain.cpp:36`): a drag changes nothing and
  `moveModuleTo` reports success (`engine_host.h:78` calls it "drag reorder").
* Bindings keep the slot they were resolved to; after an edit that moves modules
  a source drives whatever sits there now (`control_router.cpp:214`).
* Slot ids are compared with the number of slots in `slotValid`
  (`control_router.cpp:205`) and in `SceneEngine::apply` (`scene_engine.cpp:75`):
  after a removal the last module is neither driven nor set.
* `tick_` is a `long`: where that has 32 bits, the difference at
  `control_router.cpp:219` overflows after half a day of silence.
* `reorderChain` puts a module that moves towards the end one place short of the
  index (`chain_builder.cpp:57`), so `moveModule(slot, +1)` changes nothing.
* `rebuildChain` does not reload the scene bank (`engine_host.cpp:343`), so a
  recall sets slots of the old chain.
* `SceneEngine::load` is not atomic with `apply`: a recall during a preset load may
  apply a scene of the new bank to the old chain, or end in an exception of
  `at` on the audio thread (`scene_engine.cpp:73`).
* Learning a controller for a second parameter leaves the first bound to its
  source in `ControlRouter` (`midi_router.cpp:59`): the controller moves both, and
  after `clearBind` the next controller that gets the source moves the first.
* `saveMidiBinds` calls what it writes an "authoritative snapshot" but appends it
  (`nam_editor_app.cpp:868`): a cleared binding is back after a restart, and of two
  bindings of a controller to a scene the later, of two to a parameter both.
  `saveSettings` appends as well; there the last line wins.
* `versions()` counts a temporary file that a crash left (`backup.cpp:35`), so one
  version less is kept for each; nothing removes them.
* `syncDirectory` fails silently (`atomic_write.cpp:91`): `save` may report success
  for a version that a loss of power takes back.
* A module that is twice in a chain is restored once by a scene
  (`scene_engine.cpp:24`).  `uiSetParam` and `uiSetBypass` go by the module id as well and
  never reach the second.
* `prepare` writes the block size before it takes `chainMutex_` and `loadPresetText`
  reads it before it does (`engine_host.cpp:102`): a whole prepare in between leaves a
  chain prepared for the size before (`engine_host.h:122`: the mutex "guards chain_
  against device reconfiguration ... racing preset loads").
* A scene bank is checked against the chain, while `preset_io` checks scenes against the
  registry: a preset can be loaded with its chain swapped and its scenes refused
  (`engine_host.cpp:203`).  After a module was removed, `saveScene` is refused as long as an
  older scene names it, and the preset that is saved then loads without its scenes.
* `loadPresetText` does not catch what `rebuildChain` catches: an asset that does not
  load escapes to its caller (`engine_host.cpp:191`).
* `setByIndex` throws for a parameter a module does not have (`param_store.cpp:86`); on
  the audio thread nothing catches it.
* Tolerant keeps a module the registry does not know, and Strict then refuses what
  Tolerant saved (`preset_io.cpp:210`).
* A relative asset path is resolved against the base directory when it is loaded; saved
  and loaded again it is resolved twice.  `export_import.h:42` says the files of an
  imported preset are relative to its directory, where loading has prefixed it.
* Two assets of the same name overwrite each other in an export
  (`export_import.cpp:51`).
* A failpoint that fires stores 0 (`rt_alloc.cpp:82`), which loses an arming that came
  after the count and before the store.  A guard within one that was violated already
  never says it is violated, and what happened under an inner guard is forgotten when it
  closes (`rt_alloc.cpp:126`), so that the outer guard of `control_router_test.cpp:164`
  cannot see what the inner one is there for.
* The tier of an amplifier takes effect at the next prepare or reset only
  (`nam_amp.cpp`).  The convolution's latency is one sample less than "one block"
  (`partitioned_conv.h:19`).
* At an octave up, which moves the read position at twice the speed, each fade of the
  pitch shifter ends with a sample less room than it began with, so that in the end the tap
  overtakes the write position; a ratio that rises within a fade, or near its end, lets
  it do so at once (`pitch_shifter.cpp:81`).
* The built-in migration from schema 0 is registered when `migrate` first runs
  (`migration.cpp:64`).  A step from 0 that was registered before takes its place, and if it leads past
  the current schema presets of schema 0, which would have loaded, no longer do.
* The name of a scene is "truncated to 8 chars" (`preset_io.cpp:169`), which are bytes:
  a character that is cut makes `dump` throw when the preset is saved
  (`preset_io.cpp:349`), and nothing between there and the button catches it.
* `exportPreset` writes `preset.json` without looking at the stream and reports success
  when the disk is full (`export_import.cpp:71`).
* In `Tuner`, a window without a note keeps `lastFreq_`, so a note much later is first
  averaged with it; `prepare` keeps `samplesSinceDetect_`.

## Not modelled, and why

What samples are worth: gains, filters, waveshapers, the neural model, FFTs,
resampling kernels and interpolation are floating-point arithmetic without control
state; the modules above count samples and positions instead.  The circuits of
`modules/dsp` that only filter (Klon and the other drives) have no other state than that.
`modules/registry` is a table that is filled once.  `EngineAudioSource` hands buffers to
`process`; it has no state but scratch buffers, which are sized for the block that was
announced (a longer callback is not cut there).  The user interface and file dialogs
are I/O; so are the tools, which call the same engine from one thread.  The level meters are atomics that
nothing else depends on.  The master bypass is not modelled: while it is on, `process`
copies the input and returns (`engine_host.cpp:121`), so no chain lands, no command, source
or scene is applied, and the output stage is skipped: an output that is muted plays dry.  What
the modules say of blocks is about blocks that are not bypassed, and the liveness about a
bypass that is off in the end.

Within the modules: memory leaks are left out of `ControlRouter` (a table nobody refers
to is dropped).  Exceptions that end the program are left out except where a module
names them (`SceneEngine`'s `thrown`, `Refuse`).  Of the backups, the Windows branch (no
directory sync, and a rename that does not replace) and the preset's directory being
created are left out; of the MIDI file, a save that cannot open it or ends half-way.
The 14-bit pair of `MidiRouter` needs a second byte that only `data3` of the same event
could bring.  The tuner reads plain fields of the audio thread from the user interface,
which the model does not show.

## What could come next

A composition of exchange, scenes and router in one block would check what the three now
assume of each other.
