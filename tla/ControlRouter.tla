---------------------------- MODULE ControlRouter ----------------------------
(***************************************************************************)
(* core/audio/control_router.{h,cpp}: a parameter bound to a control       *)
(* source (a MIDI CC, an expression pedal) follows the source while it is  *)
(* active and otherwise takes the value the UI queued.  The control thread *)
(* publishes a fresh binding table for every change; the audio thread      *)
(* applies commands and bindings at each block boundary and hands the      *)
(* tables it is done with back to be deleted.                              *)
(*                                                                         *)
(* Abstractions: a module has one parameter, so a key is its module; a     *)
(* value is what it came from and a level; the two queues are sequences    *)
(* (SpscQueue implements BoundedFifo); ticks count blocks; the live chain  *)
(* is where its modules sit, replaced at a block boundary (ChainExchange). *)
(***************************************************************************)
EXTENDS Integers, Sequences, FiniteSets, SequencesExt

CONSTANTS
  Modules,      \* module ids that may be in the chain
  Sources,      \* control sources, kMaxSources
  Levels,       \* what a source or the UI can ask for
  Preset,       \* the value a parameter has when its chain is built
  Zero,         \* 0.0f, the initial sourceValues_
  Layouts,      \* where a chain has its modules: slot ids, Absent if nowhere
  Tables,       \* identities of binding tables, reused after a delete
  NoTable,      \* the null pointer
  MaxBindings,  \* kMaxBindings
  UiCapacity, ReleaseCapacity,    \* capacities of uiQueue_ and releaseQueue_
  HangBlocks,   \* hangFrames, in blocks
  MaxTicks,     \* largest difference of ticks that is told apart
  MaxBeats,     \* bound: heartbeats of one source in a behaviour
  MaxBypasses   \* bound: bypass commands in a behaviour

Absent == -1
Slots == 0 .. 7                       \* Chain's maxSlots_

ASSUME LayoutAssumption == Layouts \subseteq [Modules -> Slots \cup {Absent}]
ASSUME TablesAssumption == NoTable \notin Tables
ASSUME BoundsAssumption ==
  /\ MaxBindings \in Nat \ {0} /\ UiCapacity \in Nat \ {0}
  /\ ReleaseCapacity \in Nat /\ ReleaseCapacity > 3
  /\ HangBlocks \in Nat \ {0} /\ MaxTicks \in Nat /\ HangBlocks < MaxTicks
  /\ MaxBeats \in Nat /\ MaxBypasses \in Nat

VARIABLES
  newest,       \* the layout of EngineHost::chain_, which bind resolves against
  table,        \* table_
  bindings,     \* the bindings of every table that exists
  uiQueue,      \* uiQueue_
  releaseQueue, \* releaseQueue_
  sourceValue,  \* sourceValues_
  heartbeat,    \* sourceHeartbeat_
  ctlPc,        \* where the control thread is
  saying,       \* setSourceValue: what is half done, its source and value
  bypasses,     \* bypass commands queued so far
  live,         \* the layout of the chain the audio thread runs
  value,        \* the parameter of each module of that chain
  bypassed,     \* its modules that are bypassed
  lastTable,    \* lastTable_
  pending,      \* pending_
  audPc,        \* where the audio thread is
  current,      \* apply: its local `table'
  at,           \* apply: its loop counter i
  heard,        \* the newest heartbeat of each source a parameter followed
  unseen        \* parameters not yet looked at under a table that was just taken

srcVars == <<sourceValue, heartbeat, saying>>
ctlVars == <<newest, ctlPc, bypasses, srcVars>>
historyVars == <<heard, unseen>>
audVars == <<live, value, bypassed, lastTable, pending, audPc, current, at, historyVars>>
vars == <<table, bindings, uiQueue, releaseQueue, ctlVars, audVars>>

SourceValues == {Zero} \cup (Sources \X Levels)
UiValues == Modules \X Levels
Values == {Preset} \cup SourceValues \cup UiValues
Binding == [source : Sources, slot : Slots, key : Modules]
UiCommand == [isBypass : {FALSE}, module : Modules, value : UiValues]
             \cup [isBypass : {TRUE}, module : Modules, value : Modules \X BOOLEAN]

\* Pending{}; a heartbeat of -1 differs from every counter.  `since' stands
\* for tick_ - lastActiveTick, which is not looked at before a heartbeat was.
NotPending == [active |-> FALSE, value |-> Zero, beat |-> -1, since |-> 0]
Index == 1 .. MaxBindings

BindingsOf(t) == IF t = NoTable THEN << >> ELSE bindings[t]
Bound(t, m) == \E i \in DOMAIN BindingsOf(t) : BindingsOf(t)[i].key = m
Present(layout) == {m \in Modules : layout[m] # Absent}

Init ==
  /\ newest \in Layouts /\ live = newest
  /\ table = NoTable /\ bindings = [t \in {} |-> << >>]
  /\ uiQueue = << >> /\ releaseQueue = << >>
  /\ sourceValue = [s \in Sources |-> Zero]
  /\ heartbeat = [s \in Sources |-> 0]
  /\ ctlPc = "idle" /\ saying = << >> /\ bypasses = 0
  /\ value = [m \in Modules |-> Preset] /\ bypassed = {}
  /\ lastTable = NoTable /\ pending = [i \in Index |-> NotPending]
  /\ audPc = "idle" /\ current = NoTable /\ at = 1
  /\ heard = [m \in Modules |-> [s \in Sources |-> 0]] /\ unseen = {}

(***************************************************************************)
(* Control thread                                                          *)
(***************************************************************************)
InUse == {lastTable, current} \cup ToSet(releaseQueue)

\* table_.exchange(fresh).  A table that was replaced before the audio thread
\* loaded it is never deleted; nothing refers to it, so it is left out.
Publish(fresh) ==
  /\ \E t \in Tables \ DOMAIN bindings :
       /\ table' = t
       /\ bindings' = [u \in {t} \cup (InUse \cap DOMAIN bindings) |->
                        IF u = t THEN fresh ELSE bindings[u]]
  /\ ctlPc' = "recycle"
  /\ UNCHANGED <<newest, bypasses, srcVars, uiQueue, releaseQueue, audVars>>

Bind(s, m) ==
  LET old == BindingsOf(table)
      b   == [source |-> s, slot |-> newest[m], key |-> m]
  IN /\ ctlPc = "idle"
     /\ m \in Present(newest)
     /\ \/ \E i \in DOMAIN old :
             /\ old[i].key = m
             /\ old[i].source = s      \* another source: rejected
             /\ Publish([old EXCEPT ![i] = b])
        \/ /\ ~Bound(table, m)
           /\ Len(old) < MaxBindings
           /\ Publish(Append(old, b))

Unbind(m) ==
  /\ ctlPc = "idle"
  /\ \E i \in DOMAIN BindingsOf(table) :     \* the one with that key
       /\ bindings[table][i].key = m
       /\ Publish(RemoveAt(bindings[table], i))

\* while (releaseQueue_.pop(released)) delete released;
Recycle ==
  /\ ctlPc = "recycle"
  /\ IF releaseQueue = << >>
     THEN ctlPc' = "idle" /\ UNCHANGED <<bindings, releaseQueue>>
     ELSE /\ bindings' = [t \in DOMAIN bindings \ {Head(releaseQueue)} |-> bindings[t]]
          /\ releaseQueue' = Tail(releaseQueue)
          /\ UNCHANGED ctlPc
  /\ UNCHANGED <<newest, bypasses, srcVars, table, uiQueue, audVars>>

\* setSourceValue: two relaxed accesses, which the audio thread may see in
\* either order; a delayed store shows before its next block.
SpeakValue(s, x) ==
  /\ ctlPc = "idle" /\ heartbeat[s] < MaxBeats
  /\ ctlPc' = "beat" /\ saying' = <<s, <<s, x>>>>
  /\ sourceValue' = [sourceValue EXCEPT ![s] = <<s, x>>]
  /\ UNCHANGED <<newest, bypasses, heartbeat, table, bindings, uiQueue,
                 releaseQueue, audVars>>

SpeakBeat ==
  /\ ctlPc = "beat"
  /\ ctlPc' = "idle" /\ saying' = << >>
  /\ heartbeat' = [heartbeat EXCEPT ![saying[1]] = @ + 1]
  /\ UNCHANGED <<newest, bypasses, sourceValue, table, bindings,
                 uiQueue, releaseQueue, audVars>>

BeatEarly(s, x) ==
  /\ ctlPc = "idle" /\ heartbeat[s] < MaxBeats
  /\ ctlPc' = "value" /\ saying' = <<s, <<s, x>>>>
  /\ heartbeat' = [heartbeat EXCEPT ![s] = @ + 1]
  /\ UNCHANGED <<newest, bypasses, sourceValue, table, bindings, uiQueue,
                 releaseQueue, audVars>>

ValueLate ==
  /\ ctlPc = "value"
  /\ ctlPc' = "idle" /\ saying' = << >>
  /\ sourceValue' = [sourceValue EXCEPT ![saying[1]] = saying[2]]
  /\ UNCHANGED <<newest, bypasses, heartbeat, table, bindings,
                 uiQueue, releaseQueue, audVars>>

QueueCommand(command) ==
  /\ ctlPc = "idle"
  /\ Len(uiQueue) < UiCapacity         \* a full queue: false, no change
  /\ uiQueue' = Append(uiQueue, command)
  /\ UNCHANGED <<newest, ctlPc, srcVars, table, bindings, releaseQueue, audVars>>

UiSet(m, x) ==
  /\ QueueCommand([isBypass |-> FALSE, module |-> m, value |-> <<m, x>>])
  /\ UNCHANGED bypasses

UiSetBypass(m, b) ==
  /\ bypasses < MaxBypasses
  /\ bypasses' = bypasses + 1
  /\ QueueCommand([isBypass |-> TRUE, module |-> m, value |-> <<m, b>>])

\* EngineHost::rebuildChain or loadPresetText hands over another chain; the
\* router is not told.
EditChain(layout) ==
  /\ ctlPc = "idle" /\ layout # newest
  /\ newest' = layout
  /\ UNCHANGED <<ctlPc, bypasses, srcVars, table, bindings, uiQueue,
                 releaseQueue, audVars>>

(***************************************************************************)
(* Audio thread: apply(), once per block after a waiting chain has landed  *)
(***************************************************************************)
\* The difference of ticks one block later; beyond MaxTicks all differences are
\* alike (tick_ is a 64-bit long here: where long has 32 bits it overflows after
\* half a day).
OneBlockLater(since) == IF since < MaxTicks THEN since + 1 ELSE since

\* setParamByIndex(slot, ...) writes to whichever module sits there.
Write(slot, v) ==
  value' = [m \in Modules |-> IF live[m] = slot THEN v ELSE value[m]]

ApplyBegin ==            \* the landed chain starts from its own values
  /\ audPc = "idle" /\ ctlPc # "value"
  /\ audPc' = "commands"
  /\ live' = newest
  /\ value' = [m \in Modules |->
                 IF m \in Present(newest) \ Present(live) THEN Preset ELSE value[m]]
  /\ bypassed' = bypassed \cap Present(newest)
  /\ pending' = [i \in Index |->
                   IF pending[i].beat = -1 THEN pending[i]
                   ELSE [pending[i] EXCEPT !.since = OneBlockLater(@)]]
  /\ current' = table
  /\ UNCHANGED <<lastTable, at, historyVars, table, bindings, uiQueue, releaseQueue, ctlVars>>

PopCommand ==
  /\ audPc = "commands" /\ uiQueue # << >>
  /\ uiQueue' = Tail(uiQueue)
  /\ UNCHANGED <<table, bindings, releaseQueue, ctlVars>>
  /\ UNCHANGED <<live, lastTable, audPc, current, at, historyVars>>

ApplyBypass ==
  LET command == Head(uiQueue)
  IN /\ PopCommand
     /\ command.isBypass
     /\ bypassed' = CASE live[command.module] = Absent -> bypassed
                      [] command.value[2] -> bypassed \cup {command.module}
                      [] OTHER            -> bypassed \ {command.module}
     /\ UNCHANGED <<value, pending>>

ApplyUnbound ==
  LET command == Head(uiQueue)
  IN /\ PopCommand
     /\ ~command.isBypass
     /\ ~Bound(current, command.module)
     /\ IF live[command.module] # Absent
        THEN Write(live[command.module], command.value)
        ELSE UNCHANGED value
     /\ UNCHANGED <<bypassed, pending>>

ApplyQueued ==           \* a bound parameter keeps the newest value waiting
  LET command == Head(uiQueue)
  IN /\ PopCommand
     /\ ~command.isBypass
     /\ \E i \in DOMAIN BindingsOf(current) :
          /\ BindingsOf(current)[i].key = command.module
          /\ pending' = [pending EXCEPT ![i].active = TRUE,
                                        ![i].value = command.value]
     /\ UNCHANGED <<bypassed, value>>

CommandsDone ==
  /\ audPc = "commands" /\ uiQueue = << >>
  /\ audPc' = IF current = NoTable THEN "idle" ELSE "table"
  /\ UNCHANGED <<live, value, bypassed, lastTable, pending, current, at, historyVars>>
  /\ UNCHANGED <<table, bindings, uiQueue, releaseQueue, ctlVars>>

ApplyTableKeeping ==     \* deviation: pending_ is not reset
  /\ audPc = "table"
  /\ audPc' = "bindings"
  /\ lastTable' = current
  /\ releaseQueue' = IF lastTable \notin {current, NoTable}
                     THEN Append(releaseQueue, lastTable) ELSE releaseQueue
  /\ UNCHANGED <<pending, live, value, bypassed, current, at, historyVars, table, bindings,
                 uiQueue, ctlVars>>

ApplyTable ==            \* a failed push is ignored
  /\ audPc = "table"
  /\ audPc' = "bindings"
  /\ IF current = lastTable
     THEN UNCHANGED <<releaseQueue, lastTable, pending, unseen>>
     ELSE /\ releaseQueue' =
               IF lastTable # NoTable /\ Len(releaseQueue) < ReleaseCapacity
               THEN Append(releaseQueue, lastTable) ELSE releaseQueue
          /\ lastTable' = current
          /\ pending' = [i \in Index |-> NotPending]
          /\ unseen' = {bindings[current][i].key : i \in DOMAIN bindings[current]}
  /\ UNCHANGED <<live, value, bypassed, current, at, heard, table, bindings, uiQueue, ctlVars>>

\* One pass of the loop.  The heartbeat is read before the value, and the
\* control thread may be between its two accesses.
NextBinding(p) ==
  /\ audPc = "bindings" /\ at \in DOMAIN bindings[current]
  /\ at' = at + 1
  /\ pending' = [pending EXCEPT ![at] = p]
  /\ UNCHANGED <<live, bypassed, lastTable, audPc, current>>
  /\ UNCHANGED <<table, bindings, uiQueue, releaseQueue, ctlVars>>

SlotValidShort(b) == b.slot + 1 < Cardinality(Present(live))   \* deviation
SlotValid(b) == b.slot < Cardinality(Present(live))

SkipBinding ==
  /\ NextBinding([pending[at] EXCEPT !.active = FALSE])
  /\ ~SlotValid(bindings[current][at])
  /\ UNCHANGED <<value, historyVars>>

Listened(b) ==           \* the source was heard for this binding
  /\ heard' = [heard EXCEPT ![b.key][b.source] = heartbeat[b.source]]
  /\ unseen' = unseen \ {b.key}

HearSourceByIndex ==     \* deviation: the binding's index for its slot
  LET b == bindings[current][at]
  IN /\ NextBinding([pending[at] EXCEPT !.beat = heartbeat[b.source], !.since = 0])
     /\ SlotValid(b)
     /\ heartbeat[b.source] # pending[at].beat
     /\ Write(at - 1, sourceValue[b.source])
     /\ Listened(b)

\* The source just spoke, or the binding is new: bind and unbind of any other
\* parameter, too, start lastHeartbeat again from -1.
HearSource ==
  LET b == bindings[current][at]
  IN /\ NextBinding([pending[at] EXCEPT !.beat = heartbeat[b.source], !.since = 0])
     /\ SlotValid(b)
     /\ heartbeat[b.source] # pending[at].beat
     /\ Write(b.slot, sourceValue[b.source])
     /\ Listened(b)

FollowSourceLonger ==    \* deviation: the hang time is off by one
  LET b == bindings[current][at]
  IN /\ NextBinding(pending[at])
     /\ SlotValid(b)
     /\ heartbeat[b.source] = pending[at].beat
     /\ pending[at].since <= HangBlocks + 1
     /\ Write(b.slot, sourceValue[b.source])
     /\ UNCHANGED historyVars

FollowSourceIdly ==      \* deviation: writes on a new heartbeat only
  LET b == bindings[current][at]
  IN /\ NextBinding(pending[at])
     /\ SlotValid(b)
     /\ heartbeat[b.source] = pending[at].beat
     /\ pending[at].since <= HangBlocks
     /\ UNCHANGED <<value, historyVars>>

FollowSource ==          \* it spoke less than the hang time ago
  LET b == bindings[current][at]
  IN /\ NextBinding(pending[at])
     /\ SlotValid(b)
     /\ heartbeat[b.source] = pending[at].beat
     /\ pending[at].since <= HangBlocks
     /\ Write(b.slot, sourceValue[b.source])
     /\ UNCHANGED historyVars

ReleaseSourceDropping == \* deviation: forgets the queued value unwritten
  LET b == bindings[current][at]
  IN /\ NextBinding([pending[at] EXCEPT !.active = FALSE])
     /\ SlotValid(b)
     /\ heartbeat[b.source] = pending[at].beat
     /\ pending[at].since > HangBlocks
     /\ UNCHANGED <<value, historyVars>>

ReleaseSource ==         \* back to the value the UI queued
  LET b == bindings[current][at]
  IN /\ NextBinding([pending[at] EXCEPT !.active = FALSE])
     /\ SlotValid(b)
     /\ heartbeat[b.source] = pending[at].beat
     /\ pending[at].since > HangBlocks
     /\ IF pending[at].active THEN Write(b.slot, pending[at].value)
        ELSE UNCHANGED value
     /\ UNCHANGED historyVars

ApplyEnd ==
  /\ audPc = "bindings" /\ at \notin DOMAIN bindings[current]
  /\ audPc' = "idle" /\ current' = NoTable /\ at' = 1
  /\ UNCHANGED <<live, value, bypassed, lastTable, pending, historyVars>>
  /\ UNCHANGED <<table, bindings, uiQueue, releaseQueue, ctlVars>>

ApplyBinding == SkipBinding \/ HearSource \/ FollowSource \/ ReleaseSource
ApplyCommand == ApplyBypass \/ ApplyUnbound \/ ApplyQueued
Audio == ApplyBegin \/ ApplyCommand \/ CommandsDone \/ ApplyTable
         \/ ApplyBinding \/ ApplyEnd

Source == \/ \E s \in Sources, x \in Levels : SpeakValue(s, x) \/ BeatEarly(s, x)
          \/ SpeakBeat \/ ValueLate
Control ==
  \/ \E m \in Modules : Unbind(m) \/ \E s \in Sources : Bind(s, m)
  \/ Recycle
  \/ \E m \in Modules, x \in Levels : UiSet(m, x)
  \/ \E m \in Modules, b \in BOOLEAN : UiSetBypass(m, b)
  \/ \E layout \in Layouts : EditChain(layout)

Next == Source \/ Control \/ Audio
Spec == Init /\ [][Next]_vars

\* The device calls back for every block; a control call that has begun ends.
\* The loop that drains uiQueue_ ends: clicks come slower than it pops.  Nobody
\* has to bind, speak or turn a knob.
FairSpec ==
  /\ Spec
  /\ WF_vars(Audio) /\ SF_vars(CommandsDone)
  /\ WF_vars(Recycle \/ SpeakBeat \/ ValueLate)

-----------------------------------------------------------------------------
(***************************************************************************)
(* Properties                                                              *)
(***************************************************************************)
TypeOK ==
  /\ newest \in Layouts /\ live \in Layouts
  /\ {table, lastTable, current} \subseteq Tables \cup {NoTable}
  /\ DOMAIN bindings \subseteq Tables
  /\ \A t \in DOMAIN bindings : bindings[t] \in Seq(Binding)
  /\ uiQueue \in Seq(UiCommand) /\ releaseQueue \in Seq(Tables)
  /\ sourceValue \in [Sources -> SourceValues]
  /\ heartbeat \in [Sources -> 0 .. MaxBeats]
  /\ ctlPc \in {"idle", "recycle", "beat", "value"}
  /\ saying \in {<< >>} \cup (Sources \X SourceValues)
  /\ bypasses \in 0 .. MaxBypasses
  /\ value \in [Modules -> Values] /\ bypassed \subseteq Modules
  /\ pending \in [Index -> [active : BOOLEAN, value : Values, beat : -1 .. MaxBeats,
                            since : 0 .. MaxTicks]]
  /\ audPc \in {"idle", "commands", "table", "bindings"}
  /\ at \in 1 .. MaxBindings + 1
  /\ heard \in [Modules -> [Sources -> 0 .. MaxBeats]] /\ unseen \subseteq Modules

\* Every table that a thread may still read exists, and no table is twice on
\* its way to be deleted; the queue of tables never fills, so the ignored
\* result of its push loses nothing.
TablesAlive ==
  /\ InUse \cup {table} \subseteq DOMAIN bindings \cup {NoTable}
  /\ ToSet(releaseQueue) \cap {table, lastTable, current} = {}
  /\ IsInjective(releaseQueue)
  /\ Len(releaseQueue) < ReleaseCapacity

\* A table binds each parameter at most once, within the array of pending
\* values that is indexed by it.
OneBindingPerKey ==
  \A t \in DOMAIN bindings :
    /\ Len(bindings[t]) <= MaxBindings
    /\ \A i, j \in DOMAIN bindings[t] :
         bindings[t][i].key = bindings[t][j].key => i = j

RouterInv == TypeOK /\ TablesAlive /\ OneBindingPerKey

\* A value the UI asked for one parameter never shows in another, although
\* queued values are kept by the index of a binding and indices move when
\* bindings go.
NoForeignUiValue ==
  \A m \in Modules : value[m] \in UiValues => value[m][1] = m

\* What the two threads may rely on: the table that is read is alive, and what is
\* queued for a binding is for the parameter of that binding.
RouterSafety == RouterInv /\ NoForeignUiValue

\* Once a source was silent for the hang time and the UI's value took over, the
\* parameter goes back to the source for a heartbeat it had not followed before,
\* under whatever tables; or once, at the first look at its binding under a table
\* that was just taken, when the queued value is forgotten with the last table.
\* The slots are steady, so it is the parameter of the binding.
ReleasedUntilHeard ==
  [][\A m \in Modules :
       value[m] \in UiValues /\ value'[m] \in SourceValues =>
         LET s == bindings[current][at].source
         IN heartbeat[s] > heard[m][s] \/ (m \in unseen /\ m \notin unseen')]_vars

\* "the audio thread marks the source active when it observes a new heartbeat and
\* falls back after the hang time" (control_router.h:27): it takes no parameter
\* from the UI otherwise.
OnlyNewHeartbeatsTake ==
  [][\A m \in Modules :
       value[m] \in UiValues /\ value'[m] \in SourceValues =>
         LET s == bindings[current][at].source IN heartbeat[s] > heard[m][s]]_vars

\* No update of a source is lost, though its value and its heartbeat are two
\* relaxed accesses: a bound parameter of the chain gets the newest value.
BoundTo(m, s) == \E i \in DOMAIN BindingsOf(table) :
  BindingsOf(table)[i].key = m /\ BindingsOf(table)[i].source = s
Saying(s, v) == ctlPc \in {"beat", "value"} /\ saying = <<s, v>>
SourceValueLands ==
  \A s \in Sources, m \in Modules, x \in Levels :
    LET v == <<s, x>>
    IN (Saying(s, v) /\ BoundTo(m, s) /\ newest[m] # Absent) ~>
       (\/ value[m] = v
        \/ \E y \in Levels \ {x} : Saying(s, <<s, y>>)
        \/ ~BoundTo(m, s) \/ newest[m] = Absent)

\* A value the UI queued for a bound parameter takes effect when the source
\* falls silent, unless a newer one replaces it, the bindings change or the
\* module leaves the chain.
Waiting(m, v) == \E i \in DOMAIN BindingsOf(table) :
  /\ BindingsOf(table)[i].key = m
  /\ pending[i].active /\ pending[i].value = v
UiValueLands ==
  \A m \in Modules, x \in Levels :
    (Waiting(m, <<m, x>>) /\ table = lastTable) ~>
      (\/ value[m] = <<m, x>> \/ table # lastTable \/ newest[m] = Absent
       \/ \E y \in Levels \ {x} : Waiting(m, <<m, y>>))

\* "A parameter bound to a control source ... follows the source"
\* (control_router.h:18): and no other parameter does.
DrivesItsOwnParameter ==
  [][ApplyBinding => \A m \in Modules :
       value'[m] # value[m] => m = bindings[current][at].key]_vars
\* The same sentence: a bound parameter that is where its binding says is not
\* passed over.
BoundParameterFollows ==
  [][audPc = "bindings" /\ SkipBinding =>
       LET b == bindings[current][at] IN live[b.key] # b.slot]_vars
=============================================================================
