-------------------------- MODULE ControlRouterProofs --------------------------
(***************************************************************************)
(* For any modules, sources, chains and number of tables: every binding    *)
(* table a thread may read exists, each is handed back once, no more than  *)
(* three are ever on their way to be deleted, and none binds a parameter   *)
(* twice; where edits leave the modules in their slots, no parameter shows *)
(* what the UI asked for another, and a source that fell silent stays away *)
(* until it speaks again.                                                  *)
(***************************************************************************)
EXTENDS ControlRouter, TLAPS

USE LayoutAssumption, TablesAssumption, BoundsAssumption

-----------------------------------------------------------------------------
(* The inductive invariant: what each thread keeps for itself, and the     *)
(* tables between them.                                                    *)

Speaking == ctlPc \in {"beat", "value"}
ControlOK ==
  /\ newest \in Layouts
  /\ uiQueue \in Seq(UiCommand)
  /\ sourceValue \in [Sources -> SourceValues]
  /\ heartbeat \in [Sources -> 0 .. MaxBeats]
  /\ ctlPc \in {"idle", "recycle", "beat", "value"}
  /\ saying \in {<< >>} \cup (Sources \X SourceValues)
  /\ Speaking => saying \in Sources \X SourceValues
  /\ ctlPc = "beat" => heartbeat[saying[1]] < MaxBeats
  /\ bypasses \in 0 .. MaxBypasses

Pending == [active : BOOLEAN, value : Values, beat : -1 .. MaxBeats, since : 0 .. MaxTicks]
AudioOK ==
  /\ live \in Layouts
  /\ value \in [Modules -> Values] /\ bypassed \subseteq Modules
  /\ pending \in [Index -> Pending]
  /\ audPc \in {"idle", "commands", "table", "bindings"}
  /\ at \in 1 .. MaxBindings + 1
HistoryOK == heard \in [Modules -> [Sources -> 0 .. MaxBeats]] /\ unseen \subseteq Modules

\* The table the audio thread has read stays the newer one until it is applied: what
\* was the last table then is not published again.
WhereOK ==
  /\ audPc = "idle" => current = NoTable
  /\ audPc \in {"table", "bindings"} => current # NoTable
  /\ audPc = "bindings" => current = lastTable
  /\ audPc \in {"commands", "table"} /\ current # lastTable => table # lastTable

\* The tables that may be handed back before another one is published.
ToCome ==
  IF audPc \in {"commands", "table"}
  THEN (IF current = lastTable THEN 0 ELSE 1) + (IF table = current THEN 0 ELSE 1)
  ELSE IF table = lastTable THEN 0 ELSE 1
RoomOK == Len(releaseQueue) + ToCome <= IF ctlPc = "recycle" THEN 3 ELSE 2

TablesTyped ==
  /\ table \in Tables \cup {NoTable} /\ lastTable \in Tables \cup {NoTable}
  /\ current \in Tables \cup {NoTable}
  /\ DOMAIN bindings \subseteq Tables
  /\ \A t \in DOMAIN bindings : bindings[t] \in Seq(Binding)
  /\ releaseQueue \in Seq(Tables)
Alive ==
  /\ table \in DOMAIN bindings \cup {NoTable}
  /\ lastTable \in DOMAIN bindings \cup {NoTable}
  /\ current \in DOMAIN bindings \cup {NoTable}
  /\ ToSet(releaseQueue) \subseteq DOMAIN bindings
HandedBackOnce ==
  /\ table \notin ToSet(releaseQueue) /\ lastTable \notin ToSet(releaseQueue)
  /\ current \notin ToSet(releaseQueue)
  /\ IsInjective(releaseQueue)
KeyedOnce(s) ==
  /\ Len(s) <= MaxBindings
  /\ \A i, j \in DOMAIN s : s[i].key = s[j].key => i = j
SwapOK == TablesTyped /\ Alive /\ HandedBackOnce /\ WhereOK /\ RoomOK
TablesOK == SwapOK /\ \A t \in DOMAIN bindings : KeyedOnce(bindings[t])

IInv == ControlOK /\ AudioOK /\ HistoryOK /\ TablesOK

LEMMA IInvSuffices == IInv => RouterInv
<1> SUFFICES ASSUME IInv PROVE RouterInv
  OBVIOUS
<1>1. TypeOK
  BY DEF IInv, ControlOK, AudioOK, HistoryOK, Pending, TablesOK, SwapOK, TablesTyped, TypeOK
<1>2. OneBindingPerKey
  BY DEF IInv, TablesOK, KeyedOnce, OneBindingPerKey
<1>3. TablesAlive
  <2>1. Len(releaseQueue) \in Nat /\ ToCome \in Nat
    BY DEF IInv, TablesOK, SwapOK, TablesTyped, ToCome
  <2>2. Len(releaseQueue) < ReleaseCapacity
    BY <2>1 DEF IInv, TablesOK, SwapOK, RoomOK
  <2>3. /\ InUse \cup {table} \subseteq DOMAIN bindings \cup {NoTable}
        /\ ToSet(releaseQueue) \cap {table, lastTable, current} = {}
        /\ IsInjective(releaseQueue)
    BY DEF IInv, TablesOK, SwapOK, Alive, HandedBackOnce, InUse
  <2> QED
    BY <2>2, <2>3 DEF TablesAlive
<1> QED
  BY <1>1, <1>2, <1>3 DEF RouterInv

-----------------------------------------------------------------------------
(* Sequences *)

LEMMA QueueGrows ==
  ASSUME NEW q \in Seq(Tables), NEW x \in Tables, x \notin ToSet(q), IsInjective(q)
  PROVE  /\ Append(q, x) \in Seq(Tables) /\ Len(Append(q, x)) = Len(q) + 1
         /\ ToSet(Append(q, x)) = ToSet(q) \cup {x}
         /\ IsInjective(Append(q, x))
<1> DEFINE r == Append(q, x)
<1>1. /\ r \in Seq(Tables) /\ Len(q) \in Nat /\ Len(r) = Len(q) + 1
      /\ DOMAIN q = 1 .. Len(q) /\ DOMAIN r = 1 .. Len(q) + 1
      /\ r[Len(q) + 1] = x /\ \A i \in DOMAIN q : r[i] = q[i]
  OBVIOUS
<1> HIDE DEF r
<1>2. ToSet(r) = ToSet(q) \cup {x}
  <2>1. \A i \in DOMAIN r : r[i] \in ToSet(q) \cup {x}
    BY <1>1 DEF ToSet
  <2>2. \A i \in DOMAIN q : q[i] \in ToSet(r)
    BY <1>1 DEF ToSet
  <2>3. x \in ToSet(r)
    BY <1>1 DEF ToSet
  <2> QED
    BY <2>1, <2>2, <2>3 DEF ToSet
<1>3. IsInjective(r)
  <2>1. \A i \in DOMAIN q : q[i] # x
    BY DEF ToSet
  <2> QED
    BY <1>1, <2>1 DEF IsInjective
<1> QED
  BY <1>1, <1>2, <1>3 DEF r

LEMMA QueueShrinks ==
  ASSUME NEW q \in Seq(Tables), q # << >>, IsInjective(q)
  PROVE  /\ Head(q) \in Tables /\ Tail(q) \in Seq(Tables) /\ Len(Tail(q)) = Len(q) - 1
         /\ ToSet(Tail(q)) = ToSet(q) \ {Head(q)}
         /\ IsInjective(Tail(q)) /\ Head(q) \in ToSet(q)
<1> DEFINE r == Tail(q)
           h == Head(q)
<1>1. /\ r \in Seq(Tables) /\ Len(q) \in Nat \ {0} /\ Len(r) = Len(q) - 1
      /\ DOMAIN q = 1 .. Len(q) /\ DOMAIN r = 1 .. Len(q) - 1
      /\ h = q[1] /\ h \in Tables /\ \A i \in DOMAIN r : r[i] = q[i + 1]
  OBVIOUS
<1> HIDE DEF r, h
<1>2. IsInjective(r)
  BY <1>1 DEF IsInjective
<1>3. ToSet(r) = ToSet(q) \ {h}
  <2>1. ASSUME NEW i \in DOMAIN r PROVE r[i] \in ToSet(q) \ {h}
    <3>1. i + 1 \in DOMAIN q /\ i + 1 # 1 /\ 1 \in DOMAIN q
      BY <1>1
    <3> QED
      BY <3>1, <1>1 DEF IsInjective, ToSet
  <2>2. ASSUME NEW i \in DOMAIN q, q[i] # h PROVE q[i] \in ToSet(r)
    <3>1. i - 1 \in DOMAIN r /\ r[i - 1] = q[i]
      BY <2>2, <1>1
    <3> QED
      BY <3>1 DEF ToSet
  <2> QED
    BY <2>1, <2>2 DEF ToSet
<1>4. h \in ToSet(q)
  BY <1>1 DEF ToSet
<1> QED
  BY <1>1, <1>2, <1>3, <1>4 DEF r, h

\* A command that is popped is one that was queued.
LEMMA PopIsCommand ==
  ASSUME ControlOK, uiQueue # << >>
  PROVE  Head(uiQueue) \in UiCommand /\ Tail(uiQueue) \in Seq(UiCommand)
<1>1. uiQueue \in Seq(UiCommand)
  BY DEF ControlOK
<1> HIDE DEF UiCommand
<1> QED
  BY <1>1

-----------------------------------------------------------------------------
(* The control thread's own state *)

LEMMA ControlStaysOK ==
  ASSUME IInv, [Next]_vars
  PROVE  ControlOK'
<1> USE DEF Speaking
<1>c. ControlOK
  BY DEF IInv
<1>1. CASE Audio
  <2>1. UNCHANGED ctlVars /\ (uiQueue' = uiQueue \/ (uiQueue # << >> /\ uiQueue' = Tail(uiQueue)))
    BY <1>1 DEF Audio, ApplyBegin, ApplyCommand, ApplyBypass, ApplyUnbound, ApplyQueued, PopCommand,
       CommandsDone, ApplyTable, ApplyBinding, SkipBinding, HearSource, FollowSource,
       ReleaseSource, NextBinding, ApplyEnd
  <2>2. uiQueue' \in Seq(UiCommand)
    BY <2>1, <1>c, PopIsCommand DEF ControlOK
  <2> QED
    BY <2>1, <2>2, <1>c DEF ControlOK, ctlVars, srcVars
<1>2. ASSUME NEW s \in Sources, NEW x \in Levels, SpeakValue(s, x) PROVE ControlOK'
  <2>1. <<s, x>> \in SourceValues /\ <<s, <<s, x>>>> \in Sources \X SourceValues
    BY DEF SourceValues
  <2>2. /\ ctlPc' = "beat" /\ saying' = <<s, <<s, x>>>> /\ heartbeat[s] < MaxBeats
        /\ sourceValue' = [sourceValue EXCEPT ![s] = <<s, x>>]
        /\ UNCHANGED <<newest, bypasses, heartbeat, uiQueue>>
    BY <1>2 DEF SpeakValue
  <2>3. sourceValue' \in [Sources -> SourceValues]
    BY <2>1, <2>2, <1>c DEF ControlOK
  <2> QED
    BY <2>1, <2>2, <2>3, <1>c DEF ControlOK
<1>3. CASE SpeakBeat
  <2>1. /\ ctlPc = "beat" /\ ctlPc' = "idle" /\ saying' = << >>
        /\ heartbeat' = [heartbeat EXCEPT ![saying[1]] = @ + 1]
        /\ UNCHANGED <<newest, bypasses, sourceValue, uiQueue>>
    BY <1>3 DEF SpeakBeat
  <2>2. saying[1] \in Sources /\ heartbeat[saying[1]] < MaxBeats
    BY <2>1, <1>c DEF ControlOK
  <2>3. heartbeat' \in [Sources -> 0 .. MaxBeats]
    BY <2>1, <2>2, <1>c DEF ControlOK
  <2> QED
    BY <2>1, <2>3, <1>c DEF ControlOK
<1>4. ASSUME NEW s \in Sources, NEW x \in Levels, BeatEarly(s, x) PROVE ControlOK'
  <2>1. <<s, x>> \in SourceValues /\ <<s, <<s, x>>>> \in Sources \X SourceValues
    BY DEF SourceValues
  <2>2. /\ ctlPc' = "value" /\ saying' = <<s, <<s, x>>>> /\ heartbeat[s] < MaxBeats
        /\ heartbeat' = [heartbeat EXCEPT ![s] = @ + 1]
        /\ UNCHANGED <<newest, bypasses, sourceValue, uiQueue>>
    BY <1>4 DEF BeatEarly
  <2>3. heartbeat' \in [Sources -> 0 .. MaxBeats]
    BY <2>2, <1>c DEF ControlOK
  <2> QED
    BY <2>1, <2>2, <2>3, <1>c DEF ControlOK
<1>5. CASE ValueLate
  <2>1. /\ ctlPc = "value" /\ ctlPc' = "idle" /\ saying' = << >>
        /\ sourceValue' = [sourceValue EXCEPT ![saying[1]] = saying[2]]
        /\ UNCHANGED <<newest, bypasses, heartbeat, uiQueue>>
    BY <1>5 DEF ValueLate
  <2>2. saying[1] \in Sources /\ saying[2] \in SourceValues
    BY <2>1, <1>c DEF ControlOK
  <2>3. sourceValue' \in [Sources -> SourceValues]
    BY <2>1, <2>2, <1>c DEF ControlOK
  <2> QED
    BY <2>1, <2>3, <1>c DEF ControlOK
<1>6. CASE Recycle \/ (\E m \in Modules : Unbind(m) \/ \E s \in Sources : Bind(s, m))
  <2>1. /\ ctlPc' \in {"idle", "recycle"} /\ ctlPc \in {"idle", "recycle"}
        /\ UNCHANGED <<newest, bypasses, srcVars, uiQueue>>
    BY <1>6 DEF Recycle, Unbind, Bind, Publish
  <2> QED
    BY <2>1, <1>c DEF ControlOK, srcVars
<1>7. ASSUME NEW command \in UiCommand, QueueCommand(command), bypasses' \in 0 .. MaxBypasses
      PROVE  ControlOK'
  <2>1. /\ ctlPc = "idle" /\ uiQueue' = Append(uiQueue, command)
        /\ UNCHANGED <<newest, ctlPc, srcVars>>
    BY <1>7 DEF QueueCommand
  <2>2. uiQueue' \in Seq(UiCommand)
    <3> HIDE DEF UiCommand
    <3> QED
      BY <2>1, <1>c DEF ControlOK
  <2> QED
    BY <2>1, <2>2, <1>c, <1>7 DEF ControlOK, srcVars
<1>8. ASSUME NEW m \in Modules, NEW x \in Levels, UiSet(m, x) PROVE ControlOK'
  <2>1. [isBypass |-> FALSE, module |-> m, value |-> <<m, x>>] \in UiCommand
    BY DEF UiCommand, UiValues
  <2>2. bypasses' \in 0 .. MaxBypasses
    BY <1>8, <1>c DEF UiSet, ControlOK
  <2> QED
    BY <2>1, <2>2, <1>7, <1>8 DEF UiSet
<1>9. ASSUME NEW m \in Modules, NEW b \in BOOLEAN, UiSetBypass(m, b) PROVE ControlOK'
  <2>1. [isBypass |-> TRUE, module |-> m, value |-> <<m, b>>] \in UiCommand
    BY DEF UiCommand
  <2>2. bypasses' \in 0 .. MaxBypasses
    BY <1>9, <1>c DEF UiSetBypass, ControlOK
  <2> QED
    BY <2>1, <2>2, <1>7, <1>9 DEF UiSetBypass
<1>10. ASSUME NEW layout \in Layouts, EditChain(layout) PROVE ControlOK'
  BY <1>10, <1>c DEF EditChain, ControlOK, srcVars
<1>11. CASE UNCHANGED vars
  BY <1>11, <1>c DEF vars, ctlVars, srcVars, ControlOK
<1> QED
  BY <1>1, <1>2, <1>3, <1>4, <1>5, <1>6, <1>8, <1>9, <1>10, <1>11 DEF Next, Source, Control

-----------------------------------------------------------------------------
(* The audio thread's own state *)

\* A binding that is applied is one of the array's, and its slot and source exist.
LEMMA BindingIsTyped ==
  ASSUME IInv, audPc = "bindings", at \in DOMAIN bindings[current]
  PROVE  /\ at \in Index /\ bindings[current][at] \in Binding
         /\ pending[at] \in Pending
<1>1. current \in DOMAIN bindings
  BY DEF IInv, TablesOK, SwapOK, Alive, WhereOK
<1>2. bindings[current] \in Seq(Binding) /\ Len(bindings[current]) <= MaxBindings
  BY <1>1 DEF IInv, TablesOK, SwapOK, TablesTyped, KeyedOnce
<1>3. at \in Index /\ bindings[current][at] \in Binding
  <2> HIDE DEF Binding
  <2> QED
    BY <1>2 DEF Index
<1> QED
  BY <1>3 DEF IInv, AudioOK

LEMMA WriteIsTyped ==
  ASSUME AudioOK, NEW slot, NEW v \in Values, Write(slot, v)
  PROVE  value' \in [Modules -> Values]
BY DEF Write, AudioOK

\* A heartbeat noted in a pending entry leaves it an entry.
LEMMA BeatIsPending ==
  ASSUME NEW p \in Pending, NEW h \in 0 .. MaxBeats
  PROVE  [p EXCEPT !.beat = h, !.since = 0] \in Pending
<1>1. MaxBeats \in Nat /\ MaxTicks \in Nat
  BY BoundsAssumption
<1>2. h \in -1 .. MaxBeats /\ 0 \in 0 .. MaxTicks
  BY <1>1
<1> QED
  BY <1>2 DEF Pending

LEMMA AudioStaysOK ==
  ASSUME IInv, [Next]_vars
  PROVE  AudioOK'
<1>a. AudioOK /\ ControlOK
  BY DEF IInv
<1>1. CASE Source \/ Control \/ UNCHANGED vars
  <2>1. UNCHANGED audVars
    BY <1>1 DEF Source, SpeakValue, BeatEarly, SpeakBeat, ValueLate, Control, Unbind, Bind, Publish,
       Recycle, UiSet, UiSetBypass, QueueCommand, EditChain, vars
  <2> QED
    BY <2>1, <1>a DEF audVars, AudioOK
<1>2. CASE ApplyBegin
  <2>1. /\ audPc' = "commands" /\ live' = newest /\ at' = at
        /\ value' = [m \in Modules |->
                       IF m \in Present(newest) \ Present(live) THEN Preset ELSE value[m]]
        /\ bypassed' = bypassed \cap Present(newest)
        /\ pending' = [i \in Index |->
                         IF pending[i].beat = -1 THEN pending[i]
                         ELSE [pending[i] EXCEPT !.since = OneBlockLater(@)]]
    BY <1>2 DEF ApplyBegin
  <2>2. Preset \in Values
    BY DEF Values
  <2>3. value' \in [Modules -> Values]
    BY <2>1, <2>2, <1>a DEF AudioOK
  <2>4. pending' \in [Index -> Pending]
    <3>1. ASSUME NEW i \in Index
          PROVE  [pending[i] EXCEPT !.since = OneBlockLater(@)] \in Pending /\ pending[i] \in Pending
      <4>1. pending[i] \in Pending
        BY <1>a DEF AudioOK
      <4>2. pending[i].since \in 0 .. MaxTicks
        BY <4>1 DEF Pending
      <4>3. OneBlockLater(pending[i].since) \in 0 .. MaxTicks
        BY <4>2 DEF OneBlockLater
      <4> QED
        BY <4>1, <4>3 DEF Pending
    <3> QED
      BY <2>1, <3>1
  <2> QED
    BY <2>1, <2>3, <2>4, <1>a DEF AudioOK, ControlOK
<1>3. CASE ApplyBypass
  <2>1. /\ Head(uiQueue) \in UiCommand /\ Head(uiQueue).isBypass
    BY <1>3, <1>a, PopIsCommand DEF ApplyBypass, PopCommand
  <2>2. Head(uiQueue).module \in Modules
    BY <2>1 DEF UiCommand
  <2>3. bypassed' \subseteq Modules
    BY <1>3, <2>2, <1>a DEF ApplyBypass, AudioOK
  <2>4. UNCHANGED <<live, audPc, at, value, pending>>
    BY <1>3 DEF ApplyBypass, PopCommand
  <2> QED
    BY <2>3, <2>4, <1>a DEF AudioOK
<1>4. ASSUME ~Head(uiQueue).isBypass, uiQueue # << >>
      PROVE  Head(uiQueue).value \in Values
  <2>1. Head(uiQueue) \in UiCommand
    BY <1>4, <1>a, PopIsCommand
  <2>2. Head(uiQueue).value \in UiValues
    BY <1>4, <2>1 DEF UiCommand
  <2> QED
    BY <2>2 DEF Values
<1>5. CASE ApplyUnbound
  <2>1. /\ UNCHANGED <<live, audPc, at, pending, bypassed>>
        /\ ~Head(uiQueue).isBypass /\ uiQueue # << >>
        /\ value' = value \/ Write(live[Head(uiQueue).module], Head(uiQueue).value)
    BY <1>5 DEF ApplyUnbound, PopCommand
  <2>2. value' \in [Modules -> Values]
    BY <2>1, <1>4, <1>a, WriteIsTyped DEF AudioOK
  <2> QED
    BY <2>1, <2>2, <1>a DEF AudioOK
<1>6. CASE ApplyQueued
  <2>1. /\ UNCHANGED <<live, audPc, at, value, bypassed>>
        /\ ~Head(uiQueue).isBypass /\ uiQueue # << >>
    BY <1>6 DEF ApplyQueued, PopCommand
  <2>2. PICK i \in DOMAIN BindingsOf(current) :
          pending' = [pending EXCEPT ![i].active = TRUE, ![i].value = Head(uiQueue).value]
    BY <1>6 DEF ApplyQueued
  <2>3. i \in Index
    <3>1. current # NoTable
      BY DEF BindingsOf
    <3>2. current \in DOMAIN bindings /\ BindingsOf(current) = bindings[current]
      BY <3>1 DEF IInv, TablesOK, SwapOK, Alive, BindingsOf
    <3>3. bindings[current] \in Seq(Binding) /\ Len(bindings[current]) <= MaxBindings
      BY <3>2 DEF IInv, TablesOK, SwapOK, TablesTyped, KeyedOnce
    <3> QED
      BY <3>2, <3>3 DEF Index
  <2>4. pending' \in [Index -> Pending]
    <3>1. pending[i] \in Pending /\ Head(uiQueue).value \in Values
      BY <2>1, <2>3, <1>4, <1>a DEF AudioOK
    <3>2. pending' = [pending EXCEPT ![i] =
                        [pending[i] EXCEPT !.active = TRUE, !.value = Head(uiQueue).value]]
      BY <2>2, <2>3, <1>a DEF AudioOK
    <3>3. [pending[i] EXCEPT !.active = TRUE, !.value = Head(uiQueue).value] \in Pending
      BY <3>1 DEF Pending
    <3> QED
      BY <3>2, <3>3, <2>3, <1>a DEF AudioOK
  <2> QED
    BY <2>1, <2>4, <1>a DEF AudioOK
<1>7. CASE CommandsDone \/ ApplyEnd
  <2>1. /\ UNCHANGED <<live, value, bypassed, pending>>
        /\ audPc' \in {"idle", "table"} /\ at' \in {at, 1}
    BY <1>7 DEF CommandsDone, ApplyEnd
  <2> QED
    BY <2>1, <1>a DEF AudioOK
<1>8. CASE ApplyTable
  <2>1. /\ UNCHANGED <<live, value, bypassed, at>> /\ audPc' = "bindings"
        /\ pending' = pending \/ pending' = [i \in Index |-> NotPending]
    BY <1>8 DEF ApplyTable
  <2>2. NotPending \in Pending
    BY DEF NotPending, Pending, Values, SourceValues
  <2>3. pending' \in [Index -> Pending]
    BY <2>1, <2>2, <1>a DEF AudioOK
  <2> QED
    BY <2>1, <2>3, <1>a DEF AudioOK
<1>9. ASSUME NEW p \in Pending, NextBinding(p), value' \in [Modules -> Values]
      PROVE  AudioOK'
  <2>1. /\ audPc = "bindings" /\ at \in DOMAIN bindings[current] /\ at' = at + 1
        /\ pending' = [pending EXCEPT ![at] = p] /\ UNCHANGED <<live, bypassed, audPc>>
    BY <1>9 DEF NextBinding
  <2>2. at \in Index
    BY <2>1, BindingIsTyped
  <2>3. pending' \in [Index -> Pending] /\ at' \in 1 .. MaxBindings + 1
    BY <2>1, <2>2, <1>a DEF AudioOK, Index
  <2> QED
    BY <2>1, <2>3, <1>a, <1>9 DEF AudioOK
<1>10. CASE ApplyBinding
  <2> DEFINE b == bindings[current][at]
  <2>1. audPc = "bindings" /\ at \in DOMAIN bindings[current]
    BY <1>10 DEF ApplyBinding, SkipBinding, HearSource, FollowSource, ReleaseSource, NextBinding
  <2>2. /\ at \in Index /\ b \in Binding /\ pending[at] \in Pending
    BY <2>1, BindingIsTyped
  <2> HIDE DEF b
  <2>3. b.source \in Sources
    BY <2>2 DEF Binding
  <2>4. sourceValue[b.source] \in Values /\ heartbeat[b.source] \in 0 .. MaxBeats
    BY <2>3, <1>a DEF ControlOK, Values
  <2>5. [pending[at] EXCEPT !.active = FALSE] \in Pending
    BY <2>2 DEF Pending
  <2>6. [pending[at] EXCEPT !.beat = heartbeat[b.source], !.since = 0] \in Pending
    BY <2>2, <2>4, BeatIsPending
  <2>7. pending[at].value \in Values
    BY <2>2 DEF Pending
  <2>8. CASE SkipBinding
    <3>1. NextBinding([pending[at] EXCEPT !.active = FALSE]) /\ value' = value
      BY <2>8 DEF SkipBinding
    <3> QED
      BY <3>1, <2>5, <1>9, <1>a DEF AudioOK
  <2>9. CASE HearSource
    <3>1. /\ NextBinding([pending[at] EXCEPT !.beat = heartbeat[b.source], !.since = 0])
          /\ Write(b.slot, sourceValue[b.source])
      BY <2>9 DEF HearSource, b
    <3> QED
      BY <3>1, <2>4, <2>6, <1>9, <1>a, WriteIsTyped
  <2>10. CASE FollowSource
    <3>1. NextBinding(pending[at]) /\ Write(b.slot, sourceValue[b.source])
      BY <2>10 DEF FollowSource, b
    <3> QED
      BY <3>1, <2>2, <2>4, <1>9, <1>a, WriteIsTyped
  <2>11. CASE ReleaseSource
    <3>1. /\ NextBinding([pending[at] EXCEPT !.active = FALSE])
          /\ value' = value \/ Write(b.slot, pending[at].value)
      BY <2>11 DEF ReleaseSource, b
    <3>2. value' \in [Modules -> Values]
      BY <3>1, <2>7, <1>a, WriteIsTyped DEF AudioOK
    <3> QED
      BY <3>1, <3>2, <2>5, <1>9
  <2> QED
    BY <1>10, <2>8, <2>9, <2>10, <2>11 DEF ApplyBinding
<1> QED
  BY <1>1, <1>2, <1>3, <1>5, <1>6, <1>7, <1>8, <1>10 DEF Next, Audio, ApplyCommand

LEMMA HistoryStaysOK ==
  ASSUME IInv, [Next]_vars
  PROVE  HistoryOK'
<1>1. CASE Source \/ Control \/ UNCHANGED vars
  BY <1>1 DEF Source, SpeakValue, BeatEarly, SpeakBeat, ValueLate, Control, Unbind, Bind, Publish,
     Recycle, UiSet, UiSetBypass, QueueCommand, EditChain, vars, audVars, historyVars, IInv, HistoryOK
<1>2. CASE ApplyBegin \/ ApplyCommand \/ CommandsDone \/ ApplyEnd
  BY <1>2 DEF ApplyBegin, ApplyCommand, ApplyBypass, ApplyUnbound, ApplyQueued, PopCommand,
     CommandsDone, ApplyEnd, historyVars, IInv, HistoryOK
<1>3. CASE ApplyTable
  <2>1. current \in DOMAIN bindings /\ bindings[current] \in Seq(Binding)
    BY <1>3 DEF ApplyTable, IInv, TablesOK, SwapOK, TablesTyped, Alive, WhereOK
  <2>2. \A i \in DOMAIN bindings[current] : bindings[current][i].key \in Modules
    <3> TAKE i \in DOMAIN bindings[current]
    <3>1. bindings[current][i] \in Binding
      <4> HIDE DEF Binding
      <4> QED
        BY <2>1
    <3> QED
      BY <3>1 DEF Binding
  <2> QED
    BY <1>3, <2>2 DEF ApplyTable, IInv, HistoryOK
<1>4. CASE ApplyBinding
  <2>1. CASE HearSource
    <3>1. /\ Listened(bindings[current][at])
          /\ audPc = "bindings" /\ at \in DOMAIN bindings[current]
      BY <2>1 DEF HearSource, NextBinding
    <3>2. bindings[current][at].source \in Sources /\ bindings[current][at].key \in Modules
      BY <3>1, BindingIsTyped DEF Binding
    <3>3. heartbeat[bindings[current][at].source] \in 0 .. MaxBeats
      BY <3>2 DEF IInv, ControlOK
    <3> QED
      BY <3>1, <3>2, <3>3 DEF Listened, IInv, HistoryOK
  <2>2. CASE SkipBinding \/ FollowSource \/ ReleaseSource
    BY <2>2 DEF SkipBinding, FollowSource, ReleaseSource, historyVars, IInv, HistoryOK
  <2> QED
    BY <1>4, <2>1, <2>2 DEF ApplyBinding
<1> QED
  BY <1>1, <1>2, <1>3, <1>4 DEF Next, Audio

-----------------------------------------------------------------------------
(* The tables between the threads *)

\* What a concatenation holds, for bindings.
LEMMA ConcatIsTyped ==
  ASSUME NEW S, NEW u \in Seq(S), NEW w \in Seq(S)
  PROVE  /\ u \o w \in Seq(S) /\ Len(u \o w) = Len(u) + Len(w)
         /\ \A j \in 1 .. Len(u) + Len(w) :
              (u \o w)[j] = IF j <= Len(u) THEN u[j] ELSE w[j - Len(u)]
  OBVIOUS

LEMMA RemoveKeepsKeys ==
  ASSUME NEW s \in Seq(Binding), KeyedOnce(s), NEW i \in DOMAIN s
  PROVE  /\ RemoveAt(s, i) \in Seq(Binding) /\ KeyedOnce(RemoveAt(s, i))
         /\ \A j \in DOMAIN RemoveAt(s, i) : \E k \in DOMAIN s : RemoveAt(s, i)[j] = s[k]
<1> DEFINE r == RemoveAt(s, i)
<1> HIDE DEF Binding
<1>1. /\ Len(s) \in Nat /\ DOMAIN s = 1 .. Len(s) /\ i \in 1 .. Len(s)
  OBVIOUS
<1>2. /\ SubSeq(s, 1, i - 1) \in Seq(Binding) /\ Len(SubSeq(s, 1, i - 1)) = i - 1
      /\ \A j \in 1 .. i - 1 : SubSeq(s, 1, i - 1)[j] = s[j]
  BY <1>1
<1>3. /\ SubSeq(s, i + 1, Len(s)) \in Seq(Binding)
      /\ Len(SubSeq(s, i + 1, Len(s))) = Len(s) - i
      /\ \A j \in 1 .. Len(s) - i : SubSeq(s, i + 1, Len(s))[j] = s[i + j]
  BY <1>1
<1>4. /\ r \in Seq(Binding) /\ Len(r) = Len(s) - 1 /\ DOMAIN r = 1 .. Len(s) - 1
      /\ \A j \in DOMAIN r : r[j] = IF j < i THEN s[j] ELSE s[j + 1]
  <2> DEFINE u == SubSeq(s, 1, i - 1)
             w == SubSeq(s, i + 1, Len(s))
  <2>1. r = u \o w
    BY DEF RemoveAt
  <2>2. /\ u \in Seq(Binding) /\ Len(u) = i - 1 /\ w \in Seq(Binding) /\ Len(w) = Len(s) - i
        /\ \A j \in 1 .. i - 1 : u[j] = s[j] /\ \A k \in 1 .. Len(s) - i : w[k] = s[i + k]
    BY <1>2, <1>3
  <2> HIDE DEF u, w, r
  <2>3. r \in Seq(Binding) /\ Len(r) = Len(s) - 1
    <3>1. r \in Seq(Binding) /\ Len(r) = Len(u) + Len(w)
      BY <2>1, <2>2, ConcatIsTyped
    <3> QED
      BY <3>1, <1>1, <2>2
  <2>4. ASSUME NEW j \in 1 .. Len(s) - 1 PROVE r[j] = IF j < i THEN s[j] ELSE s[j + 1]
    <3>1. CASE j < i
      <4>1. j \in 1 .. Len(u) /\ j \in 1 .. Len(u) + Len(w) /\ j \in 1 .. i - 1
        BY <3>1, <1>1, <2>2
      <4>2. r[j] = u[j]
        BY <4>1, <2>1, <2>2, ConcatIsTyped
      <4> QED
        BY <3>1, <4>1, <4>2, <2>2
    <3>2. CASE ~(j < i)
      <4>1. j - (i - 1) \in 1 .. Len(s) - i /\ i + (j - (i - 1)) = j + 1
        BY <3>2, <1>1
      <4>2. r[j] = w[j - (i - 1)]
        <5>1. j \in 1 .. Len(u) + Len(w) /\ ~(j <= Len(u)) /\ Len(u) = i - 1
          BY <3>2, <1>1, <2>2
        <5> QED
          BY <5>1, <2>1, <2>2, ConcatIsTyped
      <4>3. w[j - (i - 1)] = s[i + (j - (i - 1))]
        BY <4>1, <1>3 DEF w
      <4> QED
        BY <3>2, <4>1, <4>2, <4>3
    <3> QED
      BY <3>1, <3>2
  <2> QED
    BY <2>3, <2>4
<1> HIDE DEF r
<1>5. KeyedOnce(r)
  <2>1. Len(r) <= MaxBindings
    BY <1>1, <1>4 DEF KeyedOnce
  <2>2. ASSUME NEW j \in DOMAIN r, NEW k \in DOMAIN r, r[j].key = r[k].key PROVE j = k
    <3> DEFINE f == IF j < i THEN j ELSE j + 1
               g == IF k < i THEN k ELSE k + 1
    <3>1. f \in DOMAIN s /\ g \in DOMAIN s /\ r[j] = s[f] /\ r[k] = s[g]
      BY <1>1, <1>4
    <3>2. f = g
      BY <2>2, <3>1 DEF KeyedOnce
    <3> QED
      BY <3>2, <1>1, <1>4
  <2> QED
    BY <2>1, <2>2 DEF KeyedOnce
<1>6. ASSUME NEW j \in DOMAIN r PROVE \E k \in DOMAIN s : r[j] = s[k]
  <2> DEFINE f == IF j < i THEN j ELSE j + 1
  <2>1. f \in DOMAIN s /\ r[j] = s[f]
    BY <1>1, <1>4
  <2> QED
    BY <2>1
<1> QED
  BY <1>4, <1>5, <1>6 DEF r

\* A fresh table is none that a thread or the queue still has.
LEMMA PublishKeepsTables ==
  ASSUME IInv, ctlPc = "idle", NEW fresh \in Seq(Binding), KeyedOnce(fresh), Publish(fresh)
  PROVE  TablesOK'
<1>1. PICK t \in Tables \ DOMAIN bindings :
        /\ table' = t
        /\ bindings' = [u \in {t} \cup (InUse \cap DOMAIN bindings) |->
                         IF u = t THEN fresh ELSE bindings[u]]
  BY DEF Publish
<1>2. ctlPc' = "recycle" /\ UNCHANGED <<releaseQueue, lastTable, current, audPc>>
  BY DEF Publish, audVars
<1>3. SwapOK /\ \A u \in DOMAIN bindings : KeyedOnce(bindings[u])
  BY DEF IInv, TablesOK
<1>4. /\ t # NoTable /\ t \notin ToSet(releaseQueue) /\ t # lastTable /\ t # current
  BY <1>1, <1>3 DEF SwapOK, Alive
<1>5. /\ DOMAIN bindings' = {t} \cup (InUse \cap DOMAIN bindings)
      /\ bindings'[t] = fresh
      /\ \A u \in InUse \cap DOMAIN bindings : bindings'[u] = bindings[u]
  BY <1>1
<1>6. TablesTyped'
  BY <1>1, <1>2, <1>3, <1>5 DEF SwapOK, TablesTyped
<1>7. Alive'
  BY <1>1, <1>2, <1>3, <1>5 DEF SwapOK, Alive, InUse
<1>8. HandedBackOnce' /\ WhereOK'
  BY <1>1, <1>2, <1>3, <1>4 DEF SwapOK, HandedBackOnce, WhereOK
<1>9. RoomOK'
  <2>1. ToCome \in Nat /\ ToCome' \in Nat /\ ToCome' <= ToCome + 1
    BY <1>1, <1>2, <1>4 DEF ToCome
  <2>2. Len(releaseQueue) \in Nat /\ Len(releaseQueue') = Len(releaseQueue)
    BY <1>2, <1>3 DEF SwapOK, TablesTyped
  <2>3. Len(releaseQueue) + ToCome <= 2
    BY <1>3 DEF SwapOK, RoomOK
  <2> QED
    BY <2>1, <2>2, <2>3, <1>2 DEF RoomOK
<1>10. \A u \in DOMAIN bindings' : KeyedOnce(bindings'[u])
  BY <1>3, <1>5
<1> QED
  BY <1>6, <1>7, <1>8, <1>9, <1>10 DEF TablesOK, SwapOK, KeyedOnce

LEMMA BindKeepsTables ==
  ASSUME IInv, NEW s \in Sources, NEW m \in Modules, Bind(s, m)
  PROVE  TablesOK'
<1> DEFINE old == BindingsOf(table)
           b   == [source |-> s, slot |-> newest[m], key |-> m]
<1>1. ctlPc = "idle" /\ m \in Present(newest)
  BY DEF Bind
<1>2. b \in Binding
  <2>1. newest \in [Modules -> Slots \cup {Absent}]
    BY DEF IInv, ControlOK
  <2>2. newest[m] \in Slots
    BY <2>1, <1>1 DEF Present
  <2> QED
    BY <2>2 DEF Binding
<1>3. old \in Seq(Binding) /\ KeyedOnce(old)
  <2>1. CASE table = NoTable
    <3>1. old = << >>
      BY <2>1 DEF BindingsOf
    <3> QED
      BY <3>1 DEF KeyedOnce
  <2>2. CASE table # NoTable
    BY <2>2 DEF BindingsOf, IInv, TablesOK, SwapOK, TablesTyped, Alive
  <2> QED
    BY <2>1, <2>2
<1>b. b.key = m
  OBVIOUS
<1>4. ASSUME NEW i \in DOMAIN old, old[i].key = m, Publish([old EXCEPT ![i] = b])
      PROVE  TablesOK'
  <2> HIDE DEF b, old
  <2>1. [old EXCEPT ![i] = b] \in Seq(Binding)
    <3> HIDE DEF Binding
    <3> QED
      BY <1>2, <1>3
  <2>2. /\ Len([old EXCEPT ![i] = b]) = Len(old)
        /\ DOMAIN [old EXCEPT ![i] = b] = DOMAIN old
        /\ \A j \in DOMAIN old : [old EXCEPT ![i] = b][j] = IF j = i THEN b ELSE old[j]
    BY <1>3
  <2>3. KeyedOnce([old EXCEPT ![i] = b])
    BY <2>2, <1>3, <1>4, <1>b DEF KeyedOnce
  <2> QED
    BY <2>1, <2>3, <1>1, <1>4, PublishKeepsTables
<1>5. ASSUME ~Bound(table, m), Len(old) < MaxBindings, Publish(Append(old, b))
      PROVE  TablesOK'
  <2>1. \A i \in DOMAIN old : old[i].key # m
    BY <1>5 DEF Bound
  <2> HIDE DEF b, old
  <2>2. /\ Append(old, b) \in Seq(Binding) /\ Len(old) \in Nat
        /\ Len(Append(old, b)) = Len(old) + 1 /\ DOMAIN old = 1 .. Len(old)
        /\ DOMAIN Append(old, b) = 1 .. Len(old) + 1
        /\ Append(old, b)[Len(old) + 1] = b
        /\ \A j \in 1 .. Len(old) : Append(old, b)[j] = old[j]
    <3> HIDE DEF Binding
    <3> QED
      BY <1>2, <1>3
  <2>3. KeyedOnce(Append(old, b))
    <3>1. Len(Append(old, b)) <= MaxBindings
      BY <2>2, <1>5
    <3> DEFINE r == Append(old, b)
    <3>2. /\ DOMAIN r = 1 .. Len(old) + 1 /\ r[Len(old) + 1] = b /\ DOMAIN old = 1 .. Len(old)
          /\ Len(old) \in Nat /\ \A j \in 1 .. Len(old) : r[j] = old[j]
      BY <2>2
    <3> HIDE DEF r
    <3>3. \A i, j \in DOMAIN r : r[i].key = r[j].key => i = j
      BY <3>2, <2>1, <1>3, <1>b DEF KeyedOnce
    <3> QED
      BY <3>1, <3>3 DEF KeyedOnce, r
  <2> QED
    BY <2>2, <2>3, <1>1, <1>5, PublishKeepsTables
<1> QED
  BY <1>4, <1>5 DEF Bind

LEMMA UnbindKeepsTables ==
  ASSUME IInv, NEW m \in Modules, Unbind(m)
  PROVE  TablesOK'
<1>1. PICK i \in DOMAIN BindingsOf(table) : Publish(RemoveAt(bindings[table], i))
  BY DEF Unbind
<1>2. table # NoTable /\ ctlPc = "idle"
  BY <1>1 DEF BindingsOf, Unbind
<1>3. /\ table \in DOMAIN bindings /\ BindingsOf(table) = bindings[table]
      /\ bindings[table] \in Seq(Binding) /\ KeyedOnce(bindings[table])
  BY <1>2 DEF BindingsOf, IInv, TablesOK, SwapOK, TablesTyped, Alive
<1>4. RemoveAt(bindings[table], i) \in Seq(Binding) /\ KeyedOnce(RemoveAt(bindings[table], i))
  BY <1>1, <1>3, RemoveKeepsKeys
<1> QED
  BY <1>1, <1>2, <1>4, PublishKeepsTables

\* What is popped is nobody's any more and is not in the queue again.
LEMMA RecycleKeepsTables ==
  ASSUME IInv, Recycle
  PROVE  TablesOK'
<1>1. SwapOK /\ \A u \in DOMAIN bindings : KeyedOnce(bindings[u])
  BY DEF IInv, TablesOK
<1>2. ctlPc = "recycle" /\ UNCHANGED <<table, lastTable, current, audPc>>
  BY DEF Recycle, audVars
<1>3. ToCome' = ToCome /\ ToCome \in 0 .. 2
  BY <1>2 DEF ToCome
<1>4. CASE releaseQueue = << >>
  <2>1. ctlPc' = "idle" /\ UNCHANGED <<bindings, releaseQueue>>
    BY <1>4 DEF Recycle
  <2>2. RoomOK'
    BY <1>3, <1>4, <2>1 DEF RoomOK
  <2> QED
    BY <1>1, <1>2, <2>1, <2>2
    DEF TablesOK, SwapOK, TablesTyped, Alive, HandedBackOnce, WhereOK, KeyedOnce
<1>5. CASE releaseQueue # << >>
  <2> DEFINE h == Head(releaseQueue)
  <2>1. /\ bindings' = [t \in DOMAIN bindings \ {h} |-> bindings[t]]
        /\ releaseQueue' = Tail(releaseQueue) /\ ctlPc' = ctlPc
    BY <1>5 DEF Recycle
  <2>2. releaseQueue \in Seq(Tables) /\ IsInjective(releaseQueue)
    BY <1>1 DEF SwapOK, TablesTyped, HandedBackOnce
  <2>3. /\ releaseQueue' \in Seq(Tables) /\ Len(releaseQueue') = Len(releaseQueue) - 1
        /\ ToSet(releaseQueue') = ToSet(releaseQueue) \ {h}
        /\ IsInjective(releaseQueue') /\ h \in ToSet(releaseQueue) /\ Len(releaseQueue) \in Nat
    BY <1>5, <2>1, <2>2, QueueShrinks
  <2> HIDE DEF h
  <2>4. /\ DOMAIN bindings' = DOMAIN bindings \ {h}
        /\ \A u \in DOMAIN bindings' : bindings'[u] = bindings[u]
    BY <2>1
  <2>5. TablesTyped' /\ Alive' /\ HandedBackOnce'
    BY <1>1, <1>2, <2>3, <2>4 DEF SwapOK, TablesTyped, Alive, HandedBackOnce
  <2>6. WhereOK'
    BY <1>1, <1>2 DEF SwapOK, WhereOK
  <2>7. RoomOK'
    BY <1>1, <1>2, <1>3, <2>1, <2>3 DEF SwapOK, RoomOK
  <2>8. \A u \in DOMAIN bindings' : KeyedOnce(bindings'[u])
    BY <1>1, <2>4
  <2> QED
    BY <2>5, <2>6, <2>7, <2>8 DEF TablesOK, SwapOK, KeyedOnce
<1> QED
  BY <1>4, <1>5

\* Only here a table is handed back: the one the audio thread had before, which the
\* control thread has replaced at least once since.
LEMMA ApplyTableKeepsTables ==
  ASSUME IInv, ApplyTable
  PROVE  TablesOK'
<1>1. SwapOK /\ \A u \in DOMAIN bindings : KeyedOnce(bindings[u])
  BY DEF IInv, TablesOK
<1>2. /\ audPc = "table" /\ audPc' = "bindings"
      /\ UNCHANGED <<table, current, bindings, ctlPc>>
  BY DEF ApplyTable, ctlVars
<1>3. current # NoTable
  BY <1>1, <1>2 DEF SwapOK, WhereOK
<1>4. CASE current = lastTable
  <2>1. UNCHANGED <<releaseQueue, lastTable>>
    BY <1>4 DEF ApplyTable
  <2>2. ToCome' = ToCome
    BY <1>2, <1>4, <2>1 DEF ToCome
  <2>3. WhereOK' /\ RoomOK'
    BY <1>1, <1>2, <1>3, <1>4, <2>1, <2>2 DEF SwapOK, WhereOK, RoomOK
  <2> QED
    BY <1>1, <1>2, <2>1, <2>3
    DEF TablesOK, SwapOK, TablesTyped, Alive, HandedBackOnce, KeyedOnce
<1>5. CASE current # lastTable
  <2>1. lastTable' = current /\ table # lastTable
    BY <1>1, <1>2, <1>5 DEF ApplyTable, SwapOK, WhereOK
  <2>2. /\ releaseQueue \in Seq(Tables) /\ IsInjective(releaseQueue)
        /\ Len(releaseQueue) \in Nat
    BY <1>1 DEF SwapOK, TablesTyped, HandedBackOnce
  <2>3. ToCome = ToCome' + 1 /\ ToCome' \in Nat
    BY <1>2, <1>5, <2>1 DEF ToCome
  <2>4. WhereOK'
    BY <1>2, <1>3, <2>1 DEF WhereOK
  <2>5. CASE releaseQueue' = releaseQueue
    <3>1. RoomOK'
      BY <1>1, <1>2, <2>2, <2>3, <2>5 DEF SwapOK, RoomOK
    <3> QED
      BY <1>1, <1>2, <2>1, <2>4, <2>5, <3>1
      DEF TablesOK, SwapOK, TablesTyped, Alive, HandedBackOnce, KeyedOnce
  <2>6. CASE lastTable # NoTable /\ releaseQueue' = Append(releaseQueue, lastTable)
    <3>1. lastTable \in Tables /\ lastTable \notin ToSet(releaseQueue) /\ lastTable \in DOMAIN bindings
      BY <1>1, <2>6 DEF SwapOK, TablesTyped, HandedBackOnce, Alive
    <3>2. /\ releaseQueue' \in Seq(Tables) /\ Len(releaseQueue') = Len(releaseQueue) + 1
          /\ ToSet(releaseQueue') = ToSet(releaseQueue) \cup {lastTable}
          /\ IsInjective(releaseQueue')
      BY <2>2, <2>6, <3>1, QueueGrows
    <3>3. TablesTyped' /\ Alive'
      BY <1>1, <1>2, <2>1, <3>1, <3>2 DEF SwapOK, TablesTyped, Alive
    <3>4. HandedBackOnce'
      BY <1>1, <1>2, <1>5, <2>1, <3>2 DEF SwapOK, HandedBackOnce
    <3>5. RoomOK'
      BY <1>1, <1>2, <2>2, <2>3, <3>2 DEF SwapOK, RoomOK
    <3>6. (\A u \in DOMAIN bindings : KeyedOnce(bindings[u]))'
      BY <1>1, <1>2 DEF KeyedOnce
    <3> QED
      BY <2>4, <3>3, <3>4, <3>5, <3>6 DEF TablesOK, SwapOK
  <2> QED
    BY <1>5, <2>5, <2>6 DEF ApplyTable
<1> QED
  BY <1>4, <1>5

LEMMA BlockKeepsTables ==
  ASSUME IInv, ApplyBegin \/ CommandsDone \/ ApplyEnd
  PROVE  TablesOK'
<1>1. SwapOK /\ \A u \in DOMAIN bindings : KeyedOnce(bindings[u])
  BY DEF IInv, TablesOK
<1>2. /\ UNCHANGED <<table, bindings, releaseQueue, ctlPc, lastTable>>
      /\ current' \in {current, table, NoTable}
  BY DEF ApplyBegin, CommandsDone, ApplyEnd, ctlVars
<1>3. TablesTyped' /\ Alive' /\ HandedBackOnce'
  BY <1>1, <1>2 DEF SwapOK, TablesTyped, Alive, HandedBackOnce
<1>4. WhereOK'
  <2>1. CASE ApplyBegin
    BY <2>1 DEF ApplyBegin, WhereOK
  <2>2. CASE CommandsDone
    BY <1>1, <1>2, <2>2 DEF CommandsDone, SwapOK, WhereOK
  <2>3. CASE ApplyEnd
    BY <2>3 DEF ApplyEnd, WhereOK
  <2> QED
    BY <2>1, <2>2, <2>3
<1>5. RoomOK'
  <2>1. ToCome' <= ToCome /\ ToCome \in Nat /\ ToCome' \in Nat
    <3>1. CASE ApplyBegin
      BY <3>1 DEF ApplyBegin, ToCome
    <3>2. CASE CommandsDone
      BY <3>2, <1>2 DEF CommandsDone, ToCome
    <3>3. CASE ApplyEnd
      BY <3>3 DEF ApplyEnd, ToCome
    <3> QED
      BY <3>1, <3>2, <3>3
  <2>2. Len(releaseQueue) \in Nat
    BY <1>1 DEF SwapOK, TablesTyped
  <2> QED
    BY <1>1, <1>2, <2>1, <2>2 DEF SwapOK, RoomOK
<1>6. (\A u \in DOMAIN bindings : KeyedOnce(bindings[u]))'
  BY <1>1, <1>2 DEF KeyedOnce
<1> QED
  BY <1>3, <1>4, <1>5, <1>6 DEF TablesOK, SwapOK

\* Everything else leaves the tables where they are.
LEMMA OthersKeepTables ==
  ASSUME IInv, UNCHANGED <<table, bindings, releaseQueue, lastTable, current, audPc>>,
         ctlPc' = ctlPc \/ (ctlPc # "recycle" /\ ctlPc' # "recycle")
  PROVE  TablesOK'
<1>1. SwapOK /\ \A u \in DOMAIN bindings : KeyedOnce(bindings[u])
  BY DEF IInv, TablesOK
<1>2. ToCome' = ToCome
  BY DEF ToCome
<1>3. RoomOK'
  BY <1>1, <1>2 DEF SwapOK, RoomOK
<1> QED
  BY <1>1, <1>3 DEF TablesOK, SwapOK, TablesTyped, Alive, HandedBackOnce, WhereOK, KeyedOnce

LEMMA TablesStayOK ==
  ASSUME IInv, [Next]_vars
  PROVE  TablesOK'
<1>1. CASE \/ Source
           \/ \E m \in Modules, x \in Levels : UiSet(m, x)
           \/ \E m \in Modules, b \in BOOLEAN : UiSetBypass(m, b)
           \/ \E layout \in Layouts : EditChain(layout)
  <2>1. /\ UNCHANGED <<table, bindings, releaseQueue, lastTable, current, audPc>>
        /\ ctlPc' = ctlPc \/ (ctlPc # "recycle" /\ ctlPc' # "recycle")
    BY <1>1 DEF Source, SpeakValue, BeatEarly, SpeakBeat, ValueLate, UiSet, UiSetBypass,
       QueueCommand, EditChain, audVars
  <2> QED
    BY <2>1, OthersKeepTables
<1>2. CASE ApplyCommand \/ ApplyBinding
  <2>1. UNCHANGED <<table, bindings, releaseQueue, lastTable, current, audPc, ctlPc>>
    BY <1>2 DEF ApplyCommand, ApplyBypass, ApplyUnbound, ApplyQueued, PopCommand, ApplyBinding,
       SkipBinding, HearSource, FollowSource, ReleaseSource, NextBinding, ctlVars
  <2> QED
    BY <2>1, OthersKeepTables
<1>3. CASE UNCHANGED vars
  BY <1>3, OthersKeepTables DEF vars, ctlVars, audVars
<1>4. CASE Control
  <2>1. ASSUME NEW m \in Modules, Unbind(m) \/ \E s \in Sources : Bind(s, m)
        PROVE  TablesOK'
    BY <2>1, BindKeepsTables, UnbindKeepsTables
  <2>2. CASE Recycle
    BY <2>2, RecycleKeepsTables
  <2>3. CASE \/ \E m \in Modules, x \in Levels : UiSet(m, x)
             \/ \E m \in Modules, b \in BOOLEAN : UiSetBypass(m, b)
             \/ \E layout \in Layouts : EditChain(layout)
    BY <1>1, <2>3, Zenon
  <2>4. CASE \E m \in Modules : Unbind(m) \/ \E s \in Sources : Bind(s, m)
    BY <2>1, <2>4
  <2> QED
    BY <1>4, <2>2, <2>3, <2>4, Zenon DEF Control
<1>5. CASE Audio
  BY <1>2, <1>5, BlockKeepsTables, ApplyTableKeepsTables DEF Audio
<1> QED
  BY <1>1, <1>3, <1>4, <1>5 DEF Next

LEMMA InitIsOK == Init => IInv
<1> SUFFICES ASSUME Init PROVE IInv
  OBVIOUS
<1>1. ControlOK
  <2>1. Zero \in SourceValues
    BY DEF SourceValues
  <2>2. uiQueue \in Seq(UiCommand)
    BY DEF Init
  <2> QED
    BY <2>1, <2>2 DEF Init, ControlOK, Speaking
<1>2. AudioOK
  <2>1. NotPending \in Pending
    BY DEF NotPending, Pending, Values, SourceValues
  <2>2. Preset \in Values
    BY DEF Values
  <2> QED
    BY <2>1, <2>2 DEF Init, AudioOK
<1>4. HistoryOK
  BY DEF Init, HistoryOK
<1>3. TablesOK
  <2>1. /\ DOMAIN bindings = {} /\ releaseQueue = << >> /\ ToSet(releaseQueue) = {}
        /\ table = NoTable /\ lastTable = NoTable /\ current = NoTable
        /\ audPc = "idle" /\ ctlPc = "idle"
    BY DEF Init, ToSet
  <2>2. TablesTyped /\ Alive /\ WhereOK
    BY <2>1 DEF TablesTyped, Alive, WhereOK
  <2>3. HandedBackOnce
    BY <2>1 DEF HandedBackOnce, IsInjective
  <2>4. RoomOK
    BY <2>1 DEF RoomOK, ToCome
  <2> QED
    BY <2>1, <2>2, <2>3, <2>4 DEF TablesOK, SwapOK
<1> QED
  BY <1>1, <1>2, <1>3, <1>4 DEF IInv

-----------------------------------------------------------------------------
\* However bind, unbind and the steps of apply fall, every table a thread may read
\* exists, is handed back at most once and never meets a full queue, and binds a
\* parameter at most once (bind, unbind, apply).
THEOREM TablesStaySafe == Spec => []RouterInv
<1>1. Init => IInv
  BY InitIsOK
<1>2. IInv /\ [Next]_vars => IInv'
  BY ControlStaysOK, AudioStaysOK, HistoryStaysOK, TablesStayOK DEF IInv
<1>3. IInv => RouterInv
  BY IInvSuffices
<1> QED
  BY <1>1, <1>2, <1>3, PTL DEF Spec

-----------------------------------------------------------------------------
(* What the UI asked for, under edits that leave the modules in their slots *)

\* No slot holds two modules, neither in one chain nor in one after another.
SlotsAreSteady ==
  \A one, other \in Layouts : \A m, n \in Modules :
    one[m] # Absent /\ one[m] = other[n] => m = n

\* What a parameter holds tells what it came from.
KindsApart ==
  (SourceValues \cup {Preset}) \cap UiValues = {} /\ Preset \notin SourceValues

Home(b) == \E layout \in Layouts : layout[b.key] = b.slot /\ b.slot # Absent
HomesOK == \A t \in DOMAIN bindings : \A i \in DOMAIN bindings[t] : Home(bindings[t][i])

AskedOK == \A i \in DOMAIN uiQueue :
  ~uiQueue[i].isBypass => uiQueue[i].value \in UiValues /\ uiQueue[i].value[1] = uiQueue[i].module

\* pending_ is of the table it was filled under, unless that is about to be replaced.
Replacing == audPc \in {"commands", "table"} /\ current # lastTable
WaitsFor(p, i, t) ==
  p.active => /\ i \in DOMAIN BindingsOf(t)
              /\ p.value \in UiValues /\ p.value[1] = BindingsOf(t)[i].key
WaitingOK == Replacing \/ \A i \in Index : WaitsFor(pending[i], i, lastTable)

\* A null table has not been replaced by one yet.
NamedOK ==
  /\ table = NoTable => lastTable = NoTable /\ current = NoTable
  /\ audPc = "commands" /\ current = NoTable => lastTable = NoTable

OwnInv == NoForeignUiValue /\ HomesOK /\ AskedOK /\ WaitingOK /\ NamedOK

LEMMA WriteStaysOwn ==
  ASSUME SlotsAreSteady, IInv, NoForeignUiValue,
         NEW k \in Modules, NEW layout \in Layouts, NEW v,
         layout[k] # Absent, v \in UiValues => v[1] = k, Write(layout[k], v)
  PROVE  NoForeignUiValue'
<1>1. live \in Layouts
  BY DEF IInv, ControlOK, AudioOK
<1>2. ASSUME NEW m \in Modules, value'[m] \in UiValues PROVE value'[m][1] = m
  <2>1. value'[m] = IF live[m] = layout[k] THEN v ELSE value[m]
    BY DEF Write
  <2>2. CASE live[m] = layout[k]
    <3>1. m = k
      BY <1>1, <2>2 DEF SlotsAreSteady
    <3> QED
      BY <2>1, <2>2, <3>1, <1>2
  <2>3. CASE live[m] # layout[k]
    BY <2>1, <2>3, <1>2 DEF NoForeignUiValue
  <2> QED
    BY <2>2, <2>3
<1> QED
  BY <1>2 DEF NoForeignUiValue

\* A table that lasts keeps its bindings.
LEMMA PublishStaysOwn ==
  ASSUME IInv, OwnInv, NEW fresh \in Seq(Binding), \A i \in DOMAIN fresh : Home(fresh[i]),
         Publish(fresh)
  PROVE  OwnInv'
<1>1. PICK t \in Tables \ DOMAIN bindings :
        /\ table' = t
        /\ bindings' = [u \in {t} \cup (InUse \cap DOMAIN bindings) |->
                         IF u = t THEN fresh ELSE bindings[u]]
  BY DEF Publish
<1>2. UNCHANGED <<lastTable, current, audPc, pending, value, uiQueue>>
  BY DEF Publish, audVars
<1>3. lastTable \in DOMAIN bindings \cup {NoTable}
  BY DEF IInv, TablesOK, SwapOK, Alive
<1>4. BindingsOf(lastTable)' = BindingsOf(lastTable)
  BY <1>1, <1>2, <1>3 DEF BindingsOf, InUse
<1>5. HomesOK'
  <2>1. ASSUME NEW u \in DOMAIN bindings', NEW i \in DOMAIN bindings'[u]
        PROVE  Home(bindings'[u][i])
    <3>1. bindings'[u] = fresh \/ (u \in DOMAIN bindings /\ bindings'[u] = bindings[u])
      BY <1>1
    <3> QED
      BY <3>1, <2>1 DEF OwnInv, HomesOK
  <2> QED
    BY <2>1 DEF HomesOK, Home
<1>6. WaitingOK'
  BY <1>2, <1>4 DEF OwnInv, WaitingOK, Replacing, WaitsFor
<1>7. NamedOK'
  BY <1>1, <1>2 DEF OwnInv, NamedOK
<1> QED
  BY <1>2, <1>5, <1>6, <1>7 DEF OwnInv, NoForeignUiValue, AskedOK

LEMMA TableIsTyped ==
  ASSUME IInv
  PROVE  BindingsOf(table) \in Seq(Binding)
<1>1. CASE table = NoTable
  <2>1. BindingsOf(table) = << >>
    BY <1>1 DEF BindingsOf
  <2> QED
    BY <2>1
<1>2. CASE table # NoTable
  BY <1>2 DEF BindingsOf, IInv, TablesOK, SwapOK, TablesTyped, Alive
<1> QED
  BY <1>1, <1>2

LEMMA TableIsHome ==
  ASSUME IInv, OwnInv
  PROVE  \A i \in DOMAIN BindingsOf(table) : Home(BindingsOf(table)[i])
<1>1. CASE table = NoTable
  BY <1>1 DEF BindingsOf
<1>2. CASE table # NoTable
  BY <1>2 DEF BindingsOf, OwnInv, HomesOK, IInv, TablesOK, SwapOK, Alive
<1> QED
  BY <1>1, <1>2

LEMMA BindStaysOwn ==
  ASSUME IInv, OwnInv, NEW s \in Sources, NEW m \in Modules, Bind(s, m)
  PROVE  OwnInv'
<1> DEFINE old == BindingsOf(table)
           b   == [source |-> s, slot |-> newest[m], key |-> m]
<1>1. newest \in Layouts /\ newest[m] # Absent
  BY DEF Bind, Present, IInv, ControlOK
<1>2. b \in Binding /\ Home(b)
  BY <1>1 DEF Binding, Home
<1>3. old \in Seq(Binding) /\ \A i \in DOMAIN old : Home(old[i])
  BY TableIsTyped, TableIsHome
<1>4. (\E i \in DOMAIN old : Publish([old EXCEPT ![i] = b])) \/ Publish(Append(old, b))
  BY DEF Bind
<1> HIDE DEF old, b, Binding
<1>5. ASSUME NEW i \in DOMAIN old, Publish([old EXCEPT ![i] = b]) PROVE OwnInv'
  <2>1. [old EXCEPT ![i] = b] \in Seq(Binding)
    BY <1>2, <1>3
  <2>2. \A j \in DOMAIN [old EXCEPT ![i] = b] : Home([old EXCEPT ![i] = b][j])
    BY <1>2, <1>3
  <2> QED
    BY <1>5, <2>1, <2>2, PublishStaysOwn
<1>6. ASSUME Publish(Append(old, b)) PROVE OwnInv'
  <2>1. Append(old, b) \in Seq(Binding)
    BY <1>2, <1>3
  <2>2. ASSUME NEW j \in DOMAIN Append(old, b) PROVE Home(Append(old, b)[j])
    <3>1. Append(old, b)[j] = b \/ (j \in DOMAIN old /\ Append(old, b)[j] = old[j])
      BY <1>2, <1>3
    <3> QED
      BY <3>1, <1>2, <1>3
  <2> QED
    BY <1>6, <2>1, <2>2, PublishStaysOwn
<1> QED
  BY <1>4, <1>5, <1>6

LEMMA UnbindStaysOwn ==
  ASSUME IInv, OwnInv, NEW m \in Modules, Unbind(m)
  PROVE  OwnInv'
<1>1. PICK i \in DOMAIN BindingsOf(table) : Publish(RemoveAt(bindings[table], i))
  BY DEF Unbind
<1>2. /\ BindingsOf(table) = bindings[table] /\ table \in DOMAIN bindings
  BY <1>1 DEF BindingsOf, IInv, TablesOK, SwapOK, Alive
<1>3. KeyedOnce(bindings[table]) /\ bindings[table] \in Seq(Binding)
  BY <1>2, TableIsTyped DEF IInv, TablesOK
<1>4. /\ RemoveAt(bindings[table], i) \in Seq(Binding)
      /\ \A j \in DOMAIN RemoveAt(bindings[table], i) : \E k \in DOMAIN bindings[table] :
           RemoveAt(bindings[table], i)[j] = bindings[table][k]
  BY <1>1, <1>2, <1>3, RemoveKeepsKeys
<1>5. \A j \in DOMAIN RemoveAt(bindings[table], i) : Home(RemoveAt(bindings[table], i)[j])
  BY <1>2, <1>4, TableIsHome
<1> QED
  BY <1>1, <1>4, <1>5, PublishStaysOwn

LEMMA RecycleStaysOwn ==
  ASSUME IInv, OwnInv, Recycle
  PROVE  OwnInv'
<1>1. UNCHANGED <<table, lastTable, current, audPc, pending, value, uiQueue>>
  BY DEF Recycle, audVars
<1>2. BindingsOf(lastTable)' = BindingsOf(lastTable) /\ HomesOK'
  <2>1. CASE releaseQueue = << >>
    BY <1>1, <2>1 DEF Recycle, BindingsOf, OwnInv, HomesOK, Home
  <2>2. CASE releaseQueue # << >>
    <3>1. bindings' = [t \in DOMAIN bindings \ {Head(releaseQueue)} |-> bindings[t]]
      BY <2>2 DEF Recycle
    <3>2. Head(releaseQueue) \in ToSet(releaseQueue)
      BY <2>2, QueueShrinks DEF IInv, TablesOK, SwapOK, TablesTyped, HandedBackOnce
    <3>3. lastTable = NoTable \/ lastTable \in DOMAIN bindings \ {Head(releaseQueue)}
      BY <3>2 DEF IInv, TablesOK, SwapOK, Alive, HandedBackOnce
    <3> QED
      BY <1>1, <3>1, <3>3 DEF BindingsOf, OwnInv, HomesOK, Home
  <2> QED
    BY <2>1, <2>2
<1>3. WaitingOK'
  BY <1>1, <1>2 DEF OwnInv, WaitingOK, Replacing, WaitsFor
<1> QED
  BY <1>1, <1>2, <1>3 DEF OwnInv, NoForeignUiValue, AskedOK, NamedOK

\* A command that is queued asks for its own parameter.
LEMMA QueueStaysOwn ==
  ASSUME IInv, OwnInv, NEW c \in UiCommand,
         ~c.isBypass => c.value \in UiValues /\ c.value[1] = c.module,
         QueueCommand(c)
  PROVE  OwnInv'
<1>1. /\ uiQueue' = Append(uiQueue, c)
      /\ UNCHANGED <<table, bindings, lastTable, current, audPc, pending, value>>
  BY DEF QueueCommand, audVars
<1>2. uiQueue \in Seq(UiCommand)
  BY DEF IInv, ControlOK
<1>3. AskedOK'
  <2> HIDE DEF UiCommand, UiValues
  <2>1. ASSUME NEW i \in DOMAIN Append(uiQueue, c)
        PROVE  Append(uiQueue, c)[i] = c \/ (i \in DOMAIN uiQueue /\ Append(uiQueue, c)[i] = uiQueue[i])
    BY <1>2
  <2> QED
    BY <1>1, <2>1 DEF OwnInv, AskedOK
<1> QED
  BY <1>1, <1>3
  DEF OwnInv, NoForeignUiValue, HomesOK, Home, WaitingOK, Replacing, WaitsFor, BindingsOf, NamedOK

LEMMA ControlStaysOwn ==
  ASSUME IInv, OwnInv, Source \/ Control \/ UNCHANGED vars
  PROVE  OwnInv'
<1>1. CASE UNCHANGED <<table, bindings, lastTable, current, audPc, pending, value, uiQueue>>
  BY <1>1 DEF OwnInv, NoForeignUiValue, HomesOK, Home, AskedOK, WaitingOK, Replacing, WaitsFor,
     BindingsOf, NamedOK
<1>2. CASE Source \/ UNCHANGED vars
  BY <1>1, <1>2 DEF Source, SpeakValue, BeatEarly, SpeakBeat, ValueLate, audVars, vars
<1>3. ASSUME NEW layout \in Layouts, EditChain(layout) PROVE OwnInv'
  BY <1>1, <1>3 DEF EditChain, audVars
<1>4. ASSUME NEW m \in Modules, NEW x \in Levels, UiSet(m, x) PROVE OwnInv'
  <2> DEFINE c == [isBypass |-> FALSE, module |-> m, value |-> <<m, x>>]
  <2>1. c \in UiCommand /\ c.value \in UiValues /\ c.value[1] = c.module
    BY DEF UiCommand, UiValues
  <2>2. QueueCommand(c)
    BY <1>4 DEF UiSet
  <2> HIDE DEF c
  <2> QED
    BY <2>1, <2>2, QueueStaysOwn
<1>5. ASSUME NEW m \in Modules, NEW b \in BOOLEAN, UiSetBypass(m, b) PROVE OwnInv'
  <2> DEFINE c == [isBypass |-> TRUE, module |-> m, value |-> <<m, b>>]
  <2>1. c \in UiCommand /\ c.isBypass
    BY DEF UiCommand
  <2>2. QueueCommand(c)
    BY <1>5 DEF UiSetBypass
  <2> HIDE DEF c
  <2> QED
    BY <2>1, <2>2, QueueStaysOwn
<1>6. ASSUME NEW m \in Modules, Unbind(m) \/ \E s \in Sources : Bind(s, m) PROVE OwnInv'
  BY <1>6, BindStaysOwn, UnbindStaysOwn
<1>7. CASE Control
  <2>1. CASE \E m \in Modules : Unbind(m) \/ \E s \in Sources : Bind(s, m)
    BY <2>1, <1>6
  <2>2. CASE Recycle
    BY <2>2, RecycleStaysOwn
  <2>3. CASE \E m \in Modules, x \in Levels : UiSet(m, x)
    BY <2>3, <1>4
  <2>4. CASE \E m \in Modules, b \in BOOLEAN : UiSetBypass(m, b)
    BY <2>4, <1>5
  <2>5. CASE \E layout \in Layouts : EditChain(layout)
    BY <2>5, <1>3
  <2> QED
    BY <1>7, <2>1, <2>2, <2>3, <2>4, <2>5, Zenon DEF Control
<1> QED
  BY <1>2, <1>7

LEMMA CommandStaysOwn ==
  ASSUME SlotsAreSteady, IInv, OwnInv, ApplyCommand
  PROVE  OwnInv'
<1> DEFINE c == Head(uiQueue)
<1>1. /\ uiQueue # << >> /\ uiQueue' = Tail(uiQueue) /\ audPc = "commands"
      /\ UNCHANGED <<table, bindings, lastTable, current, audPc, live>>
  BY DEF ApplyCommand, ApplyBypass, ApplyUnbound, ApplyQueued, PopCommand
<1>2. uiQueue \in Seq(UiCommand)
  BY DEF IInv, ControlOK
<1>3. AskedOK' /\ c = uiQueue[1] /\ c \in UiCommand /\ 1 \in DOMAIN uiQueue
  <2> HIDE DEF UiCommand, UiValues
  <2>1. /\ 1 \in DOMAIN uiQueue /\ c = uiQueue[1] /\ c \in UiCommand
        /\ \A i \in DOMAIN Tail(uiQueue) : i + 1 \in DOMAIN uiQueue /\ Tail(uiQueue)[i] = uiQueue[i + 1]
    BY <1>1, <1>2
  <2> QED
    BY <1>1, <2>1 DEF OwnInv, AskedOK
<1>4. ~c.isBypass => c.value \in UiValues /\ c.value[1] = c.module /\ c.module \in Modules
  <2>1. ~c.isBypass => c.value \in UiValues /\ c.value[1] = c.module
    BY <1>3 DEF OwnInv, AskedOK
  <2>2. c.module \in Modules
    BY <1>3 DEF UiCommand
  <2> QED
    BY <2>1, <2>2
<1> HIDE DEF c
<1>5. HomesOK' /\ NamedOK'
  BY <1>1 DEF OwnInv, HomesOK, Home, NamedOK
<1>7. CASE ApplyBypass
  <2>1. UNCHANGED <<value, pending>>
    BY <1>7 DEF ApplyBypass
  <2> QED
    BY <2>1, <1>3, <1>5, <1>1
    DEF OwnInv, NoForeignUiValue, WaitingOK, Replacing, WaitsFor, BindingsOf
<1>8. CASE ApplyUnbound
  <2>1. ~c.isBypass /\ UNCHANGED pending
    BY <1>8 DEF ApplyUnbound, c
  <2>2. CASE live[c.module] # Absent
    <3>1. Write(live[c.module], c.value)
      BY <1>8, <2>2 DEF ApplyUnbound, c
    <3>2. live \in Layouts
      BY DEF IInv, AudioOK
    <3>3. NoForeignUiValue'
      BY <3>1, <3>2, <2>1, <2>2, <1>4, WriteStaysOwn DEF OwnInv
    <3> QED
      BY <3>3, <2>1, <1>1, <1>3, <1>5 DEF OwnInv, WaitingOK, Replacing, WaitsFor, BindingsOf
  <2>3. CASE live[c.module] = Absent
    <3>1. UNCHANGED value
      BY <1>8, <2>3 DEF ApplyUnbound, c
    <3> QED
      BY <3>1, <2>1, <1>1, <1>3, <1>5
    DEF OwnInv, NoForeignUiValue, WaitingOK, Replacing, WaitsFor, BindingsOf
  <2> QED
    BY <2>2, <2>3
<1>9. CASE ApplyQueued
  <2>1. PICK i \in DOMAIN BindingsOf(current) :
          /\ BindingsOf(current)[i].key = c.module
          /\ pending' = [pending EXCEPT ![i].active = TRUE, ![i].value = c.value]
    BY <1>9 DEF ApplyQueued, c
  <2>2. ~c.isBypass /\ UNCHANGED value
    BY <1>9 DEF ApplyQueued, c
  <2>3. WaitingOK'
    <3>1. CASE current # lastTable
      BY <3>1, <1>1 DEF WaitingOK, Replacing
    <3>2. CASE current = lastTable
      <4>1. \A j \in Index : WaitsFor(pending[j], j, lastTable)
        BY <3>2 DEF OwnInv, WaitingOK, Replacing
      <4>2. pending \in [Index -> Pending]
        BY DEF IInv, AudioOK
      <4>3. ASSUME NEW j \in Index PROVE WaitsFor(pending'[j], j, lastTable)
        <5>1. CASE j = i
          <6>1. pending'[j].value = c.value
            BY <5>1, <2>1, <4>2 DEF Pending
          <6> QED
            BY <6>1, <5>1, <2>1, <2>2, <1>4, <3>2 DEF WaitsFor
        <5>2. CASE j # i
          <6>1. pending'[j] = pending[j]
            BY <5>2, <2>1, <4>2
          <6> QED
            BY <6>1, <4>1
        <5> QED
          BY <5>1, <5>2
      <4> QED
        BY <4>3, <1>1 DEF WaitingOK, WaitsFor, BindingsOf
    <3> QED
      BY <3>1, <3>2
  <2> QED
    BY <2>2, <2>3, <1>3, <1>5 DEF OwnInv, NoForeignUiValue
<1> QED
  BY <1>7, <1>8, <1>9 DEF ApplyCommand

LEMMA BindingStaysOwn ==
  ASSUME SlotsAreSteady, KindsApart, IInv, OwnInv, ApplyBinding
  PROVE  OwnInv'
<1> DEFINE b == bindings[current][at]
<1>1. /\ audPc = "bindings" /\ at \in DOMAIN bindings[current]
      /\ UNCHANGED <<table, bindings, lastTable, current, audPc, live, uiQueue>>
  BY DEF ApplyBinding, SkipBinding, HearSource, FollowSource, ReleaseSource, NextBinding
<1>2. at \in Index /\ b \in Binding /\ pending[at] \in Pending
  BY <1>1, BindingIsTyped
<1>3. current = lastTable /\ current # NoTable /\ current \in DOMAIN bindings
  BY <1>1 DEF IInv, TablesOK, SwapOK, Alive, WhereOK
<1>4. /\ Home(b) /\ b.key \in Modules /\ b.source \in Sources
      /\ BindingsOf(lastTable)[at] = b
  BY <1>1, <1>2, <1>3 DEF OwnInv, HomesOK, Binding, BindingsOf
<1>5. PICK layout \in Layouts : layout[b.key] = b.slot /\ b.slot # Absent
  BY <1>4 DEF Home
<1>6. \A i \in Index : WaitsFor(pending[i], i, lastTable)
  BY <1>1 DEF OwnInv, WaitingOK, Replacing
<1>7. sourceValue[b.source] \notin UiValues
  BY <1>4 DEF IInv, ControlOK, KindsApart
<1>8. ASSUME NEW v, v \in UiValues => v[1] = b.key, Write(b.slot, v)
      PROVE  NoForeignUiValue'
  BY <1>4, <1>5, <1>8, WriteStaysOwn DEF OwnInv
<1>9. PICK p : NextBinding(p) /\ (p.active => pending[at].active) /\ p.value = pending[at].value
  <2> DEFINE q == pending[at]
  <2>1. /\ [q EXCEPT !.active = FALSE].active = FALSE
        /\ [q EXCEPT !.active = FALSE].value = q.value
        /\ \A h : /\ [q EXCEPT !.beat = h, !.since = 0].active = q.active
                 /\ [q EXCEPT !.beat = h, !.since = 0].value = q.value
    BY <1>2 DEF Pending
  <2>2. \/ NextBinding([q EXCEPT !.active = FALSE]) \/ NextBinding(q)
        \/ \E h : NextBinding([q EXCEPT !.beat = h, !.since = 0])
    BY DEF ApplyBinding, SkipBinding, HearSource, FollowSource, ReleaseSource
  <2> HIDE DEF q
  <2> QED
    BY <2>1, <2>2 DEF q
<1>10. WaitingOK'
  <2>1. pending \in [Index -> Pending] /\ pending' = [pending EXCEPT ![at] = p]
    BY <1>9 DEF IInv, AudioOK, NextBinding
  <2>2. ASSUME NEW j \in Index PROVE WaitsFor(pending'[j], j, lastTable)
    <3>1. pending'[j] = IF j = at THEN p ELSE pending[j]
      BY <2>1
    <3>2. WaitsFor(pending[j], j, lastTable)
      BY <1>6
    <3> QED
      BY <3>1, <3>2, <1>9 DEF WaitsFor
  <2> QED
    BY <2>2, <1>1 DEF WaitingOK, WaitsFor, BindingsOf
<1>11. NoForeignUiValue'
  <2> HIDE DEF b
  <2>1. CASE SkipBinding
    BY <2>1 DEF SkipBinding, OwnInv, NoForeignUiValue
  <2>2. CASE HearSource \/ FollowSource
    <3>1. Write(b.slot, sourceValue[b.source])
      BY <2>2 DEF HearSource, FollowSource, b
    <3> QED
      BY <3>1, <1>7, <1>8
  <2>3. CASE ReleaseSource
    <3>1. (pending[at].active /\ Write(b.slot, pending[at].value)) \/ UNCHANGED value
      BY <2>3 DEF ReleaseSource, b
    <3>2. pending[at].active => pending[at].value[1] = b.key
      BY <1>2, <1>4, <1>6 DEF WaitsFor
    <3> QED
      BY <3>1, <3>2, <1>8 DEF OwnInv, NoForeignUiValue
  <2> QED
    BY <2>1, <2>2, <2>3 DEF ApplyBinding
<1> QED
  BY <1>1, <1>10, <1>11 DEF OwnInv, HomesOK, Home, AskedOK, NamedOK

LEMMA BlockStaysOwn ==
  ASSUME KindsApart, IInv, OwnInv, ApplyBegin \/ CommandsDone \/ ApplyTable \/ ApplyEnd
  PROVE  OwnInv'
<1>1. UNCHANGED <<bindings, uiQueue>>
  BY DEF ApplyBegin, CommandsDone, ApplyTable, ApplyEnd
<1>2. HomesOK' /\ AskedOK'
  BY <1>1 DEF OwnInv, HomesOK, Home, AskedOK
<1>3. NoForeignUiValue'
  <2>1. CASE ApplyBegin
    BY <2>1 DEF ApplyBegin, OwnInv, NoForeignUiValue, KindsApart
  <2>2. CASE CommandsDone \/ ApplyTable \/ ApplyEnd
    BY <2>2 DEF CommandsDone, ApplyTable, ApplyEnd, OwnInv, NoForeignUiValue
  <2> QED
    BY <2>1, <2>2
<1>4. WaitingOK'
  <2>1. CASE ApplyBegin
    <3>1. /\ \A i \in Index : WaitsFor(pending[i], i, lastTable)
          /\ pending \in [Index -> Pending] /\ lastTable' = lastTable
      BY <2>1 DEF OwnInv, WaitingOK, Replacing, ApplyBegin, IInv, AudioOK
    <3>2. ASSUME NEW i \in Index
          PROVE  pending'[i].active = pending[i].active /\ pending'[i].value = pending[i].value
      BY <2>1, <3>1 DEF ApplyBegin, Pending
    <3> QED
      BY <1>1, <3>1, <3>2 DEF WaitingOK, WaitsFor, BindingsOf
  <2>2. CASE CommandsDone
    <3>1. UNCHANGED <<pending, lastTable, current>> /\ audPc = "commands"
          /\ (audPc' = "table" \/ (audPc' = "idle" /\ current = NoTable))
      BY <2>2 DEF CommandsDone
    <3>2. current = NoTable => lastTable = NoTable
      BY <3>1 DEF OwnInv, NamedOK
    <3> QED
      BY <1>1, <3>1, <3>2 DEF OwnInv, WaitingOK, Replacing, WaitsFor, BindingsOf
  <2>3. CASE ApplyTable
    <3>1. CASE current = lastTable
      <4>1. UNCHANGED <<pending, lastTable>>
        BY <2>3, <3>1 DEF ApplyTable
      <4> QED
        BY <1>1, <3>1, <4>1 DEF OwnInv, WaitingOK, Replacing, WaitsFor, BindingsOf
    <3>2. CASE current # lastTable
      <4>1. pending' = [i \in Index |-> NotPending]
        BY <2>3, <3>2 DEF ApplyTable
      <4> QED
        BY <4>1 DEF WaitingOK, WaitsFor, NotPending
    <3> QED
      BY <3>1, <3>2
  <2>4. CASE ApplyEnd
    BY <1>1, <2>4 DEF ApplyEnd, OwnInv, WaitingOK, Replacing, WaitsFor, BindingsOf
  <2> QED
    BY <2>1, <2>2, <2>3, <2>4
<1>5. NamedOK'
  <2>1. audPc \in {"table", "bindings"} => current # NoTable
    BY DEF IInv, TablesOK, SwapOK, WhereOK
  <2> QED
    BY <2>1 DEF ApplyBegin, CommandsDone, ApplyTable, ApplyEnd, OwnInv, NamedOK
<1> QED
  BY <1>2, <1>3, <1>4, <1>5 DEF OwnInv

LEMMA IAndOwnHold ==
  ASSUME SlotsAreSteady, KindsApart
  PROVE  Spec => [](IInv /\ OwnInv)
<1>1. Init => IInv /\ OwnInv
  <2> SUFFICES ASSUME Init PROVE OwnInv
    BY InitIsOK
  <2>1. NoForeignUiValue
    BY DEF Init, NoForeignUiValue, KindsApart
  <2>2. HomesOK /\ AskedOK /\ WaitingOK /\ NamedOK
    BY DEF Init, HomesOK, AskedOK, WaitingOK, WaitsFor, NotPending, NamedOK
  <2> QED
    BY <2>1, <2>2 DEF OwnInv
<1>2. IInv /\ OwnInv /\ [Next]_vars => (IInv /\ OwnInv)'
  <2> SUFFICES ASSUME IInv, OwnInv, [Next]_vars PROVE OwnInv'
    BY ControlStaysOK, AudioStaysOK, HistoryStaysOK, TablesStayOK DEF IInv
  <2>1. CASE Audio
    BY <2>1, CommandStaysOwn, BindingStaysOwn, BlockStaysOwn DEF Audio
  <2> QED
    BY <2>1, ControlStaysOwn DEF Next
<1> QED
  BY <1>1, <1>2, PTL DEF Spec

\* While edits leave every module in its slot, what the UI queued for one parameter
\* never shows in another, however bindings come and go meanwhile (bind, unbind, apply).
THEOREM UiValuesStayTheirOwn ==
  ASSUME SlotsAreSteady, KindsApart
  PROVE  Spec => []RouterSafety
<1>1. IInv /\ OwnInv => RouterSafety
  BY IInvSuffices DEF OwnInv, RouterSafety
<1> QED
  BY <1>1, IAndOwnHold, PTL

\* What a binding writes reaches its own parameter only: "a parameter bound to a
\* control source follows the source" (control_router.h:18), and no other does.
THEOREM SourcesDriveTheirOwn ==
  ASSUME SlotsAreSteady, KindsApart
  PROVE  Spec => DrivesItsOwnParameter
<1>1. IInv /\ OwnInv /\ ApplyBinding =>
        \A m \in Modules : value'[m] # value[m] => m = bindings[current][at].key
  <2> SUFFICES ASSUME IInv, OwnInv, ApplyBinding, NEW m \in Modules, value'[m] # value[m]
               PROVE  m = bindings[current][at].key
    OBVIOUS
  <2> DEFINE b == bindings[current][at]
  <2>1. audPc = "bindings" /\ at \in DOMAIN bindings[current]
    BY DEF ApplyBinding, SkipBinding, HearSource, FollowSource, ReleaseSource, NextBinding
  <2>2. current \in DOMAIN bindings /\ b \in Binding /\ live \in Layouts
    BY <2>1, BindingIsTyped DEF IInv, AudioOK, TablesOK, SwapOK, Alive, WhereOK
  <2>3. b.key \in Modules /\ \E layout \in Layouts : layout[b.key] = b.slot /\ b.slot # Absent
    BY <2>1, <2>2 DEF OwnInv, HomesOK, Home, Binding
  <2>4. UNCHANGED value \/ \E v : Write(b.slot, v)
    BY DEF ApplyBinding, SkipBinding, HearSource, FollowSource, ReleaseSource
  <2> HIDE DEF b
  <2>5. live[m] = b.slot
    BY <2>4 DEF Write
  <2> QED
    BY <2>2, <2>3, <2>5 DEF SlotsAreSteady, b
<1>2. Spec => [](IInv /\ OwnInv)
  BY IAndOwnHold
<1>3. IInv /\ OwnInv /\ [Next]_vars =>
        [ApplyBinding => \A m \in Modules :
           value'[m] # value[m] => m = bindings[current][at].key]_vars
  BY <1>1
<1> QED
  BY <1>2, <1>3, PTL DEF Spec, DrivesItsOwnParameter

-----------------------------------------------------------------------------
(* The hang time, under edits that also leave each module where it was     *)

SlotsAreFixed ==
  \A one, other \in Layouts : \A m \in Modules :
    one[m] # Absent /\ other[m] # Absent => one[m] = other[m]

\* What shows the UI's value has a source that is silent, or that has spoken since.
SilentAt(i, b) ==
  /\ pending[i].beat <= heartbeat[b.source]
  /\ value[b.key] \in UiValues /\ live[b.key] # Absent /\ pending[i].beat = heartbeat[b.source]
       => pending[i].since > HangBlocks
HangInv ==
  Replacing \/ \A i \in DOMAIN BindingsOf(lastTable) : SilentAt(i, BindingsOf(lastTable)[i])

\* The table the audio thread had last, binding by binding.
LEMMA LastIsTyped ==
  ASSUME IInv, OwnInv, NEW i \in DOMAIN BindingsOf(lastTable)
  PROVE  /\ lastTable # NoTable /\ lastTable \in DOMAIN bindings
         /\ BindingsOf(lastTable)[i] = bindings[lastTable][i] /\ i \in DOMAIN bindings[lastTable]
         /\ BindingsOf(lastTable)[i] \in Binding /\ i \in Index
         /\ pending[i] \in Pending /\ Home(BindingsOf(lastTable)[i])
<1>1. lastTable # NoTable
  BY DEF BindingsOf
<1>2. lastTable \in DOMAIN bindings
  BY <1>1 DEF IInv, TablesOK, SwapOK, Alive
<1>3. bindings[lastTable] \in Seq(Binding) /\ Len(bindings[lastTable]) <= MaxBindings
  BY <1>2 DEF IInv, TablesOK, SwapOK, TablesTyped, KeyedOnce
<1>4. BindingsOf(lastTable) = bindings[lastTable]
  BY <1>1 DEF BindingsOf
<1>5. i \in Index /\ bindings[lastTable][i] \in Binding
  <2> HIDE DEF Binding
  <2> QED
    BY <1>3, <1>4 DEF Index
<1>6. Home(bindings[lastTable][i])
  BY <1>2, <1>4 DEF OwnInv, HomesOK
<1>7. pending[i] \in Pending
  BY <1>5 DEF IInv, AudioOK
<1> QED
  BY <1>1, <1>2, <1>4, <1>5, <1>6, <1>7

\* A live module is written through the slot its binding was resolved to, and alone.
LEMMA WriteReachesOne ==
  ASSUME SlotsAreSteady, SlotsAreFixed, IInv, NEW b \in Binding, Home(b), NEW v, Write(b.slot, v)
  PROVE  /\ \A m \in Modules : value'[m] # value[m] => m = b.key /\ live[m] # Absent
         /\ live[b.key] # Absent => value'[b.key] = v
<1>1. live \in Layouts /\ b.key \in Modules
  BY DEF IInv, AudioOK, Binding
<1>2. PICK layout \in Layouts : layout[b.key] = b.slot /\ b.slot # Absent
  BY DEF Home
<1>3. ASSUME NEW m \in Modules, value'[m] # value[m] PROVE m = b.key /\ live[m] # Absent
  <2>1. live[m] = b.slot
    BY <1>3 DEF Write
  <2> QED
    BY <1>1, <1>2, <2>1 DEF SlotsAreSteady
<1>4. ASSUME live[b.key] # Absent PROVE value'[b.key] = v
  <2>1. live[b.key] = b.slot
    BY <1>1, <1>2, <1>4 DEF SlotsAreFixed
  <2> QED
    BY <1>1, <2>1 DEF Write
<1> QED
  BY <1>3, <1>4

\* A heartbeat is counted once and no counter goes back.
LEMMA BeatsRise ==
  ASSUME IInv, [Next]_vars, NEW s \in Sources
  PROVE  heartbeat[s] \in Nat /\ heartbeat'[s] \in Nat /\ heartbeat[s] <= heartbeat'[s]
<1>1. /\ heartbeat \in [Sources -> 0 .. MaxBeats] /\ MaxBeats \in Nat
      /\ ctlPc = "beat" => saying \in Sources \X SourceValues
  BY DEF IInv, ControlOK, Speaking
<1>2. CASE SpeakBeat
  BY <1>1, <1>2 DEF SpeakBeat
<1>3. CASE \E u \in Sources, x \in Levels : BeatEarly(u, x)
  BY <1>1, <1>3 DEF BeatEarly
<1>4. CASE UNCHANGED heartbeat
  BY <1>1, <1>4
<1>5. CASE Source
  <2>1. CASE ValueLate \/ \E u \in Sources, x \in Levels : SpeakValue(u, x)
    BY <2>1, <1>4 DEF ValueLate, SpeakValue
  <2> QED
    BY <1>5, <2>1, <1>2, <1>3 DEF Source
<1>6. CASE Control
  BY <1>4, <1>6 DEF Control, Unbind, Bind, Publish, Recycle, UiSet, UiSetBypass, QueueCommand,
     EditChain, srcVars
<1>7. CASE Audio \/ UNCHANGED vars
  BY <1>4, <1>7 DEF Audio, ApplyBegin, ApplyCommand, ApplyBypass, ApplyUnbound, ApplyQueued,
     PopCommand, CommandsDone, ApplyTable, ApplyBinding, SkipBinding, HearSource, FollowSource,
     ReleaseSource, NextBinding, ApplyEnd, ctlVars, srcVars, vars
<1> QED
  BY <1>5, <1>6, <1>7 DEF Next

\* What is kept where the parts of SilentAt do not change but for the heartbeats.
LEMMA SilentWhileBeats ==
  ASSUME IInv, OwnInv, [Next]_vars, NEW i \in DOMAIN BindingsOf(lastTable),
         SilentAt(i, BindingsOf(lastTable)[i]),
         pending'[i].beat = pending[i].beat, pending'[i].since = pending[i].since,
         live' = live, value'[BindingsOf(lastTable)[i].key] = value[BindingsOf(lastTable)[i].key],
         BindingsOf(lastTable)' = BindingsOf(lastTable)
  PROVE  SilentAt(i, BindingsOf(lastTable)[i])'
<1> DEFINE b == BindingsOf(lastTable)[i]
<1>1. b.source \in Sources /\ b' = b /\ pending[i].beat \in Int
  BY LastIsTyped DEF Binding, Pending
<1>2. heartbeat[b.source] \in Nat /\ heartbeat'[b.source] \in Nat
      /\ heartbeat[b.source] <= heartbeat'[b.source]
  BY <1>1, BeatsRise
<1> HIDE DEF b
<1> QED
  BY <1>1, <1>2 DEF SilentAt, b

\* A step of the control thread leaves the audio thread's table as it is.
LEMMA LastIsKept ==
  ASSUME IInv, Source \/ Control \/ UNCHANGED vars
  PROVE  /\ UNCHANGED <<lastTable, current, audPc, pending, value, live, heard, unseen>>
         /\ BindingsOf(lastTable)' = BindingsOf(lastTable)
<1>0. UNCHANGED <<lastTable, current, audPc, pending, value, live, heard, unseen>>
  BY DEF Source, SpeakValue, BeatEarly, SpeakBeat, ValueLate, Control, Unbind, Bind, Publish,
     Recycle, UiSet, UiSetBypass, QueueCommand, EditChain, audVars, historyVars, vars
<1>1. CASE lastTable = NoTable
  BY <1>0, <1>1 DEF BindingsOf
<1>2. CASE lastTable # NoTable
  <2>1. lastTable \in DOMAIN bindings /\ lastTable \notin ToSet(releaseQueue)
    BY <1>2 DEF IInv, TablesOK, SwapOK, Alive, HandedBackOnce
  <2>2. ASSUME NEW fresh, Publish(fresh) PROVE bindings'[lastTable] = bindings[lastTable]
    BY <2>1, <2>2 DEF Publish, InUse
  <2>3. ASSUME Recycle PROVE bindings'[lastTable] = bindings[lastTable]
    <3>1. CASE releaseQueue = << >>
      BY <2>3, <3>1 DEF Recycle
    <3>2. CASE releaseQueue # << >>
      <4>1. Head(releaseQueue) \in ToSet(releaseQueue)
        BY <3>2, QueueShrinks DEF IInv, TablesOK, SwapOK, TablesTyped, HandedBackOnce
      <4> QED
        BY <2>1, <2>3, <3>2, <4>1 DEF Recycle
    <3> QED
      BY <3>1, <3>2
  <2>4. (\E fresh : Publish(fresh)) \/ Recycle \/ UNCHANGED bindings
    BY DEF Source, SpeakValue, BeatEarly, SpeakBeat, ValueLate, Control, Unbind, Bind,
       UiSet, UiSetBypass, QueueCommand, EditChain, vars
  <2>5. bindings'[lastTable] = bindings[lastTable]
    BY <2>2, <2>3, <2>4
  <2> QED
    BY <1>0, <1>2, <2>5 DEF BindingsOf
<1> QED
  BY <1>0, <1>1, <1>2

LEMMA ControlKeepsHang ==
  ASSUME IInv, OwnInv, HangInv, [Next]_vars, Source \/ Control \/ UNCHANGED vars
  PROVE  HangInv'
<1>1. UNCHANGED <<lastTable, current, audPc, pending, value, live>>
  BY LastIsKept
<1>2. BindingsOf(lastTable)' = BindingsOf(lastTable)
  BY LastIsKept
<1>3. CASE Replacing
  BY <1>1, <1>3 DEF HangInv, Replacing
<1>4. CASE ~Replacing
  <2>1. ASSUME NEW i \in DOMAIN BindingsOf(lastTable)
        PROVE  SilentAt(i, BindingsOf(lastTable)[i])'
    BY <1>1, <1>2, <1>4, SilentWhileBeats DEF HangInv
  <2> QED
    BY <1>2, <2>1 DEF HangInv
<1> QED
  BY <1>3, <1>4

LEMMA BeginKeepsHang ==
  ASSUME KindsApart, IInv, OwnInv, HangInv, ApplyBegin
  PROVE  HangInv'
<1>1. /\ UNCHANGED <<lastTable, bindings, heartbeat>> /\ ~Replacing
      /\ newest \in [Modules -> Slots \cup {Absent}] /\ live' = newest
  BY DEF ApplyBegin, ctlVars, srcVars, Replacing, IInv, ControlOK
<1>2. BindingsOf(lastTable)' = BindingsOf(lastTable)
  BY <1>1 DEF BindingsOf
<1>3. ASSUME NEW i \in DOMAIN BindingsOf(lastTable)
      PROVE  SilentAt(i, BindingsOf(lastTable)[i])'
  <2> DEFINE b == BindingsOf(lastTable)[i]
             p == pending[i]
  <2>1. /\ b.key \in Modules /\ b.source \in Sources /\ i \in Index
        /\ p \in Pending /\ b' = b
    BY <1>2, LastIsTyped DEF Binding
  <2>2. SilentAt(i, b)
    BY <1>1 DEF HangInv
  <2>3. heartbeat[b.source] \in Nat
    BY <2>1 DEF IInv, ControlOK
  <2>4. pending'[i] = IF p.beat = -1 THEN p ELSE [p EXCEPT !.since = OneBlockLater(@)]
    BY <2>1 DEF ApplyBegin
  <2>5. pending'[i].beat = p.beat
    BY <2>1, <2>4 DEF Pending
  <2>6. p.beat = -1 \/ pending'[i].since = OneBlockLater(p.since)
    BY <2>1, <2>4 DEF Pending
  <2>7. p.since \in Nat /\ p.beat \in Int /\ HangBlocks \in Nat /\ HangBlocks < MaxTicks /\ MaxTicks \in Nat
    BY <2>1 DEF Pending
  <2>8. p.since > HangBlocks => OneBlockLater(p.since) > HangBlocks
    BY <2>7 DEF OneBlockLater
  <2>9. value'[b.key] \in UiValues /\ newest[b.key] # Absent
          => value[b.key] \in UiValues /\ live[b.key] # Absent
    <3>1. live \in [Modules -> Slots \cup {Absent}]
      BY DEF IInv, AudioOK
    <3>2. value'[b.key] = IF b.key \in Present(newest) \ Present(live) THEN Preset ELSE value[b.key]
      BY <2>1 DEF ApplyBegin
    <3> QED
      BY <2>1, <3>1, <3>2 DEF Present, KindsApart
  <2> HIDE DEF b, p
  <2>10. /\ p.beat <= heartbeat[b.source]
         /\ value[b.key] \in UiValues /\ live[b.key] # Absent /\ p.beat = heartbeat[b.source]
              => p.since > HangBlocks
    BY <2>2 DEF SilentAt, p
  <2>11. pending'[i].beat <= heartbeat'[b'.source]
    BY <1>1, <2>1, <2>5, <2>10
  <2>12. value'[b'.key] \in UiValues /\ live'[b'.key] # Absent /\ pending'[i].beat = heartbeat'[b'.source]
           => pending'[i].since > HangBlocks
    <3> SUFFICES ASSUME value'[b.key] \in UiValues, live'[b.key] # Absent, p.beat = heartbeat[b.source]
                 PROVE  pending'[i].since > HangBlocks
      BY <1>1, <2>1, <2>5
    <3>1. p.since > HangBlocks
      BY <1>1, <2>9, <2>10
    <3>2. p.beat # -1
      BY <2>3
    <3> QED
      BY <3>1, <3>2, <2>6, <2>8
  <2> QED
    BY <2>11, <2>12 DEF SilentAt, b
<1> QED
  BY <1>2, <1>3 DEF HangInv

LEMMA CommandKeepsHang ==
  ASSUME SlotsAreSteady, IInv, OwnInv, HangInv, [Next]_vars, ApplyCommand
  PROVE  HangInv'
<1>1. UNCHANGED <<bindings, lastTable, current, audPc, live>> /\ audPc = "commands" /\ uiQueue # << >>
  BY DEF ApplyCommand, ApplyBypass, ApplyUnbound, ApplyQueued, PopCommand
<1>2. BindingsOf(lastTable)' = BindingsOf(lastTable)
  BY <1>1 DEF BindingsOf
<1>3. CASE current # lastTable
  BY <1>1, <1>3 DEF HangInv, Replacing
<1>4. CASE current = lastTable
  <2>1. ASSUME NEW i \in DOMAIN BindingsOf(lastTable)
        PROVE  /\ pending'[i].beat = pending[i].beat /\ pending'[i].since = pending[i].since
               /\ value'[BindingsOf(lastTable)[i].key] = value[BindingsOf(lastTable)[i].key]
    <3> DEFINE b == BindingsOf(lastTable)[i]
    <3>1. b.key \in Modules /\ i \in Index /\ pending[i] \in Pending
      BY LastIsTyped DEF Binding
    <3>2. CASE ApplyBypass
      BY <3>2 DEF ApplyBypass
    <3>3. CASE ApplyUnbound
      <4> DEFINE m == Head(uiQueue).module
      <4>1. UNCHANGED pending /\ ~Bound(current, m)
            /\ (UNCHANGED value \/ (live[m] # Absent /\ \E v : Write(live[m], v)))
        BY <3>3 DEF ApplyUnbound
      <4>2. m \in Modules
        BY <1>1, PopIsCommand DEF IInv, UiCommand
      <4>3. b.key # m
        BY <4>1, <1>4 DEF Bound
      <4>4. live \in Layouts
        BY DEF IInv, AudioOK
      <4> HIDE DEF m, b
      <4>5. live[m] # Absent => live[b.key] # live[m]
        BY <4>2, <4>3, <4>4, <3>1 DEF SlotsAreSteady
      <4>6. value'[b.key] = value[b.key]
        BY <4>1, <4>5, <3>1 DEF Write
      <4> QED
        BY <4>1, <4>6 DEF b
    <3>4. CASE ApplyQueued
      <4>1. PICK j \in DOMAIN BindingsOf(current) : \E v :
              pending' = [pending EXCEPT ![j].active = TRUE, ![j].value = v]
        BY <3>4 DEF ApplyQueued
      <4>2. UNCHANGED value
        BY <3>4 DEF ApplyQueued
      <4>3. pending \in [Index -> Pending]
        BY DEF IInv, AudioOK
      <4>4. pending'[i].beat = pending[i].beat /\ pending'[i].since = pending[i].since
        <5>1. CASE i = j
          BY <5>1, <4>1, <4>3, <3>1 DEF Pending
        <5>2. CASE i # j
          BY <5>2, <4>1, <4>3, <3>1
        <5> QED
          BY <5>1, <5>2
      <4> QED
        BY <4>2, <4>4
    <3> QED
      BY <3>2, <3>3, <3>4 DEF ApplyCommand
  <2>2. ASSUME NEW i \in DOMAIN BindingsOf(lastTable)
        PROVE  SilentAt(i, BindingsOf(lastTable)[i])'
    BY <1>1, <1>2, <1>4, <2>1, SilentWhileBeats DEF HangInv, Replacing
  <2> QED
    BY <1>2, <2>2 DEF HangInv
<1> QED
  BY <1>3, <1>4

LEMMA BindingKeepsHang ==
  ASSUME SlotsAreSteady, SlotsAreFixed, KindsApart, IInv, OwnInv, HangInv, [Next]_vars, ApplyBinding
  PROVE  HangInv'
<1> DEFINE b == bindings[current][at]
<1>1. /\ audPc = "bindings" /\ at \in DOMAIN bindings[current]
      /\ UNCHANGED <<bindings, lastTable, current, audPc, live, heartbeat>>
  BY DEF ApplyBinding, SkipBinding, HearSource, FollowSource, ReleaseSource, NextBinding, ctlVars, srcVars
<1>2. current = lastTable /\ current # NoTable /\ current \in DOMAIN bindings /\ KeyedOnce(bindings[current])
  BY <1>1 DEF IInv, TablesOK, SwapOK, Alive, WhereOK
<1>3. BindingsOf(lastTable) = bindings[current] /\ BindingsOf(lastTable)' = BindingsOf(lastTable)
  BY <1>1, <1>2 DEF BindingsOf
<1>4. /\ b \in Binding /\ Home(b) /\ at \in Index /\ pending[at] \in Pending
      /\ b.key \in Modules /\ b.source \in Sources
  BY <1>1, <1>3, LastIsTyped DEF Binding
<1>5. \A i \in DOMAIN bindings[current] : SilentAt(i, bindings[current][i])
  BY <1>1, <1>3 DEF HangInv, Replacing
<1>6. PICK p : pending' = [pending EXCEPT ![at] = p]
  BY DEF ApplyBinding, SkipBinding, HearSource, FollowSource, ReleaseSource, NextBinding
<1>7. pending \in [Index -> Pending]
  BY DEF IInv, AudioOK
<1>8. UNCHANGED value \/ \E v : Write(b.slot, v)
  BY DEF ApplyBinding, SkipBinding, HearSource, FollowSource, ReleaseSource
<1>9. \A m \in Modules : value'[m] # value[m] => m = b.key
  <2> HIDE DEF b
  <2> QED
    BY <1>4, <1>8, WriteReachesOne
<1>10. ASSUME NEW i \in DOMAIN bindings[current], i # at
       PROVE  SilentAt(i, BindingsOf(lastTable)[i])'
  <2>1. pending'[i] = pending[i]
    BY <1>6, <1>7, <1>10, <1>3, LastIsTyped
  <2>2. bindings[current][i].key # b.key
    BY <1>1, <1>2, <1>10 DEF KeyedOnce
  <2>3. bindings[current][i].key \in Modules
    BY <1>3, LastIsTyped DEF Binding
  <2>4. value'[bindings[current][i].key] = value[bindings[current][i].key]
    BY <1>9, <2>2, <2>3
  <2> QED
    BY <1>1, <1>3, <1>5, <2>1, <2>4, SilentWhileBeats
<1>11. ASSUME NEW i \in DOMAIN bindings[current], i = at
       PROVE  SilentAt(i, BindingsOf(lastTable)[i])'
  <2> DEFINE c == bindings[current][i]
             q == pending[i]
  <2>1. c' = c /\ c = b /\ BindingsOf(lastTable)[i]' = c
    BY <1>1, <1>3, <1>11
  <2>2. c \in Binding /\ Home(c) /\ q \in Pending /\ c.key \in Modules /\ c.source \in Sources
    BY <1>4, <1>11
  <2>3. heartbeat[c.source] \in Nat /\ q.beat <= heartbeat[c.source]
    BY <2>2, <1>5 DEF SilentAt, IInv, ControlOK
  <2>4. sourceValue[c.source] \notin UiValues
    BY <2>2 DEF IInv, ControlOK, KindsApart
  <2>5. CASE SkipBinding
    <3>1. pending' = [pending EXCEPT ![i] = [q EXCEPT !.active = FALSE]] /\ UNCHANGED value
      BY <2>5, <1>11 DEF SkipBinding, NextBinding
    <3>2. pending'[i].beat = q.beat /\ pending'[i].since = q.since
      BY <3>1, <1>4, <1>7, <1>11 DEF Pending
    <3> QED
      BY <3>1, <3>2, <1>1, <1>3, <1>5, SilentWhileBeats
  <2>6. CASE HearSource
    <3>1. /\ pending' = [pending EXCEPT ![i] = [q EXCEPT !.beat = heartbeat[c.source], !.since = 0]]
          /\ Write(c.slot, sourceValue[c.source])
      BY <2>6, <1>11 DEF HearSource, NextBinding
    <3>2. pending'[i].beat = heartbeat[c.source]
      BY <3>1, <1>4, <1>7, <1>11 DEF Pending
    <3> HIDE DEF c
    <3>3. live[c.key] # Absent => value'[c.key] \notin UiValues
      BY <3>1, <2>2, <2>4, WriteReachesOne
    <3> QED
      BY <3>2, <3>3, <2>1, <2>3, <1>1 DEF SilentAt
  <2>7. CASE FollowSource
    <3>1. /\ pending' = [pending EXCEPT ![i] = q]
          /\ Write(c.slot, sourceValue[c.source])
      BY <2>7, <1>11 DEF FollowSource, NextBinding
    <3>2. pending'[i] = q
      BY <3>1, <1>4, <1>7, <1>11
    <3> HIDE DEF c
    <3>3. live[c.key] # Absent => value'[c.key] \notin UiValues
      BY <3>1, <2>2, <2>4, WriteReachesOne
    <3> QED
      BY <3>2, <3>3, <2>1, <2>3, <1>1 DEF SilentAt
  <2>8. CASE ReleaseSource
    <3>1. /\ pending' = [pending EXCEPT ![i] = [q EXCEPT !.active = FALSE]]
          /\ q.since > HangBlocks
      BY <2>8, <1>11 DEF ReleaseSource, NextBinding
    <3>2. pending'[i].beat = q.beat /\ pending'[i].since = q.since
      BY <3>1, <1>4, <1>7, <1>11 DEF Pending
    <3> HIDE DEF c
    <3> QED
      BY <3>1, <3>2, <2>1, <2>3, <1>1 DEF SilentAt
  <2> QED
    BY <2>5, <2>6, <2>7, <2>8 DEF ApplyBinding
<1> QED
  BY <1>3, <1>10, <1>11 DEF HangInv

LEMMA TableKeepsHang ==
  ASSUME IInv, OwnInv, HangInv, CommandsDone \/ ApplyTable \/ ApplyEnd
  PROVE  HangInv'
<1>1. UNCHANGED <<bindings, heartbeat, live, value>>
  BY DEF CommandsDone, ApplyTable, ApplyEnd, ctlVars, srcVars
<1>2. ASSUME UNCHANGED <<pending, lastTable>>, ~Replacing PROVE HangInv'
  BY <1>1, <1>2 DEF HangInv, SilentAt, BindingsOf
<1>3. CASE CommandsDone
  <2>1. UNCHANGED <<pending, lastTable, current>> /\ audPc = "commands"
        /\ (audPc' = "table" \/ (audPc' = "idle" /\ current = NoTable))
    BY <1>3 DEF CommandsDone
  <2>2. current = NoTable => lastTable = NoTable
    BY <2>1 DEF OwnInv, NamedOK
  <2> QED
    BY <1>2, <2>1, <2>2 DEF HangInv, Replacing
<1>4. CASE ApplyTable
  <2>1. CASE current = lastTable
    BY <1>2, <1>4, <2>1 DEF ApplyTable, Replacing
  <2>2. CASE current # lastTable
    <3>1. pending' = [i \in Index |-> NotPending] /\ lastTable' = current /\ current # NoTable
          /\ current \in DOMAIN bindings
      BY <1>4, <2>2 DEF ApplyTable, IInv, TablesOK, SwapOK, WhereOK, Alive
    <3>2. /\ BindingsOf(lastTable)' = bindings[current]
          /\ bindings[current] \in Seq(Binding) /\ Len(bindings[current]) <= MaxBindings
      BY <1>1, <3>1 DEF BindingsOf, IInv, TablesOK, SwapOK, TablesTyped, KeyedOnce
    <3>3. ASSUME NEW i \in DOMAIN bindings[current]
          PROVE  i \in Index /\ bindings[current][i].source \in Sources
      <4>1. i \in Index /\ bindings[current][i] \in Binding
        <5> HIDE DEF Binding
        <5> QED
          BY <3>2 DEF Index
      <4> QED
        BY <4>1 DEF Binding
    <3>4. ASSUME NEW i \in DOMAIN bindings[current]
          PROVE  SilentAt(i, BindingsOf(lastTable)[i])'
      <4>1. heartbeat[bindings[current][i].source] \in Nat
        BY <3>3 DEF IInv, ControlOK
      <4>2. pending'[i].beat = -1
        BY <3>1, <3>3 DEF NotPending
      <4> QED
        BY <1>1, <3>2, <4>1, <4>2 DEF SilentAt
    <3> QED
      BY <3>2, <3>4 DEF HangInv
  <2> QED
    BY <2>1, <2>2
<1>5. CASE ApplyEnd
  BY <1>2, <1>5 DEF ApplyEnd, Replacing
<1> QED
  BY <1>3, <1>4, <1>5

\* What the audio thread notes of a binding is what its parameter followed last, of
\* that source and under any table, unless the binding was not looked at yet.
HeardInv ==
  \A i \in DOMAIN BindingsOf(lastTable) :
    LET b == BindingsOf(lastTable)[i]
    IN IF pending[i].beat = -1 THEN b.key \in unseen
       ELSE pending[i].beat = heard[b.key][b.source]

LEMMA HeardStaysKnown ==
  ASSUME IInv, OwnInv, HeardInv, [Next]_vars
  PROVE  HeardInv'
<1>1. CASE Source \/ Control \/ UNCHANGED vars
  BY <1>1, LastIsKept DEF HeardInv
<1>2. CASE ApplyBegin
  <2>1. UNCHANGED <<lastTable, bindings, heard, unseen>>
    BY <1>2 DEF ApplyBegin, historyVars
  <2>2. ASSUME NEW i \in Index
        PROVE  pending'[i].beat = pending[i].beat
    <3>1. pending[i] \in Pending
      BY <2>2 DEF IInv, AudioOK
    <3> QED
      BY <1>2, <2>2, <3>1 DEF ApplyBegin, Pending
  <2> QED
    BY <2>1, <2>2, LastIsTyped DEF HeardInv, BindingsOf
<1>3. CASE ApplyCommand
  <2>1. UNCHANGED <<lastTable, bindings, heard, unseen>>
    BY <1>3 DEF ApplyCommand, ApplyBypass, ApplyUnbound, ApplyQueued, PopCommand, historyVars
  <2>2. \/ UNCHANGED pending
        \/ \E j \in DOMAIN BindingsOf(current) : \E v :
             pending' = [pending EXCEPT ![j].active = TRUE, ![j].value = v]
    BY <1>3 DEF ApplyCommand, ApplyBypass, ApplyUnbound, ApplyQueued
  <2>3. ASSUME NEW i \in Index
        PROVE  pending'[i].beat = pending[i].beat
    <3>1. pending[i] \in Pending /\ pending \in [Index -> Pending]
      BY <2>3 DEF IInv, AudioOK
    <3>2. ASSUME NEW j, NEW v, pending' = [pending EXCEPT ![j].active = TRUE, ![j].value = v]
          PROVE  pending'[i].beat = pending[i].beat
      <4>1. CASE i = j
        BY <3>1, <3>2, <4>1, <2>3 DEF Pending
      <4>2. CASE i # j
        BY <3>1, <3>2, <4>2, <2>3
      <4> QED
        BY <4>1, <4>2
    <3> QED
      BY <2>2, <3>2
  <2> QED
    BY <2>1, <2>3, LastIsTyped DEF HeardInv, BindingsOf
<1>4. CASE CommandsDone \/ ApplyEnd
  BY <1>4 DEF CommandsDone, ApplyEnd, historyVars, HeardInv, BindingsOf
<1>5. CASE ApplyTable
  <2>1. CASE current = lastTable
    BY <1>5, <2>1 DEF ApplyTable, HeardInv, BindingsOf
  <2>2. CASE current # lastTable
    <3>1. /\ pending' = [i \in Index |-> NotPending] /\ lastTable' = current /\ bindings' = bindings
          /\ unseen' = {bindings[current][i].key : i \in DOMAIN bindings[current]}
          /\ current # NoTable /\ current \in DOMAIN bindings
      BY <1>5, <2>2 DEF ApplyTable, IInv, TablesOK, SwapOK, WhereOK, Alive
    <3>2. /\ BindingsOf(lastTable)' = bindings[current]
          /\ bindings[current] \in Seq(Binding) /\ Len(bindings[current]) <= MaxBindings
      BY <3>1 DEF BindingsOf, IInv, TablesOK, SwapOK, TablesTyped, KeyedOnce
    <3>3. \A i \in DOMAIN bindings[current] : i \in Index
      BY <3>2 DEF Index
    <3>4. \A i \in DOMAIN bindings[current] : pending'[i].beat = -1
      BY <3>1, <3>3 DEF NotPending
    <3> QED
      BY <3>1, <3>2, <3>4 DEF HeardInv
  <2> QED
    BY <2>1, <2>2
<1>6. CASE ApplyBinding
  <2> DEFINE b == bindings[current][at]
  <2>1. /\ audPc = "bindings" /\ at \in DOMAIN bindings[current]
        /\ UNCHANGED <<bindings, lastTable, current>>
    BY <1>6 DEF ApplyBinding, SkipBinding, HearSource, FollowSource, ReleaseSource, NextBinding
  <2>2. current = lastTable /\ current # NoTable /\ current \in DOMAIN bindings /\ KeyedOnce(bindings[current])
    BY <2>1 DEF IInv, TablesOK, SwapOK, Alive, WhereOK
  <2>3. BindingsOf(lastTable) = bindings[current] /\ BindingsOf(lastTable)' = bindings[current]
    BY <2>1, <2>2 DEF BindingsOf
  <2>4. \A i \in DOMAIN bindings[current] :
          /\ i \in Index /\ pending[i] \in Pending
          /\ bindings[current][i].key \in Modules /\ bindings[current][i].source \in Sources
    BY <2>3, LastIsTyped DEF Binding
  <2>5. pending \in [Index -> Pending] /\ heard \in [Modules -> [Sources -> 0 .. MaxBeats]]
    BY DEF IInv, AudioOK, HistoryOK
  <2>6. CASE HearSource
    <3>1. /\ pending' = [pending EXCEPT ![at] = [pending[at] EXCEPT !.beat = heartbeat[b.source], !.since = 0]]
          /\ heard' = [heard EXCEPT ![b.key][b.source] = heartbeat[b.source]]
          /\ unseen' = unseen \ {b.key}
      BY <2>6 DEF HearSource, NextBinding, Listened
    <3>2. heartbeat[b.source] \in 0 .. MaxBeats
      BY <2>1, <2>4 DEF IInv, ControlOK
    <3>3. ASSUME NEW i \in DOMAIN bindings[current], i # at
          PROVE  /\ pending'[i] = pending[i]
                 /\ heard'[bindings[current][i].key] = heard[bindings[current][i].key]
                 /\ bindings[current][i].key # b.key
      <4>1. bindings[current][i].key # b.key
        BY <2>1, <2>2, <3>3 DEF KeyedOnce
      <4> HIDE DEF b
      <4> QED
        BY <2>4, <2>5, <3>1, <3>3, <4>1
    <3>4. pending'[at].beat = heartbeat[b.source] /\ heard'[b.key][b.source] = heartbeat[b.source]
      BY <2>1, <2>4, <2>5, <3>1 DEF Pending
    <3>5. heartbeat[b.source] # -1
      BY <3>2
    <3> QED
      BY <2>3, <3>1, <3>3, <3>4, <3>5 DEF HeardInv
  <2>7. CASE SkipBinding \/ FollowSource \/ ReleaseSource
    <3>1. UNCHANGED <<heard, unseen>> /\ \E active : pending' = [pending EXCEPT ![at] = active]
          /\ (active = pending[at] \/ active = [pending[at] EXCEPT !.active = FALSE])
      BY <2>7 DEF SkipBinding, FollowSource, ReleaseSource, NextBinding, historyVars
    <3>2. ASSUME NEW i \in DOMAIN bindings[current]
          PROVE  pending'[i].beat = pending[i].beat
      BY <2>4, <2>5, <3>1, <3>2 DEF Pending
    <3> QED
      BY <2>3, <3>1, <3>2 DEF HeardInv
  <2> QED
    BY <1>6, <2>6, <2>7 DEF ApplyBinding
<1> QED
  BY <1>1, <1>2, <1>3, <1>4, <1>5, <1>6 DEF Next, Audio

\* A source that is silent for the hang time comes back to a parameter for a heartbeat
\* which that parameter had not followed under any table, or once at the first look at
\* its binding after the tables changed, and for nothing else that is bound, unbound,
\* edited or queued meanwhile (apply, control_router.cpp:188-219).
THEOREM SilentSourcesStayAway ==
  ASSUME SlotsAreSteady, SlotsAreFixed, KindsApart
  PROVE  Spec => ReleasedUntilHeard
<1>1. Init => HangInv
  BY DEF Init, HangInv, BindingsOf
<1>2. IInv /\ OwnInv /\ HangInv /\ [Next]_vars => HangInv'
  <2> SUFFICES ASSUME IInv, OwnInv, HangInv, [Next]_vars PROVE HangInv'
    OBVIOUS
  <2>1. CASE Audio
    BY <2>1, BeginKeepsHang, CommandKeepsHang, BindingKeepsHang, TableKeepsHang DEF Audio
  <2> QED
    BY <2>1, ControlKeepsHang DEF Next
<1>5. Init => HeardInv
  BY DEF Init, HeardInv, BindingsOf
<1>3. IInv /\ OwnInv /\ HangInv /\ HeardInv /\ [Next]_vars =>
        [\A m \in Modules :
           value[m] \in UiValues /\ value'[m] \in SourceValues =>
             LET s == bindings[current][at].source
             IN heartbeat[s] > heard[m][s] \/ (m \in unseen /\ m \notin unseen')]_vars
  <2> SUFFICES ASSUME IInv, OwnInv, HangInv, HeardInv, [Next]_vars, NEW m \in Modules,
                      value[m] \in UiValues, value'[m] \in SourceValues
               PROVE  \/ heartbeat[bindings[current][at].source] > heard[m][bindings[current][at].source]
                      \/ (m \in unseen /\ m \notin unseen')
    OBVIOUS
  <2> DEFINE b == bindings[current][at]
  <2>1. value'[m] # value[m] /\ value'[m] \notin UiValues /\ value'[m] # Preset
    BY DEF KindsApart
  <2>2. CASE ApplyBinding
    <3>1. /\ audPc = "bindings" /\ at \in DOMAIN bindings[current]
      BY <2>2 DEF ApplyBinding, SkipBinding, HearSource, FollowSource, ReleaseSource, NextBinding
    <3>2. /\ current = lastTable /\ BindingsOf(lastTable) = bindings[current]
      BY <3>1 DEF IInv, TablesOK, SwapOK, WhereOK, BindingsOf
    <3>3. b \in Binding /\ Home(b) /\ pending[at] \in Pending /\ at \in Index
      BY <3>1, <3>2, LastIsTyped
    <3>4. SilentAt(at, b) /\ WaitsFor(pending[at], at, lastTable)
      BY <3>1, <3>2, <3>3 DEF HangInv, OwnInv, WaitingOK, Replacing
    <3> HIDE DEF b
    <3>5. ~SkipBinding
      BY <2>1 DEF SkipBinding
    <3>6. CASE HearSource
      <4>1. /\ heartbeat[b.source] # pending[at].beat /\ Write(b.slot, sourceValue[b.source])
            /\ unseen' = unseen \ {b.key}
        BY <3>6 DEF HearSource, Listened, b
      <4>2. m = b.key
        BY <4>1, <2>1, <3>3, WriteReachesOne
      <4>3. /\ pending[at].beat <= heartbeat[b.source] /\ b.source \in Sources
            /\ pending[at].beat \in Int
        BY <3>3, <3>4 DEF SilentAt, Binding, Pending
      <4>4. heartbeat[b.source] \in Nat
        BY <4>3 DEF IInv, ControlOK
      <4>5. IF pending[at].beat = -1 THEN b.key \in unseen
            ELSE pending[at].beat = heard[b.key][b.source]
        BY <3>1, <3>2 DEF HeardInv, b
      <4> QED
        BY <4>1, <4>2, <4>3, <4>4, <4>5 DEF b
    <3>7. CASE FollowSource
      <4>1. /\ heartbeat[b.source] = pending[at].beat /\ pending[at].since <= HangBlocks
            /\ Write(b.slot, sourceValue[b.source])
        BY <3>7 DEF FollowSource, b
      <4>2. m = b.key /\ live[m] # Absent
        BY <4>1, <2>1, <3>3, WriteReachesOne
      <4>3. pending[at].since \in Nat /\ HangBlocks \in Nat
        BY <3>3 DEF Pending
      <4> QED
        BY <4>1, <4>2, <4>3, <3>4 DEF SilentAt
    <3>8. CASE ReleaseSource
      <4>1. UNCHANGED value \/ (pending[at].active /\ Write(b.slot, pending[at].value))
        BY <3>8 DEF ReleaseSource, b
      <4>2. pending[at].active => pending[at].value \in UiValues
        BY <3>4 DEF WaitsFor
      <4> QED
        BY <4>1, <4>2, <2>1 DEF Write
    <3> QED
      BY <2>2, <3>5, <3>6, <3>7, <3>8 DEF ApplyBinding
  <2>3. ~ApplyCommand
    <3>1. ASSUME ApplyUnbound PROVE FALSE
      <4>1. UNCHANGED value \/ Write(live[Head(uiQueue).module], Head(uiQueue).value)
        BY <3>1 DEF ApplyUnbound
      <4>2. Head(uiQueue).value \in UiValues
        <5>1. uiQueue # << >> /\ ~Head(uiQueue).isBypass /\ uiQueue \in Seq(UiCommand)
          BY <3>1 DEF ApplyUnbound, PopCommand, IInv, ControlOK
        <5>2. 1 \in DOMAIN uiQueue /\ Head(uiQueue) = uiQueue[1]
          <6> HIDE DEF UiCommand
          <6> QED
            BY <5>1
        <5> QED
          BY <5>1, <5>2 DEF OwnInv, AskedOK
      <4> QED
        BY <4>1, <4>2, <2>1 DEF Write
    <3> QED
      BY <3>1, <2>1 DEF ApplyCommand, ApplyBypass, ApplyQueued
  <2>4. ~(ApplyBegin \/ CommandsDone \/ ApplyTable \/ ApplyEnd)
    BY <2>1 DEF ApplyBegin, CommandsDone, ApplyTable, ApplyEnd
  <2>5. ~(Source \/ Control \/ UNCHANGED vars)
    BY <2>1 DEF Source, SpeakValue, BeatEarly, SpeakBeat, ValueLate, Control, Unbind, Bind, Publish,
       Recycle, UiSet, UiSetBypass, QueueCommand, EditChain, audVars, vars
  <2> QED
    BY <2>2, <2>3, <2>4, <2>5 DEF Next, Audio
<1>4. Spec => [](IInv /\ OwnInv)
  BY IAndOwnHold
<1> QED
  BY <1>1, <1>2, <1>3, <1>4, <1>5, HeardStaysKnown, PTL DEF Spec, ReleasedUntilHeard
=============================================================================
