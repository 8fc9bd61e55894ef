----------------------------- MODULE PresetFiles -----------------------------
(***************************************************************************)
(* One preset on its way: a document, written by hand, by an older version *)
(* or by this one, is loaded, saved over itself, exported with its assets  *)
(* and imported again, while migrations are registered.                    *)
(***************************************************************************)
EXTENDS PresetIo

CONSTANTS
  Texts,       \* the strings that occur, other than the empty one
  Keys,        \* the parameter ids a document may hold
  Amounts,     \* the numbers a document may hold for a parameter or the mix
  Docs,        \* the documents to start with
  Dirs,        \* base directories a preset is loaded with
  Disk,        \* asset files: a function from paths to contents
  MaxSchema,   \* schemas a migration is registered for
  MaxSteps,    \* bound: registered migrations
  MaxPath      \* bound: names in a path, which grows when a preset with relative
               \* paths is loaded, saved and loaded again

NoPreset == [ok |-> FALSE]

(***************************************************************************)
(* What a document may hold: a schema, a name, slots and scenes, each of   *)
(* the right type, of a wrong one or not there at all.                     *)
(***************************************************************************)
Ids == Texts \cup {NoName}
Paths == Seq(Texts \cup {Root})
Maybe(S) == {Absent, Bad} \cup S
ParamNodes == UNION {[S -> {Bad} \cup Amounts] : S \in SUBSET Keys}
SlotObjects ==
  [module : {Bad} \cup Ids, file : Maybe(Paths), params : Maybe(ParamNodes),
   bypass : Maybe(BOOLEAN), mix : Maybe(Amounts)]
OverrideObjects ==
  [module : {Bad} \cup Ids, params : Maybe(ParamNodes), bypass : Maybe(BOOLEAN)]
Overrides == Seq({Bad} \cup OverrideObjects)
Names == Seq(0 .. 3)
WholeNames == {name \in Names : IsWhole(name)}
SceneObjects == [name : Maybe(WholeNames), overrides : Maybe(Overrides)]
Slots == Seq({Bad} \cup SlotObjects)
Scenes == Seq({Bad} \cup SceneObjects)
DocObjects ==
  [schema : Maybe(Int), name : Maybe(Texts), chain : {Bad} \cup Slots, scenes : Maybe(Scenes)]
Documents == {Torn, Bad} \cup DocObjects

(***************************************************************************)
(* SlotDef, SceneDef and Preset: what loading may make of a document.      *)
(***************************************************************************)
ParamValues == UNION {[S -> 0 .. Top] : S \in SUBSET Params}
SlotDefs ==
  [module : Ids, file : Paths, params : ParamValues, bypass : BOOLEAN, mix : 0 .. Top]
OverrideDefs == [module : Modules, params : ParamValues, bypass : BOOLEAN]
SceneDefs ==
  [name : {name \in Names : Len(name) <= NameLimit}, overrides : Seq(OverrideDefs)]
PresetDefs ==
  [schema : {CurrentSchema}, name : Texts, chain : Seq(SlotDefs),
   scenes : {scenes \in Seq(SceneDefs) : Len(scenes) <= MaxScenes}]

\* A field that is missing or of a wrong type is told from every value it may have.
IsNoValue(v) ==
  /\ v \notin Int /\ v \notin BOOLEAN /\ v \notin Ids /\ v \notin Paths /\ v \notin ParamNodes
  /\ v \notin Names
  /\ v \notin SlotObjects /\ v \notin OverrideObjects /\ v \notin Overrides
  /\ v \notin SceneObjects /\ v \notin Slots /\ v \notin Scenes /\ v \notin DocObjects

PresetAssumption ==
  /\ CurrentSchema \in Nat /\ MaxSchema \in Nat /\ Top \in Nat
  /\ MaxScenes \in Nat /\ NameLimit \in Nat
  /\ {"Untitled", "assets", "elsewhere"} \subseteq Texts
  /\ Modules \subseteq Texts /\ Params \subseteq Keys /\ NoName \notin Modules
  /\ Root \notin Texts /\ Amounts \subseteq Int /\ 0 .. Top \subseteq Amounts
  /\ IsNoValue(Absent) /\ IsNoValue(Bad) /\ IsNoValue(Torn) /\ Absent # Bad
  /\ Docs \subseteq Documents /\ Dirs \subseteq Paths

VARIABLES
  steps,       \* steps(): registered migrations in their order
  doc,         \* the document in the file
  held,        \* what the last load or import returned
  package,     \* the exported directory
  sent         \* the preset that was exported and from which directory

vars == <<steps, doc, held, package, sent>>

Init ==
  /\ steps = << >> /\ doc \in Docs /\ held = NoPreset
  /\ package = NoPreset /\ sent = NoPreset

RegisterMigration(from, to) ==
  /\ CanRegister(steps, from, to) /\ Len(steps) < MaxSteps
  /\ steps' = Append(steps, <<from, to>>)
  /\ UNCHANGED <<doc, held, package, sent>>

\* migrate registers the built-in step when it first runs.
AfterMigrate(d) ==
  IF ~Unreadable(d) /\ d.schema # Bad /\ SchemaOf(d) < CurrentSchema
  THEN WithBuiltin(steps) ELSE steps

ShortPaths(d) ==
  ~Unreadable(d) /\ d.chain # Bad =>
    \A i \in DOMAIN d.chain : IsSlot(d.chain[i]) =>
      Len(Given(d.chain[i].file, << >>)) < MaxPath

Load(mode, baseDir) ==
  /\ held = NoPreset /\ ShortPaths(doc)
  /\ steps' = AfterMigrate(doc)
  /\ held' = LoadPreset(doc, mode, baseDir, steps')
  /\ UNCHANGED <<doc, package, sent>>

\* EngineHost::savePreset: the file is opened for writing, which empties it, and
\* written in place.  What cannot be dumped throws before that.
Save ==
  /\ held.ok
  /\ IF CanDump(held.preset)
     THEN \/ doc' = SavePreset(held.preset)
          \/ doc' = Torn           \* the process ends or the disk is full
     ELSE UNCHANGED doc
  /\ held' = NoPreset
  /\ UNCHANGED <<steps, package, sent>>

\* exportPreset: the assets are copied before the preset is dumped; without a
\* preset.json they are no package.
ExportThrows ==
  /\ held.ok /\ ~sent.ok /\ ~CanDump(held.preset)
  /\ held' = NoPreset
  /\ UNCHANGED <<steps, doc, package, sent>>
Export(baseDir) ==
  /\ held.ok /\ ~sent.ok /\ CanDump(held.preset)
  /\ \E written \in BOOLEAN :    \* whether the disk had the room
       package' = ExportPreset(held.preset, baseDir, Disk, written)
  /\ sent' = [ok |-> TRUE, preset |-> held.preset, from |-> baseDir]
  /\ UNCHANGED <<steps, doc, held>>

Elsewhere == <<Root, "elsewhere">>
Import ==
  /\ sent.ok
  /\ steps' = AfterMigrate(package.doc)
  /\ held' = ImportPreset(package, Elsewhere, CurrentSchema, steps')
  /\ UNCHANGED <<doc, package, sent>>

Next ==
  \/ \E from, to \in 0 .. MaxSchema : RegisterMigration(from, to)
  \/ \E mode \in {Strict, Tolerant}, dir \in Dirs : Load(mode, dir)
  \/ Save
  \/ ExportThrows
  \/ \E dir \in Dirs : Export(dir)
  \/ Import

Spec == Init /\ [][Next]_vars

-----------------------------------------------------------------------------
(***************************************************************************)
(* Properties                                                              *)
(***************************************************************************)
AllKnown(preset) == \A i \in DOMAIN preset.chain : preset.chain[i].module \in Modules
AllAbsolute(preset) ==
  \A i \in DOMAIN preset.chain :
    preset.chain[i].file # << >> => IsAbsolute(preset.chain[i].file)

\* What was loaded in either mode, whatever was wrong with the document, can be
\* saved and is then loaded back as it is, strictly and without being cut again
\* (loadPreset, savePreset, operator==); with its files if their paths are
\* absolute.  Two things are the exception: a module the registry does not know,
\* which Tolerant keeps, so that Strict refuses what Tolerant saved; and the name of
\* a scene that loading has cut within a character, which cannot be saved at all.
SavedLoadsBack ==
  held.ok /\ AllKnown(held.preset) /\ CanDump(held.preset) =>
    LET saved == SavePreset(held.preset)
        again == LoadPreset(saved, Strict, Elsewhere, steps)
    IN /\ again.ok /\ Same(again.preset, held.preset)
       /\ \A i \in DOMAIN saved.chain : ~Clamps(saved.chain[i])
       /\ AllAbsolute(held.preset) => again.preset = held.preset

SourceOf(i) == Source(sent.preset.chain[i], sent.from)
WithFile == {i \in DOMAIN sent.preset.chain : sent.preset.chain[i].file # << >>}
NoClash ==
  \A i, j \in WithFile :
    Last(SourceOf(i)) = Last(SourceOf(j)) => SourceOf(i) = SourceOf(j)

\* An export that reports success has written a package that can be taken anywhere,
\* also where none of the original files are: it loads as the same preset, no asset
\* is missing and each slot finds the content it had.  What it has not noticed is a
\* preset.json that was not written to its end: that is refused by the import, and
\* never taken for another preset (exportPreset, importPreset).  Two assets of the
\* same name are the exception: the second replaces the first.
PackageIsWhole ==
  sent.ok /\ package.ok /\ AllKnown(sent.preset) /\ NoClash =>
    LET back == ImportPreset(package, Elsewhere, CurrentSchema, steps)
        nothing == [path \in {} |-> 0]
    IN /\ back.ok <=> package.doc # Torn
       /\ back.ok =>
            /\ Same(back.preset, sent.preset)
            /\ MissingAssets(package, Elsewhere, nothing) = {}
            /\ \A i \in WithFile :
                 /\ Front(back.preset.chain[i].file) = Elsewhere \o <<"assets">>
                 /\ package.assets[Last(back.preset.chain[i].file)] = Disk[SourceOf(i)]

\* What a document of this schema would be migrated to now; migrate registers the
\* built-in step before it looks.
CanMigrate(st, schema) == Migrate(WithBuiltin(st), schema) = CurrentSchema
\* Another step from schema 0 was registered before the built-in one.
BuiltinIsLate(st) ==
  <<0, 1>> \notin ToSet(st) /\ \E i \in DOMAIN st : st[i][1] = 0

\* Registering a migration, at any time before or after the first preset is loaded,
\* takes nothing away: a schema that could be migrated still can (registerMigration,
\* ensureBuiltinMigrations, migrate).  Schema 0 is the exception while the built-in
\* step is not registered: a step from 0 that comes before it is taken instead, and
\* may lead past the current schema.
StillLoadStep ==
  \A schema \in 0 .. CurrentSchema :
    CanMigrate(steps, schema) =>
      CanMigrate(steps', schema) \/ (schema = 0 /\ ~BuiltinIsLate(steps) /\ BuiltinIsLate(steps'))
OldPresetsStillLoad == [][StillLoadStep]_vars
=============================================================================
