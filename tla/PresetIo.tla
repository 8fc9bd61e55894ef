------------------------------ MODULE PresetIo ------------------------------
(***************************************************************************)
(* core/preset: what a preset file may hold, what loading makes of it and  *)
(* what saving, exporting and importing write and read.  A JSON value is a *)
(* record of its fields; a field is Absent, Bad (of the wrong type) or its *)
(* value.  The category and impl strings of a slot stand and fall with its *)
(* module id.  A path is a sequence of names, absolute if it begins with   *)
(* Root.  The name of a scene is its bytes in UTF-8, where a byte is the   *)
(* number of bytes of its character that follow it.                        *)
(***************************************************************************)
EXTENDS Integers, Sequences, SequencesExt

CONSTANTS
  Absent, Bad, Torn,   \* no field, a field of the wrong type, malformed JSON
  Modules, NoName,     \* the ids of the registry; the empty string
  Params,              \* parameter ids, the same for each module
  Top,                 \* a parameter's and the mix's range is 0 .. Top
  MaxScenes,           \* kMaxScenes
  NameLimit,           \* kMaxSceneNameLength, in bytes
  CurrentSchema,       \* kCurrentSchema
  Root

Strict == "Strict"
Tolerant == "Tolerant"

Clamped(v) == IF v < 0 THEN 0 ELSE IF v > Top THEN Top ELSE v
IsAbsolute(path) == path # << >> /\ Head(path) = Root
Under(dir, path) == IF IsAbsolute(path) THEN path ELSE dir \o path

-----------------------------------------------------------------------------
(***************************************************************************)
(* loadPreset.  A value that is not of the type asked for is an error in   *)
(* Strict and a warning in Tolerant, which goes on without it.             *)
(***************************************************************************)
GoodParams(node) == {id \in DOMAIN node : id \in Params /\ node[id] # Bad}
LoadParamsUnclamped(node) ==   \* deviation: takes the value as it is written
  IF node \in {Absent, Bad} THEN [id \in {} |-> 0]
  ELSE [id \in GoodParams(node) |-> node[id]]
LoadParams(node) ==
  IF node \in {Absent, Bad} THEN [id \in {} |-> 0]
  ELSE [id \in GoodParams(node) |-> Clamped(node[id])]
ParamsAreFine(node) == node = Absent \/ (node # Bad /\ GoodParams(node) = DOMAIN node)

IsSlot(node) == node # Bad /\ node.module # Bad
SlotIsFine(node) ==
  /\ IsSlot(node)
  /\ node.file # Bad /\ node.module \in Modules
  /\ ParamsAreFine(node.params) /\ node.bypass # Bad /\ node.mix # Bad

Given(field, default) == IF field \in {Absent, Bad} THEN default ELSE field
PathOf(node, baseDir) ==
  LET file == Given(node.file, << >>)
  IN IF file = << >> THEN << >> ELSE Under(baseDir, file)

\* A module the registry does not know stays in the chain, bypassed.
LoadSlot(node, baseDir) ==
  IF node.module \in Modules
  THEN [module |-> node.module, file |-> PathOf(node, baseDir),
        params |-> LoadParams(node.params), bypass |-> Given(node.bypass, FALSE),
        mix |-> Clamped(Given(node.mix, Top))]
  ELSE [module |-> node.module, file |-> PathOf(node, baseDir),
        params |-> LoadParams(Absent), bypass |-> TRUE, mix |-> Top]

\* What a loop keeps that skips the nodes of the other positions.
Selected(nodes, positions) ==
  LET upTo[n \in 0 .. Len(nodes)] ==
        IF n = 0 THEN << >>
        ELSE IF n \in positions THEN Append(upTo[n - 1], nodes[n]) ELSE upTo[n - 1]
  IN upTo[Len(nodes)]

SlotsIn(nodes) == {i \in DOMAIN nodes : IsSlot(nodes[i]) /\ nodes[i].module # NoName}
LoadChain(nodes, baseDir) ==
  LET kept == Selected(nodes, SlotsIn(nodes))
  IN [i \in DOMAIN kept |-> LoadSlot(kept[i], baseDir)]

\* An override that is not an object with a module id is skipped in both modes,
\* as is a scene that is not an object.
OverridesOf(scene) ==
  LET nodes == Given(scene.overrides, << >>)
  IN Selected(nodes, {i \in DOMAIN nodes : nodes[i] # Bad /\ nodes[i].module # Bad})
OverrideIsFine(o) == o.module \in Modules /\ ParamsAreFine(o.params)
LoadOverride(o) ==
  [module |-> o.module, params |-> LoadParams(o.params), bypass |-> Given(o.bypass, FALSE)]
\* The first bytes of a name that is too long, whichever characters they belong to.
Resized(name) == IF Len(name) > NameLimit THEN SubSeq(name, 1, NameLimit) ELSE name
LoadScene(node) ==
  LET read  == OverridesOf(node)
      known == Selected(read, {i \in DOMAIN read : read[i].module \in Modules})
  IN [name |-> Resized(Given(node.name, << >>)),
      overrides |-> [i \in DOMAIN known |-> LoadOverride(known[i])]]

ScenesRead(nodes) ==
  LET first == SubSeq(nodes, 1, IF Len(nodes) > MaxScenes THEN MaxScenes ELSE Len(nodes))
  IN Selected(first, {i \in DOMAIN first : first[i] # Bad})
LoadScenes(nodes) ==
  IF nodes \in {Absent, Bad} THEN << >>
  ELSE [i \in DOMAIN ScenesRead(nodes) |-> LoadScene(ScenesRead(nodes)[i])]
ScenesAreFine(nodes) ==
  \/ nodes = Absent
  \/ nodes # Bad /\ \A i \in DOMAIN ScenesRead(nodes) :
        \A j \in DOMAIN OverridesOf(ScenesRead(nodes)[i]) :
           OverrideIsFine(OverridesOf(ScenesRead(nodes)[i])[j])

\* What was cut to its range or its length.
Clamps(node) ==
  \/ node.params \notin {Absent, Bad} /\
       \E id \in GoodParams(node.params) : node.params[id] # Clamped(node.params[id])
  \/ node.mix \notin {Absent, Bad} /\ node.mix # Clamped(node.mix)

(***************************************************************************)
(* migrate.  A step leads from one schema to a higher one, the first that  *)
(* was registered for a schema is taken, and what it does to a document,   *)
(* other than giving it scenes, loading does not notice.                   *)
(***************************************************************************)
CanRegister(steps, from, to) ==
  from >= 0 /\ to > from /\ <<from, to>> \notin ToSet(steps)
WithBuiltin(steps) ==
  IF CanRegister(steps, 0, 1) THEN Append(steps, <<0, 1>>) ELSE steps
StepFromLast(steps, schema) ==   \* deviation: takes the one registered last
  LET i == CHOOSE k \in DOMAIN steps :
             steps[k][1] = schema /\ \A j \in k + 1 .. Len(steps) : steps[j][1] # schema
  IN steps[i][2]
StepFrom(steps, schema) ==
  LET i == CHOOSE k \in DOMAIN steps :
             steps[k][1] = schema /\ \A j \in 1 .. k - 1 : steps[j][1] # schema
  IN steps[i][2]
\* The schema migrate ends with; below CurrentSchema when a step is missing.
Migrate(steps, schema) ==
  LET reach[s \in 0 .. CurrentSchema] ==
        IF s < CurrentSchema /\ \E i \in DOMAIN steps : steps[i][1] = s
        THEN LET to == StepFrom(steps, s) IN IF to <= CurrentSchema THEN reach[to] ELSE to
        ELSE s
  IN IF schema < 0 THEN schema ELSE reach[schema]

Unreadable(doc) == doc \in {Torn, Bad}
SchemaOf(doc) == Given(doc.schema, 0)
SchemaIsFine(doc, steps) ==
  /\ doc.schema # Bad /\ SchemaOf(doc) <= CurrentSchema
  /\ Migrate(steps, SchemaOf(doc)) = CurrentSchema

LoadPreset(doc, mode, baseDir, steps) ==
  LET ok == /\ ~Unreadable(doc)
            /\ SchemaIsFine(doc, steps) /\ doc.chain # Bad
            /\ mode = Strict =>
                 /\ doc.name \notin {Absent, Bad}
                 /\ \A i \in DOMAIN doc.chain : SlotIsFine(doc.chain[i])
                 /\ ScenesAreFine(doc.scenes)
  IN IF ~ok THEN [ok |-> FALSE]
     ELSE [ok |-> TRUE,
           preset |-> [schema |-> CurrentSchema, name |-> Given(doc.name, "Untitled"),
                       chain  |-> LoadChain(doc.chain, baseDir),
                       scenes |-> LoadScenes(doc.scenes)]]

(***************************************************************************)
(* savePreset and the equality of presets, which does not compare files.   *)
(* dump (external) throws for a text that is not UTF-8.                    *)
(***************************************************************************)
IsWhole(name) == name # << >> => Last(name) = 0
CanDump(preset) == \A i \in DOMAIN preset.scenes : IsWhole(preset.scenes[i].name)
SaveSlot(def) == [def EXCEPT !.file = IF @ = << >> THEN Absent ELSE @]
SavePreset(preset) ==
  [schema |-> CurrentSchema, name |-> preset.name,
   chain  |-> [i \in DOMAIN preset.chain |-> SaveSlot(preset.chain[i])],
   scenes |-> IF preset.scenes = << >> THEN Absent ELSE preset.scenes]

WithoutFiles(chain) == [i \in DOMAIN chain |-> [chain[i] EXCEPT !.file = << >>]]
Same(p, q) ==
  /\ p.schema = q.schema /\ p.name = q.name /\ p.scenes = q.scenes
  /\ WithoutFiles(p.chain) = WithoutFiles(q.chain)

(***************************************************************************)
(* exportPreset: the assets a directory's disk has are copied one after    *)
(* the other into assets/ under their names, and the slots point there.    *)
(* What a slot cannot take along keeps its path.  Whether preset.json is   *)
(* written to its end is not looked at: ok is of the assets alone.         *)
(***************************************************************************)
Source(def, baseDir) == Under(baseDir, def.file)
Taken(def, baseDir, disk) == def.file # << >> /\ Source(def, baseDir) \in DOMAIN disk
ExportSlot(def, baseDir, disk) ==
  IF Taken(def, baseDir, disk) THEN [def EXCEPT !.file = <<"assets", Last(def.file)>>] ELSE def
\* Of the assets with one name the last replaces the others.
CopyAssets(chain, baseDir, disk) ==
  LET copied  == {i \in DOMAIN chain : Taken(chain[i], baseDir, disk)}
      as(i)   == Last(chain[i].file)
      lastOf(name) == CHOOSE i \in copied : as(i) = name /\ \A j \in copied : as(j) = name => j <= i
  IN [name \in {as(i) : i \in copied} |-> disk[Source(chain[lastOf(name)], baseDir)]]
ExportPreset(preset, baseDir, disk, written) ==
  LET chain == preset.chain
  IN [doc    |-> IF ~written THEN Torn
                 ELSE SavePreset([preset EXCEPT !.chain =
                        [i \in DOMAIN chain |-> ExportSlot(chain[i], baseDir, disk)]]),
      assets |-> CopyAssets(chain, baseDir, disk),
      ok     |-> \A i \in DOMAIN chain : chain[i].file = << >> \/ Taken(chain[i], baseDir, disk)]

\* importPreset: the schema is first looked for in the text (1 if it is not there,
\* 0 if it is no number), then all is loaded in Strict.
TextSchema(doc) ==
  IF Unreadable(doc) \/ doc.schema = Absent THEN 1 ELSE Given(doc.schema, 0)
ImportPreset(package, sourceDir, maxSchema, steps) ==
  IF TextSchema(package.doc) > maxSchema THEN [ok |-> FALSE]
  ELSE LoadPreset(package.doc, Strict, sourceDir, steps)
MissingAssets(package, sourceDir, disk) ==
  {file \in {Given(package.doc.chain[i].file, << >>) : i \in DOMAIN package.doc.chain} :
     /\ file # << >>
     /\ ~(Len(file) = 2 /\ file[1] = "assets" /\ file[2] \in DOMAIN package.assets)
     /\ Under(sourceDir, file) \notin DOMAIN disk}
=============================================================================
