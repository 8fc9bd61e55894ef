------------------------------ MODULE MidiRouter ------------------------------
(***************************************************************************)
(* core/midi/midi_router.{h,cpp}: which parameter or scene each MIDI       *)
(* controller moves, on top of the bindings of ControlRouter.  Everything  *)
(* runs on the control thread.  Of the router only what bind and unbind    *)
(* answer is kept; a parameter is its module and id, and the value of an   *)
(* event is left out.                                                      *)
(***************************************************************************)
EXTENDS Naturals, FiniteSets

CONSTANTS
  Ccs,          \* controller numbers
  Params,       \* parameters of any module
  Scenes,       \* scene numbers
  Sources,      \* the router's sources, 0 .. kMaxSources - 1
  MaxBindings   \* kMaxBindings

\* Each source fits into the table.
ASSUME MidiAssumption ==
  /\ Sources \subseteq Nat /\ IsFiniteSet(Sources)
  /\ MaxBindings \in Nat /\ Cardinality(Sources) <= MaxBindings

VARIABLES
  paramBinds,   \* paramBinds_, NoBind where not active
  sceneBinds,   \* sceneBinds_, NoScene where not active
  sourceUsed,   \* sourceUsed_
  table,        \* the router's bindings: the source of each bound parameter
  present,      \* parameters of the modules in the chain
  relearned     \* whether a controller was moved from one parameter to another

midiVars == <<paramBinds, sceneBinds, sourceUsed, table, present, relearned>>

ParamBind == [source : Sources, param : Params]
NoBind == [active |-> FALSE]
NoScene == [active |-> FALSE]

\* The engine as it is constructed, with the chain of the first preset.
Fresh(chain) ==
  /\ paramBinds = [cc \in Ccs |-> NoBind] /\ sceneBinds = [cc \in Ccs |-> NoScene]
  /\ sourceUsed = {} /\ table = [p \in {} |-> 0]
  /\ present = chain /\ relearned = FALSE

-----------------------------------------------------------------------------
\* ControlRouter::bind: a parameter has one source, and the table is limited.
CanBind(s, p) ==
  IF p \in DOMAIN table THEN table[p] = s
  ELSE Cardinality(DOMAIN table) < MaxBindings
RouterBind(s, p) ==
  /\ p \in present /\ CanBind(s, p)
  /\ table' = [q \in DOMAIN table \cup {p} |-> IF q = p THEN s ELSE table[q]]

\* The controller's own source, or the first that is free.
SourceFor(cc) ==
  IF paramBinds[cc] # NoBind THEN {paramBinds[cc].source}
  ELSE {s \in Sources \ sourceUsed : \A t \in Sources \ sourceUsed : s <= t}

CanLearn(cc, p) ==
  /\ sceneBinds[cc] = NoScene /\ p \in present
  /\ \E s \in SourceFor(cc) : CanBind(s, p)

LearnBind(cc, p) ==
  /\ sceneBinds[cc] = NoScene
  /\ \E s \in SourceFor(cc) :
       /\ RouterBind(s, p)
       /\ sourceUsed' = sourceUsed \cup {s}
       /\ paramBinds' = [paramBinds EXCEPT ![cc] = [source |-> s, param |-> p]]
  /\ relearned' = (relearned \/ (paramBinds[cc] # NoBind /\ paramBinds[cc].param # p))
  /\ UNCHANGED <<sceneBinds, present>>

ClearBindHere(cc) ==     \* deviation: leaves the router's binding
  /\ paramBinds' = [paramBinds EXCEPT ![cc] = NoBind]
  /\ sourceUsed' = IF paramBinds[cc] = NoBind THEN sourceUsed
                   ELSE sourceUsed \ {paramBinds[cc].source}
  /\ UNCHANGED table

ClearBind(cc) ==
  /\ paramBinds' = [paramBinds EXCEPT ![cc] = NoBind]
  /\ IF paramBinds[cc] = NoBind THEN UNCHANGED <<sourceUsed, table>>
     ELSE /\ sourceUsed' = sourceUsed \ {paramBinds[cc].source}
          /\ table' = [q \in DOMAIN table \ {paramBinds[cc].param} |-> table[q]]

CanBindScene(cc) == paramBinds[cc] = NoBind

BindScene(cc, i) ==
  /\ CanBindScene(cc)
  /\ sceneBinds' = [sceneBinds EXCEPT ![cc] = [active |-> TRUE, scene |-> i]]
  /\ UNCHANGED <<paramBinds, sourceUsed, table, present, relearned>>

ClearScene(cc) == sceneBinds' = [sceneBinds EXCEPT ![cc] = NoScene]

\* EngineHost::midiClearBind.
MidiClearBind(cc) == ClearBind(cc) /\ ClearScene(cc) /\ UNCHANGED <<present, relearned>>

\* EngineHost gives the router another chain.
SetChain(chain) ==
  /\ present' = chain
  /\ UNCHANGED <<paramBinds, sceneBinds, sourceUsed, table, relearned>>

\* handleEvent: the scene a controller recalls, or the parameters that follow
\* the source it speaks for.
Recalls(cc) == {i \in Scenes : sceneBinds[cc] = [active |-> TRUE, scene |-> i]}
Moves(cc) ==
  IF Recalls(cc) # {} \/ paramBinds[cc] = NoBind THEN {}
  ELSE {p \in DOMAIN table : table[p] = paramBinds[cc].source}

-----------------------------------------------------------------------------
MidiNext ==
  \/ \E cc \in Ccs : \E p \in Params : LearnBind(cc, p)
  \/ \E cc \in Ccs : \E i \in Scenes : BindScene(cc, i)
  \/ \E cc \in Ccs : MidiClearBind(cc)
  \/ \E chain \in SUBSET Params : SetChain(chain)
MidiSpec == (\E chain \in SUBSET Params : Fresh(chain)) /\ [][MidiNext]_midiVars

(***************************************************************************)
(* Properties                                                              *)
(***************************************************************************)
MidiTypeOK ==
  /\ paramBinds \in [Ccs -> {NoBind} \cup ParamBind]
  /\ sceneBinds \in [Ccs -> {NoScene} \cup [active : {TRUE}, scene : Scenes]]
  /\ sourceUsed \in SUBSET Sources
  /\ DOMAIN table \in SUBSET Params /\ table \in [DOMAIN table -> Sources]
  /\ present \in SUBSET Params /\ relearned \in BOOLEAN

\* No two controllers share a source, the used sources are those of the bound
\* controllers, none is bound to a parameter and a scene, and each moves at least
\* what it was taught (learnBind, clearBind, bindScene): whatever was learned
\* again, cleared or left behind by an edit of the chain.
SourcesAreOwned ==
  /\ \A c, d \in Ccs :
       paramBinds[c] # NoBind /\ paramBinds[d] # NoBind /\ c # d
         => paramBinds[c].source # paramBinds[d].source
  /\ \A s \in Sources :
       s \in sourceUsed <=> \E cc \in Ccs : paramBinds[cc] # NoBind /\ paramBinds[cc].source = s
ParamOrScene == \A cc \in Ccs : paramBinds[cc] = NoBind \/ sceneBinds[cc] = NoScene
MovesWhatItLearned ==
  \A cc \in Ccs : paramBinds[cc] # NoBind =>
    /\ paramBinds[cc].param \in DOMAIN table
    /\ table[paramBinds[cc].param] = paramBinds[cc].source
MidiInv == MidiTypeOK /\ SourcesAreOwned /\ ParamOrScene /\ MovesWhatItLearned

\* As long as no controller was moved from one parameter to another, a controller
\* moves nothing but the parameter it learned, and a parameter whose controller
\* was cleared can be learned by another (handleEvent, clearBind).
MovesNothingElse ==
  ~relearned =>
    \A p \in DOMAIN table : \E cc \in Ccs :
      paramBinds[cc] # NoBind /\ paramBinds[cc].param = p /\ Moves(cc) = {p}
=============================================================================
