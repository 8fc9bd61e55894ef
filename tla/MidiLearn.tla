------------------------------- MODULE MidiLearn -------------------------------
(***************************************************************************)
(* desktop/App/nam_editor_app.cpp: learning controllers by moving them,    *)
(* the list of bindings that is shown, and the file that brings them back  *)
(* when the program starts.  The user interface is one thread; a binding   *)
(* is read back from the file line by line before any event is handled.    *)
(***************************************************************************)
EXTENDS MidiRouter, Sequences, SequencesExt

CONSTANTS
  Chains,       \* the parameters of the chains the user may load or edit
  StartChain,   \* those of the preset that is loaded at the start
  MaxLines      \* bound: lines of the file

ASSUME LearnAssumption ==
  /\ Ccs \subseteq Nat /\ IsFiniteSet(Ccs) /\ StartChain \in SUBSET Params
  /\ Chains \subseteq SUBSET Params /\ MaxLines \in Nat

VARIABLES
  learningParam, \* learningParam_, {} if none
  learningScene, \* learningScene_, {} if none
  listed,       \* the controllers in midiBinds_
  file,         \* the lines of midi_binds.txt
  pc,           \* loading, loaded, running or clearing
  todo          \* lines still to load, controllers still to clear

appVars == <<learningParam, learningScene, listed, file, pc, todo>>
learnVars == <<midiVars, appVars>>

Param(cc, p) == [kind |-> "param", cc |-> cc, target |-> p]
Scene(cc, i) == [kind |-> "scene", cc |-> cc, target |-> i]

LearnInit ==
  /\ Fresh(StartChain)
  /\ learningParam = {} /\ learningScene = {} /\ listed = {} /\ file = << >>
  /\ pc = "running" /\ todo = << >>

-----------------------------------------------------------------------------
\* MidiRouter::bindings: the parameters' bindings, then the scenes', by number.
Ascending(ccs) ==
  {s \in [1 .. Cardinality(ccs) -> ccs] :
     ToSet(s) = ccs /\ \A j, k \in DOMAIN s : j < k => s[j] < s[k]}
ParamLines(ccs, params) == [k \in DOMAIN ccs |-> Param(ccs[k], params[ccs[k]].param)]
SceneLines(ccs, scenes) == [k \in DOMAIN ccs |-> Scene(ccs[k], scenes[ccs[k]].scene)]
Bindings(params, scenes) ==
  {ParamLines(ccs[1], params) \o SceneLines(ccs[2], scenes) :
     ccs \in Ascending({cc \in Ccs : params[cc] # NoBind})
             \X Ascending({cc \in Ccs : scenes[cc] # NoScene})}

\* saveMidiBinds: a juce::FileOutputStream (external) of a file that exists
\* writes behind what is there.
SaveMidiBinds ==
  /\ \E lines \in Bindings(paramBinds', sceneBinds') : file' = file \o lines
  /\ Len(file') <= MaxLines

BeginLearnParam(p) ==
  /\ pc = "running" /\ p \in present
  /\ learningParam' = {p}
  /\ UNCHANGED <<midiVars, learningScene, listed, file, pc, todo>>

BeginLearnScene(i) ==
  /\ pc = "running"
  /\ learningScene' = {i}
  /\ UNCHANGED <<midiVars, learningParam, listed, file, pc, todo>>

\* onMidiEvent: first what the controller does already (Recalls, Moves), which
\* changes no binding; then, while learning, the controller that was moved.
LearnParam(cc, p) ==
  /\ pc = "running" /\ p \in learningParam
  /\ learningParam' = {}
  /\ IF CanLearn(cc, p)
     THEN LearnBind(cc, p) /\ listed' = listed \cup {cc} /\ SaveMidiBinds
     ELSE UNCHANGED <<midiVars, listed, file>>
  /\ UNCHANGED <<learningScene, pc, todo>>

LearnSceneUnsaved(cc, i) ==      \* deviation: saves before it binds
  /\ pc = "running" /\ learningParam = {} /\ i \in learningScene
  /\ learningScene' = {}
  /\ IF CanBindScene(cc)
     THEN /\ BindScene(cc, i) /\ listed' = listed \cup {cc}
          /\ \E lines \in Bindings(paramBinds, sceneBinds) : file' = file \o lines
          /\ Len(file') <= MaxLines
     ELSE UNCHANGED <<midiVars, listed, file>>
  /\ UNCHANGED <<learningParam, pc, todo>>

LearnScene(cc, i) ==
  /\ pc = "running" /\ learningParam = {} /\ i \in learningScene
  /\ learningScene' = {}
  /\ IF CanBindScene(cc)
     THEN BindScene(cc, i) /\ listed' = listed \cup {cc} /\ SaveMidiBinds
     ELSE UNCHANGED <<midiVars, listed, file>>
  /\ UNCHANGED <<learningParam, pc, todo>>

\* clearMidiBinds, one controller after the other.
ClearMidiBinds ==
  /\ pc = "running"
  /\ pc' = "clearing" /\ todo' \in Ascending(listed)
  /\ UNCHANGED <<midiVars, learningParam, learningScene, listed, file>>

ClearNext ==
  /\ pc = "clearing"
  /\ IF todo # << >>
     THEN /\ MidiClearBind(Head(todo)) /\ todo' = Tail(todo)
          /\ UNCHANGED <<listed, file, pc>>
     ELSE /\ listed' = {} /\ pc' = "running"
          /\ UNCHANGED midiVars /\ SaveMidiBinds
          /\ UNCHANGED todo
  /\ UNCHANGED <<learningParam, learningScene>>

NewChain ==
  /\ pc = "running"
  /\ \E chain \in Chains : SetChain(chain)
  /\ UNCHANGED appVars

\* The program ends, wherever it is, is started again and loads the file.
Restart ==
  /\ paramBinds' = [cc \in Ccs |-> NoBind] /\ sceneBinds' = [cc \in Ccs |-> NoScene]
  /\ sourceUsed' = {} /\ table' = [p \in {} |-> 0]
  /\ present' = StartChain /\ relearned' = FALSE
  /\ learningParam' = {} /\ learningScene' = {} /\ listed' = {}
  /\ pc' = "loading" /\ todo' = file
  /\ UNCHANGED file

RestoresParamsOnly(line) ==      \* deviation: passes over the scenes
  IF line.kind = "param" /\ CanLearn(line.cc, line.target)
  THEN LearnBind(line.cc, line.target) /\ listed' = listed \cup {line.cc}
  ELSE UNCHANGED <<midiVars, listed>>

\* midiRestoreBind
Restores(line) ==
  IF line.kind = "param" /\ CanLearn(line.cc, line.target)
  THEN LearnBind(line.cc, line.target) /\ listed' = listed \cup {line.cc}
  ELSE IF line.kind = "scene" /\ CanBindScene(line.cc)
  THEN BindScene(line.cc, line.target) /\ listed' = listed \cup {line.cc}
  ELSE UNCHANGED <<midiVars, listed>>

LoadNext ==              \* loadMidiBinds
  /\ pc = "loading"
  /\ IF todo # << >>
     THEN Restores(Head(todo)) /\ todo' = Tail(todo) /\ UNCHANGED pc
     ELSE pc' = "loaded" /\ UNCHANGED <<midiVars, listed, todo>>
  /\ UNCHANGED <<learningParam, learningScene, file>>

Loaded == pc = "loaded" /\ pc' = "running" /\ UNCHANGED midiVars
          /\ UNCHANGED <<learningParam, learningScene, listed, file, todo>>

LearnNext ==
  \/ \E p \in Params : BeginLearnParam(p)
  \/ \E i \in Scenes : BeginLearnScene(i)
  \/ \E cc \in Ccs : \E p \in Params : LearnParam(cc, p)
  \/ \E cc \in Ccs : \E i \in Scenes : LearnScene(cc, i)
  \/ ClearMidiBinds \/ ClearNext \/ NewChain \/ Restart \/ LoadNext \/ Loaded
LearnSpec == LearnInit /\ [][LearnNext]_learnVars

-----------------------------------------------------------------------------
(***************************************************************************)
(* Properties                                                              *)
(***************************************************************************)
Line == {Param(cc, p) : cc \in Ccs, p \in Params} \cup {Scene(cc, i) : cc \in Ccs, i \in Scenes}
LearnTypeOK ==
  /\ MidiTypeOK
  /\ learningParam \in SUBSET Params /\ learningScene \in SUBSET Scenes
  /\ listed \in SUBSET Ccs /\ file \in Seq(Line)
  /\ pc \in {"loading", "loaded", "running", "clearing"}
  /\ pc = "loading" => todo \in Seq(Line)
  /\ pc = "clearing" => todo \in Seq(Ccs)

IsBound(cc) == paramBinds[cc] # NoBind \/ sceneBinds[cc] # NoScene

\* What is bound is in the list that clearMidiBinds goes through, so that clearing
\* leaves no controller bound, also after learning again, restarts and failures.
ListIsComplete ==
  /\ LearnTypeOK
  /\ \A cc \in Ccs : IsBound(cc) => cc \in listed

\* What is bound is in the file, whatever was cleared or not restored before.
BoundIsSaved ==
  \A cc \in Ccs :
    /\ paramBinds[cc] # NoBind => Param(cc, paramBinds[cc].param) \in ToSet(file)
    /\ sceneBinds[cc] # NoScene => Scene(cc, sceneBinds[cc].scene) \in ToSet(file)

\* The router, the list of the application and its file agree on what is bound.
BindingsAgree == MidiInv /\ ListIsComplete /\ BoundIsSaved

\* After a restart every binding of the file that the chain has a parameter for
\* is back, as long as the file does not contradict itself and the sources are
\* enough for it.
Consistent(lines) ==
  /\ \A k, l \in lines : k.cc = l.cc => k = l
  /\ \A k, l \in {n \in lines : n.kind = "param"} : k.target = l.target => k = l
  /\ Cardinality({n \in lines : n.kind = "param"}) <= Cardinality(Sources)
SavedIsRestored ==
  pc = "loaded" /\ Consistent(ToSet(file)) =>
    \A n \in ToSet(file) :
      IF n.kind = "scene" THEN Recalls(n.cc) = {n.target}
      ELSE n.target \in StartChain => n.target \in Moves(n.cc)
=============================================================================
