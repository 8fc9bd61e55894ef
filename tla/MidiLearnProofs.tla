---------------------------- MODULE MidiLearnProofs ----------------------------
(***************************************************************************)
(* First MidiRouter alone: for any sets of controllers, parameters, scenes *)
(* and sources it keeps one controller per source, and a controller moves  *)
(* what it learned and, unless one was learned for a second parameter,     *)
(* nothing else.  Then the application over it: for any chains and length  *)
(* of the file, its list and its file cover what is bound, and what        *)
(* MidiRouter keeps holds for every way it is called.                      *)
(***************************************************************************)
EXTENDS MidiLearn, FiniteSetTheorems, WellFoundedInduction, TLAPS

-----------------------------------------------------------------------------
(* The absent bindings are no bindings *)

LEMMA NoBindIsNone == NoBind \notin ParamBind
<1> SUFFICES ASSUME NoBind \in ParamBind PROVE FALSE
  OBVIOUS
<1>1. DOMAIN NoBind = {"active"}
  BY DEF NoBind
<1>2. \A b \in ParamBind : DOMAIN b = {"source", "param"}
  BY DEF ParamBind
<1> QED
  BY <1>1, <1>2

LEMMA NoSceneIsNone == \A i : NoScene # [active |-> TRUE, scene |-> i]
<1> SUFFICES ASSUME NEW i, NoScene = [active |-> TRUE, scene |-> i] PROVE FALSE
  OBVIOUS
<1> QED
  BY DEF NoScene

-----------------------------------------------------------------------------
(* MidiInv is inductive *)

LEMMA FreshIsSafe ==
  ASSUME NEW chain \in SUBSET Params, Fresh(chain)
  PROVE  MidiInv
<1>1. MidiTypeOK
  BY DEF Fresh, MidiTypeOK
<1>2. SourcesAreOwned /\ ParamOrScene /\ MovesWhatItLearned
  BY DEF Fresh, SourcesAreOwned, ParamOrScene, MovesWhatItLearned
<1> QED
  BY <1>1, <1>2 DEF MidiInv

\* The source a controller gets is its own, or one that no controller has.
LEMMA SourceIsFree ==
  ASSUME MidiInv, NEW cc \in Ccs, NEW s \in SourceFor(cc)
  PROVE  /\ s \in Sources
         /\ \A d \in Ccs \ {cc} : paramBinds[d] # NoBind => paramBinds[d].source # s
<1> USE DEF MidiInv
<1>1. CASE paramBinds[cc] # NoBind
  <2>1. s = paramBinds[cc].source
    BY <1>1 DEF SourceFor
  <2>2. paramBinds[cc] \in ParamBind
    BY <1>1 DEF MidiTypeOK
  <2> QED
    BY <1>1, <2>1, <2>2 DEF SourcesAreOwned, ParamBind
<1>2. CASE paramBinds[cc] = NoBind
  <2>1. s \in Sources \ sourceUsed
    BY <1>2 DEF SourceFor
  <2> QED
    BY <2>1 DEF SourcesAreOwned
<1> QED
  BY <1>1, <1>2

LEMMA LearnBindIsSafe ==
  ASSUME MidiInv, NEW cc \in Ccs, NEW p \in Params, LearnBind(cc, p)
  PROVE  MidiInv'
<1>1. PICK s \in SourceFor(cc) :
        /\ RouterBind(s, p)
        /\ sourceUsed' = sourceUsed \cup {s}
        /\ paramBinds' = [paramBinds EXCEPT ![cc] = [source |-> s, param |-> p]]
  BY DEF LearnBind
<1>2. /\ s \in Sources
      /\ \A d \in Ccs \ {cc} : paramBinds[d] # NoBind => paramBinds[d].source # s
  BY SourceIsFree
<1>3. MidiTypeOK
  BY DEF MidiInv
<1>a. /\ paramBinds'[cc] = [source |-> s, param |-> p]
      /\ \A d \in Ccs \ {cc} : paramBinds'[d] = paramBinds[d]
  BY <1>1, <1>3 DEF MidiTypeOK
<1>b. paramBinds'[cc] # NoBind /\ paramBinds'[cc].source = s /\ paramBinds'[cc].param = p
  <2>1. [source |-> s, param |-> p] \in ParamBind
    BY <1>2 DEF ParamBind
  <2> QED
    BY <2>1, <1>a, NoBindIsNone
<1>4. MidiTypeOK'
  <2>1. [source |-> s, param |-> p] \in ParamBind
    BY <1>2 DEF ParamBind
  <2>2. paramBinds' \in [Ccs -> {NoBind} \cup ParamBind]
    BY <2>1, <1>1, <1>3 DEF MidiTypeOK
  <2>3. sceneBinds' = sceneBinds /\ present' = present
    BY DEF LearnBind
  <2>4. sourceUsed' \in SUBSET Sources
    BY <1>1, <1>2, <1>3 DEF MidiTypeOK
  <2>5. DOMAIN table' \in SUBSET Params /\ table' \in [DOMAIN table' -> Sources]
    BY <1>1, <1>2, <1>3 DEF MidiTypeOK, RouterBind
  <2>6. relearned' \in BOOLEAN
    BY <1>3 DEF LearnBind, MidiTypeOK
  <2> QED
    BY <2>2, <2>3, <2>4, <2>5, <2>6, <1>3 DEF MidiTypeOK
<1>5. SourcesAreOwned'
  <2>1. SourcesAreOwned
    BY DEF MidiInv
  <2>2. paramBinds[cc] # NoBind => paramBinds[cc].source = s
    BY DEF SourceFor
  <2> QED
    BY <2>1, <2>2, <1>1, <1>2, <1>a, <1>b DEF SourcesAreOwned
<1>6. ParamOrScene'
  BY <1>a DEF MidiInv, ParamOrScene, LearnBind
<1>7. MovesWhatItLearned'
  <2>1. p \in DOMAIN table => table[p] = s
    BY <1>1 DEF RouterBind, CanBind
  <2>2. /\ DOMAIN table' = DOMAIN table \cup {p}
        /\ table'[p] = s
        /\ \A q \in DOMAIN table : table'[q] = table[q]
    BY <1>1, <2>1 DEF RouterBind
  <2> SUFFICES ASSUME NEW d \in Ccs, paramBinds'[d] # NoBind
               PROVE  /\ paramBinds'[d].param \in DOMAIN table'
                      /\ table'[paramBinds'[d].param] = paramBinds'[d].source
    BY DEF MovesWhatItLearned
  <2>3. CASE d = cc
    BY <2>2, <2>3, <1>b
  <2>4. CASE d # cc
    BY <2>2, <2>4, <1>a DEF MidiInv, MovesWhatItLearned
  <2> QED
    BY <2>3, <2>4
<1> QED
  BY <1>4, <1>5, <1>6, <1>7 DEF MidiInv

LEMMA BindSceneIsSafe ==
  ASSUME MidiInv, NEW cc \in Ccs, NEW i \in Scenes, BindScene(cc, i)
  PROVE  MidiInv'
<1> USE DEF MidiInv, BindScene
<1>1. MidiTypeOK'
  BY DEF MidiTypeOK
<1>2. SourcesAreOwned' /\ MovesWhatItLearned'
  BY DEF SourcesAreOwned, MovesWhatItLearned
<1>3. ParamOrScene'
  BY DEF ParamOrScene, CanBindScene, MidiTypeOK
<1> QED
  BY <1>1, <1>2, <1>3

LEMMA ClearIsSafe ==
  ASSUME MidiInv, NEW cc \in Ccs, MidiClearBind(cc)
  PROVE  MidiInv'
<1>1. MidiTypeOK /\ SourcesAreOwned /\ ParamOrScene /\ MovesWhatItLearned
  BY DEF MidiInv
<1>a. /\ paramBinds'[cc] = NoBind
      /\ \A d \in Ccs \ {cc} : paramBinds'[d] = paramBinds[d]
      /\ sceneBinds'[cc] = NoScene
      /\ \A d \in Ccs \ {cc} : sceneBinds'[d] = sceneBinds[d]
      /\ paramBinds' \in [Ccs -> {NoBind} \cup ParamBind]
      /\ sceneBinds' \in [Ccs -> {NoScene} \cup [active : {TRUE}, scene : Scenes]]
      /\ present' = present /\ relearned' = relearned
  BY <1>1 DEF MidiClearBind, ClearBind, ClearScene, MidiTypeOK
<1>2. CASE paramBinds[cc] = NoBind
  <2>1. sourceUsed' = sourceUsed /\ table' = table
    BY <1>2 DEF MidiClearBind, ClearBind
  <2>2. \A d \in Ccs : paramBinds'[d] = paramBinds[d]
    BY <1>2, <1>a
  <2>3. MidiTypeOK'
    BY <2>1, <1>a, <1>1 DEF MidiTypeOK
  <2>4. SourcesAreOwned' /\ MovesWhatItLearned'
    BY <2>1, <2>2, <1>1 DEF SourcesAreOwned, MovesWhatItLearned
  <2>5. ParamOrScene'
    BY <1>a, <1>1 DEF ParamOrScene
  <2> QED
    BY <2>3, <2>4, <2>5 DEF MidiInv
<1>3. CASE paramBinds[cc] # NoBind
  <2>1. /\ sourceUsed' = sourceUsed \ {paramBinds[cc].source}
        /\ table' = [q \in DOMAIN table \ {paramBinds[cc].param} |-> table[q]]
    BY <1>3 DEF MidiClearBind, ClearBind
  <2>3. MidiTypeOK'
    BY <2>1, <1>a, <1>1 DEF MidiTypeOK
  <2>4. SourcesAreOwned'
    BY <2>1, <1>a, <1>1, <1>3 DEF SourcesAreOwned
  <2>5. ParamOrScene'
    BY <1>a, <1>1 DEF ParamOrScene
  <2>6. MovesWhatItLearned'
    <3> SUFFICES ASSUME NEW d \in Ccs, paramBinds'[d] # NoBind
                 PROVE  /\ paramBinds'[d].param \in DOMAIN table'
                        /\ table'[paramBinds'[d].param] = paramBinds'[d].source
      BY DEF MovesWhatItLearned
    <3>1. d # cc /\ paramBinds'[d] = paramBinds[d]
      BY <1>a
    <3>2. paramBinds[d].source # paramBinds[cc].source
      BY <3>1, <1>1, <1>3 DEF SourcesAreOwned
    <3>3. paramBinds[d].param # paramBinds[cc].param
      BY <3>1, <3>2, <1>1, <1>3 DEF MovesWhatItLearned
    <3> QED
      BY <3>1, <3>3, <2>1, <1>1 DEF MovesWhatItLearned
  <2> QED
    BY <2>3, <2>4, <2>5, <2>6 DEF MidiInv
<1> QED
  BY <1>2, <1>3

LEMMA SetChainIsSafe ==
  ASSUME MidiInv, NEW chain \in SUBSET Params, SetChain(chain)
  PROVE  MidiInv'
BY DEF MidiInv, SetChain, MidiTypeOK, SourcesAreOwned, ParamOrScene, MovesWhatItLearned

LEMMA StepIsSafe ==
  ASSUME MidiInv, [MidiNext]_midiVars
  PROVE  MidiInv'
<1>1. CASE UNCHANGED midiVars
  BY <1>1 DEF midiVars, MidiInv, MidiTypeOK, SourcesAreOwned, ParamOrScene, MovesWhatItLearned
<1>2. ASSUME NEW cc \in Ccs, NEW p \in Params, LearnBind(cc, p) PROVE MidiInv'
  BY <1>2, LearnBindIsSafe
<1>3. ASSUME NEW cc \in Ccs, NEW i \in Scenes, BindScene(cc, i) PROVE MidiInv'
  BY <1>3, BindSceneIsSafe
<1>4. ASSUME NEW cc \in Ccs, MidiClearBind(cc) PROVE MidiInv'
  BY <1>4, ClearIsSafe
<1>5. ASSUME NEW chain \in SUBSET Params, SetChain(chain) PROVE MidiInv'
  BY <1>5, SetChainIsSafe
<1> QED
  BY <1>1, <1>2, <1>3, <1>4, <1>5 DEF MidiNext

\* Each source has one controller, no controller moves a parameter and a scene,
\* and each moves what it learned (learnBind, clearBind, bindScene).
THEOREM BindingsAreSafe == MidiSpec => []MidiInv
<1>1. (\E chain \in SUBSET Params : Fresh(chain)) => MidiInv
  BY FreshIsSafe
<1>2. MidiInv /\ [MidiNext]_midiVars => MidiInv'
  BY StepIsSafe
<1> QED
  BY <1>1, <1>2, PTL DEF MidiSpec

-----------------------------------------------------------------------------
(* A controller moves nothing but what it learned *)

\* What the router has bound, some controller learned.
Learned ==
  ~relearned => \A p \in DOMAIN table : \E cc \in Ccs :
                  paramBinds[cc] # NoBind /\ paramBinds[cc].param = p

LEMMA LearnedSuffices ==
  ASSUME MidiInv, Learned
  PROVE  MovesNothingElse
<1> SUFFICES ASSUME ~relearned, NEW p \in DOMAIN table
             PROVE  \E cc \in Ccs : /\ paramBinds[cc] # NoBind
                                    /\ paramBinds[cc].param = p /\ Moves(cc) = {p}
  BY DEF MovesNothingElse
<1>1. PICK cc \in Ccs : paramBinds[cc] # NoBind /\ paramBinds[cc].param = p
  BY DEF Learned
<1>2. Recalls(cc) = {}
  <2>1. sceneBinds[cc] = NoScene
    BY <1>1 DEF MidiInv, ParamOrScene
  <2> QED
    BY <2>1, NoSceneIsNone DEF Recalls
<1>3. table[p] = paramBinds[cc].source
  BY <1>1 DEF MidiInv, MovesWhatItLearned
<1>4. ASSUME NEW q \in DOMAIN table, table[q] = paramBinds[cc].source
      PROVE  q = p
  <2>1. PICK d \in Ccs : paramBinds[d] # NoBind /\ paramBinds[d].param = q
    BY DEF Learned
  <2>2. paramBinds[d].source = paramBinds[cc].source
    BY <1>4, <2>1 DEF MidiInv, MovesWhatItLearned
  <2>3. d = cc
    BY <2>1, <2>2, <1>1 DEF MidiInv, SourcesAreOwned
  <2> QED
    BY <2>1, <2>3, <1>1
<1>5. Moves(cc) = {p}
  BY <1>1, <1>2, <1>3, <1>4 DEF Moves
<1> QED
  BY <1>1, <1>5

LEMMA LearnBindIsLearned ==
  ASSUME MidiInv, Learned, NEW cc \in Ccs, NEW p \in Params, LearnBind(cc, p)
  PROVE  Learned'
<1>1. PICK s \in SourceFor(cc) :
        /\ RouterBind(s, p)
        /\ sourceUsed' = sourceUsed \cup {s}
        /\ paramBinds' = [paramBinds EXCEPT ![cc] = [source |-> s, param |-> p]]
  BY DEF LearnBind
<1>2. /\ paramBinds'[cc] = [source |-> s, param |-> p]
      /\ \A d \in Ccs \ {cc} : paramBinds'[d] = paramBinds[d]
  BY <1>1 DEF MidiInv, MidiTypeOK
<1>3. paramBinds'[cc] # NoBind /\ paramBinds'[cc].param = p
  <2>1. s \in Sources
    BY SourceIsFree
  <2>2. [source |-> s, param |-> p] \in ParamBind
    BY <2>1 DEF ParamBind
  <2> QED
    BY <2>2, <1>2, NoBindIsNone
<1> SUFFICES ASSUME ~relearned', NEW q \in DOMAIN table'
             PROVE  \E d \in Ccs : paramBinds'[d] # NoBind /\ paramBinds'[d].param = q
  BY DEF Learned
<1>4. ~relearned /\ (paramBinds[cc] = NoBind \/ paramBinds[cc].param = p)
  BY DEF LearnBind
<1>5. CASE q = p
  BY <1>5, <1>3
<1>6. CASE q # p
  <2>1. q \in DOMAIN table
    BY <1>6, <1>1 DEF RouterBind
  <2>2. PICK d \in Ccs : paramBinds[d] # NoBind /\ paramBinds[d].param = q
    BY <2>1, <1>4 DEF Learned
  <2>3. d # cc
    BY <2>2, <1>4, <1>6
  <2> QED
    BY <2>2, <2>3, <1>2
<1> QED
  BY <1>5, <1>6

LEMMA ClearIsLearned ==
  ASSUME MidiInv, Learned, NEW cc \in Ccs, MidiClearBind(cc)
  PROVE  Learned'
<1> SUFFICES ASSUME ~relearned', NEW q \in DOMAIN table'
             PROVE  \E d \in Ccs : paramBinds'[d] # NoBind /\ paramBinds'[d].param = q
  BY DEF Learned
<1>1. ~relearned /\ q \in DOMAIN table /\ (paramBinds[cc] # NoBind => q # paramBinds[cc].param)
  BY DEF MidiClearBind, ClearBind
<1>2. PICK d \in Ccs : paramBinds[d] # NoBind /\ paramBinds[d].param = q
  BY <1>1 DEF Learned
<1>3. d # cc
  BY <1>1, <1>2
<1>4. paramBinds'[d] = paramBinds[d]
  BY <1>3 DEF MidiClearBind, ClearBind, MidiInv, MidiTypeOK
<1> QED
  BY <1>2, <1>4

LEMMA StepIsLearned ==
  ASSUME MidiInv, Learned, [MidiNext]_midiVars
  PROVE  Learned'
<1>1. CASE UNCHANGED midiVars
  BY <1>1 DEF midiVars, Learned
<1>2. ASSUME NEW cc \in Ccs, NEW p \in Params, LearnBind(cc, p) PROVE Learned'
  BY <1>2, LearnBindIsLearned
<1>3. ASSUME NEW cc \in Ccs, NEW i \in Scenes, BindScene(cc, i) PROVE Learned'
  BY <1>3 DEF BindScene, Learned
<1>4. ASSUME NEW cc \in Ccs, MidiClearBind(cc) PROVE Learned'
  BY <1>4, ClearIsLearned
<1>5. ASSUME NEW chain \in SUBSET Params, SetChain(chain) PROVE Learned'
  BY <1>5 DEF SetChain, Learned
<1> QED
  BY <1>1, <1>2, <1>3, <1>4, <1>5 DEF MidiNext

LEMMA FreshIsLearned ==
  ASSUME NEW chain, Fresh(chain)
  PROVE  Learned
BY DEF Fresh, Learned

\* As long as no controller was learned for a second parameter, each moves
\* nothing but the parameter it learned (handleEvent, clearBind).
THEOREM NothingElseMoves == MidiSpec => []MovesNothingElse
<1>1. (\E chain \in SUBSET Params : Fresh(chain)) => Learned
  BY FreshIsLearned
<1>2. MidiInv /\ Learned /\ [MidiNext]_midiVars => Learned'
  BY StepIsLearned
<1>3. MidiInv /\ Learned => MovesNothingElse
  BY LearnedSuffices
<1> QED
  BY <1>1, <1>2, <1>3, BindingsAreSafe, PTL DEF MidiSpec

-----------------------------------------------------------------------------
(* The application *)

\* Clearing has yet to come to what is still bound, and only lines of the file
\* are loaded.
TodoOK ==
  /\ pc = "loading" => ToSet(todo) \subseteq ToSet(file)
  /\ pc = "clearing" => \A cc \in Ccs : IsBound(cc) => cc \in ToSet(todo)

LearnInv == MidiInv /\ Learned /\ ListIsComplete /\ BoundIsSaved /\ TodoOK

-----------------------------------------------------------------------------
(* Sequences *)

\* Appending joins the elements.
LEMMA ToSetAppend ==
  ASSUME NEW S, NEW s \in Seq(S), NEW t \in Seq(S)
  PROVE  s \o t \in Seq(S) /\ ToSet(s \o t) = ToSet(s) \cup ToSet(t)
<1>1. s \o t \in Seq(S)
  OBVIOUS
<1>2. \A k \in DOMAIN (s \o t) : (s \o t)[k] \in ToSet(s) \cup ToSet(t)
  BY DEF ToSet
<1>3. \A k \in DOMAIN s : k \in DOMAIN (s \o t) /\ (s \o t)[k] = s[k]
  OBVIOUS
<1>4. \A k \in DOMAIN t : Len(s) + k \in DOMAIN (s \o t) /\ (s \o t)[Len(s) + k] = t[k]
  OBVIOUS
<1> QED
  BY <1>1, <1>2, <1>3, <1>4 DEF ToSet

\* A sequence has its head and the elements of its tail.
LEMMA HeadAndTail ==
  ASSUME NEW S, NEW s \in Seq(S), s # << >>
  PROVE  /\ Head(s) \in S /\ Tail(s) \in Seq(S)
         /\ ToSet(s) = {Head(s)} \cup ToSet(Tail(s))
<1>1. Head(s) \in S /\ Tail(s) \in Seq(S) /\ Head(s) = s[1] /\ 1 \in DOMAIN s
  OBVIOUS
<1>2. \A k \in DOMAIN Tail(s) : k + 1 \in DOMAIN s /\ Tail(s)[k] = s[k + 1]
  OBVIOUS
<1>3. \A k \in DOMAIN s : k = 1 \/ (k - 1 \in DOMAIN Tail(s) /\ s[k] = Tail(s)[k - 1])
  OBVIOUS
<1>4. \A x \in ToSet(s) : x = Head(s) \/ x \in ToSet(Tail(s))
  BY <1>1, <1>3 DEF ToSet
<1>5. Head(s) \in ToSet(s)
  BY <1>1 DEF ToSet
<1>6. \A x \in ToSet(Tail(s)) : x \in ToSet(s)
  BY <1>2 DEF ToSet
<1> QED
  BY <1>1, <1>4, <1>5, <1>6

LEMMA IsSeq ==
  ASSUME NEW S, NEW n \in Nat, NEW f, f = [k \in 1 .. n |-> f[k]],
         \A k \in 1 .. n : f[k] \in S
  PROVE  f \in Seq(S)
<1>1. f \in [1 .. n -> S]
  OBVIOUS
<1> QED
  BY <1>1

LEMMA AscendingType ==
  ASSUME NEW ccs \in SUBSET Ccs, NEW s \in Ascending(ccs)
  PROVE  /\ s \in Seq(Ccs) /\ DOMAIN s = 1 .. Cardinality(ccs)
         /\ Cardinality(ccs) \in Nat /\ ToSet(s) = ccs
<1>1. Cardinality(ccs) \in Nat
  BY LearnAssumption, FS_Subset, FS_CardinalityType
<1> QED
  BY <1>1 DEF Ascending

\* Every binding is among the lines that are written.
LEMMA BindingsCover ==
  ASSUME NEW params \in [Ccs -> {NoBind} \cup ParamBind],
         NEW scenes \in [Ccs -> {NoScene} \cup [active : {TRUE}, scene : Scenes]],
         NEW lines \in Bindings(params, scenes)
  PROVE  /\ lines \in Seq(Line)
         /\ \A cc \in Ccs : params[cc] # NoBind => Param(cc, params[cc].param) \in ToSet(lines)
         /\ \A cc \in Ccs : scenes[cc] # NoScene => Scene(cc, scenes[cc].scene) \in ToSet(lines)
<1> DEFINE ps == {cc \in Ccs : params[cc] # NoBind}
           ss == {cc \in Ccs : scenes[cc] # NoScene}
<1>1. PICK p \in Ascending(ps), t \in Ascending(ss) : lines = ParamLines(p, params) \o SceneLines(t, scenes)
  BY DEF Bindings
<1>2. /\ p \in Seq(Ccs) /\ DOMAIN p = 1 .. Cardinality(ps)
      /\ Cardinality(ps) \in Nat /\ ToSet(p) = ps
  BY AscendingType
<1>3. /\ t \in Seq(Ccs) /\ DOMAIN t = 1 .. Cardinality(ss)
      /\ Cardinality(ss) \in Nat /\ ToSet(t) = ss
  BY AscendingType
<1>4. \A k \in DOMAIN p : Param(p[k], params[p[k]].param) \in Line
  <2> TAKE k \in DOMAIN p
  <2>1. p[k] \in ps
    BY <1>2 DEF ToSet
  <2>2. params[p[k]] \in ParamBind
    BY <2>1
  <2>3. params[p[k]].param \in Params
    BY <2>2 DEF ParamBind
  <2> QED
    BY <2>1, <2>3 DEF Line
<1>5. \A k \in DOMAIN t : Scene(t[k], scenes[t[k]].scene) \in Line
  <2> TAKE k \in DOMAIN t
  <2>1. t[k] \in ss
    BY <1>3 DEF ToSet
  <2>2. scenes[t[k]] \in [active : {TRUE}, scene : Scenes]
    BY <2>1
  <2>3. scenes[t[k]].scene \in Scenes
    BY <2>2
  <2> QED
    BY <2>1, <2>3 DEF Line
<1>6. ParamLines(p, params) \in Seq(Line) /\ SceneLines(t, scenes) \in Seq(Line)
  <2>1. ParamLines(p, params) \in Seq(Line)
    BY <1>2, <1>4, IsSeq DEF ParamLines
  <2>2. SceneLines(t, scenes) \in Seq(Line)
    BY <1>3, <1>5, IsSeq DEF SceneLines
  <2> QED
    BY <2>1, <2>2
<1>7. lines \in Seq(Line) /\ ToSet(lines) = ToSet(ParamLines(p, params)) \cup ToSet(SceneLines(t, scenes))
  BY <1>1, <1>6, ToSetAppend
<1>8. \A cc \in ps : Param(cc, params[cc].param) \in ToSet(ParamLines(p, params))
  <2> TAKE cc \in ps
  <2>1. PICK k \in DOMAIN p : p[k] = cc
    BY <1>2 DEF ToSet
  <2> QED
    BY <2>1 DEF ToSet, ParamLines
<1>9. \A cc \in ss : Scene(cc, scenes[cc].scene) \in ToSet(SceneLines(t, scenes))
  <2> TAKE cc \in ss
  <2>1. PICK k \in DOMAIN t : t[k] = cc
    BY <1>3 DEF ToSet
  <2> QED
    BY <2>1 DEF ToSet, SceneLines
<1> QED
  BY <1>7, <1>8, <1>9

LEMMA SaveCovers ==
  ASSUME MidiInv', file \in Seq(Line), SaveMidiBinds
  PROVE  file' \in Seq(Line) /\ ToSet(file) \subseteq ToSet(file') /\ BoundIsSaved'
<1>1. PICK lines \in Bindings(paramBinds', sceneBinds') : file' = file \o lines
  BY DEF SaveMidiBinds
<1>2. /\ paramBinds' \in [Ccs -> {NoBind} \cup ParamBind]
      /\ sceneBinds' \in [Ccs -> {NoScene} \cup [active : {TRUE}, scene : Scenes]]
  BY DEF MidiInv, MidiTypeOK
<1>3. /\ lines \in Seq(Line)
      /\ \A cc \in Ccs : paramBinds'[cc] # NoBind
           => Param(cc, paramBinds'[cc].param) \in ToSet(lines)
      /\ \A cc \in Ccs : sceneBinds'[cc] # NoScene
           => Scene(cc, sceneBinds'[cc].scene) \in ToSet(lines)
  BY <1>2, BindingsCover
<1>4. file' \in Seq(Line) /\ ToSet(file') = ToSet(file) \cup ToSet(lines)
  BY <1>1, <1>3, ToSetAppend
<1> QED
  BY <1>3, <1>4 DEF BoundIsSaved

-----------------------------------------------------------------------------
(* What the operations of MidiRouter change *)

LEMMA LearnBindBinds ==
  ASSUME MidiInv, NEW cc \in Ccs, NEW p \in Params, LearnBind(cc, p)
  PROVE  /\ paramBinds'[cc].param = p
         /\ \A d \in Ccs \ {cc} : paramBinds'[d] = paramBinds[d]
         /\ sceneBinds' = sceneBinds /\ sceneBinds[cc] = NoScene
BY DEF LearnBind, MidiInv, MidiTypeOK

LEMMA BindSceneBinds ==
  ASSUME MidiInv, NEW cc \in Ccs, NEW i \in Scenes, BindScene(cc, i)
  PROVE  /\ sceneBinds'[cc].scene = i
         /\ \A d \in Ccs \ {cc} : sceneBinds'[d] = sceneBinds[d]
         /\ paramBinds' = paramBinds /\ paramBinds[cc] = NoBind
BY DEF BindScene, CanBindScene, MidiInv, MidiTypeOK

LEMMA ClearClears ==
  ASSUME MidiInv, NEW cc \in Ccs, MidiClearBind(cc)
  PROVE  /\ paramBinds'[cc] = NoBind /\ sceneBinds'[cc] = NoScene
         /\ \A d \in Ccs \ {cc} : paramBinds'[d] = paramBinds[d] /\ sceneBinds'[d] = sceneBinds[d]
BY DEF MidiClearBind, ClearBind, ClearScene, MidiInv, MidiTypeOK

\* Every step of the application but a restart is one of MidiRouter or none.
LEMMA StepsOfMidi ==
  ASSUME LearnInv, LearnNext, ~Restart
  PROVE  [MidiNext]_midiVars
<1>1. ASSUME NEW p \in Params, BeginLearnParam(p) PROVE UNCHANGED midiVars
  BY <1>1 DEF BeginLearnParam
<1>2. ASSUME NEW i \in Scenes, BeginLearnScene(i) PROVE UNCHANGED midiVars
  BY <1>2 DEF BeginLearnScene
<1>3. ASSUME NEW cc \in Ccs, NEW p \in Params, LearnParam(cc, p)
      PROVE  [MidiNext]_midiVars
  BY <1>3 DEF LearnParam, MidiNext
<1>4. ASSUME NEW cc \in Ccs, NEW i \in Scenes, LearnScene(cc, i)
      PROVE  [MidiNext]_midiVars
  BY <1>4 DEF LearnScene, MidiNext
<1>5. CASE ClearMidiBinds
  BY <1>5 DEF ClearMidiBinds
<1>6. CASE ClearNext
  <2>1. CASE todo = << >>
    BY <1>6, <2>1 DEF ClearNext
  <2>2. CASE todo # << >>
    <3>1. todo \in Seq(Ccs)
      BY <1>6 DEF ClearNext, LearnInv, ListIsComplete, LearnTypeOK
    <3>2. Head(todo) \in Ccs
      BY <3>1, <2>2, HeadAndTail
    <3> QED
      BY <1>6, <2>2, <3>2 DEF ClearNext, MidiNext
  <2> QED
    BY <2>1, <2>2
<1>7. CASE NewChain
  <2>1. PICK chain \in Chains : SetChain(chain)
    BY <1>7 DEF NewChain
  <2> QED
    BY <2>1, LearnAssumption DEF MidiNext
<1>8. CASE LoadNext
  <2>1. CASE todo = << >>
    BY <1>8, <2>1 DEF LoadNext
  <2>2. CASE todo # << >>
    <3>1. todo \in Seq(Line)
      BY <1>8 DEF LoadNext, LearnInv, ListIsComplete, LearnTypeOK
    <3>2. Head(todo) \in Line
      BY <3>1, <2>2, HeadAndTail
    <3>3. /\ Head(todo).cc \in Ccs
          /\ Head(todo).kind = "param" => Head(todo).target \in Params
          /\ Head(todo).kind = "scene" => Head(todo).target \in Scenes
      BY <3>2 DEF Line, Param, Scene
    <3>4. Restores(Head(todo))
      BY <1>8, <2>2 DEF LoadNext
    <3> QED
      BY <3>3, <3>4 DEF Restores, MidiNext
  <2> QED
    BY <2>1, <2>2
<1>9. CASE Loaded
  BY <1>9 DEF Loaded
<1> QED
  BY <1>1, <1>2, <1>3, <1>4, <1>5, <1>6, <1>7, <1>8, <1>9 DEF LearnNext

-----------------------------------------------------------------------------
(* The inductive invariant *)

LEMMA InitIsSafe == LearnInit => LearnInv
<1> SUFFICES ASSUME LearnInit PROVE LearnInv
  OBVIOUS
<1>1. Fresh(StartChain) /\ StartChain \in SUBSET Params
  BY LearnAssumption DEF LearnInit
<1>2. MidiInv /\ Learned
  BY <1>1, FreshIsSafe, FreshIsLearned
<1>3. LearnTypeOK
  BY <1>2 DEF LearnInit, LearnTypeOK, MidiInv
<1>4. \A cc \in Ccs : paramBinds[cc] = NoBind /\ sceneBinds[cc] = NoScene
  BY <1>1 DEF Fresh
<1> QED
  BY <1>2, <1>3, <1>4 DEF LearnInit, LearnInv, ListIsComplete, IsBound, BoundIsSaved, TodoOK

LEMMA RestartIsSafe ==
  ASSUME LearnInv, Restart
  PROVE  LearnInv'
<1>1. MidiTypeOK'
  BY LearnAssumption DEF Restart, MidiTypeOK
<1>2. /\ \A cc \in Ccs : paramBinds'[cc] = NoBind /\ sceneBinds'[cc] = NoScene
      /\ sourceUsed' = {} /\ DOMAIN table' = {}
  BY DEF Restart
<1>3. MidiInv' /\ Learned'
  BY <1>1, <1>2
  DEF MidiInv, SourcesAreOwned, ParamOrScene, MovesWhatItLearned, Learned
<1>4. LearnTypeOK'
  BY <1>1 DEF Restart, LearnTypeOK, LearnInv, ListIsComplete
<1> QED
  BY <1>2, <1>3, <1>4
  DEF Restart, LearnInv, ListIsComplete, IsBound, BoundIsSaved, TodoOK

\* A step that leaves the bindings alone.
LEMMA NothingBound ==
  ASSUME LearnInv, UNCHANGED <<paramBinds, sceneBinds>>, ToSet(file) \subseteq ToSet(file')
  PROVE  BoundIsSaved' /\ \A cc \in Ccs : IsBound(cc)' = IsBound(cc)
BY DEF LearnInv, BoundIsSaved, IsBound

LEMMA LearnParamIsSafe ==
  ASSUME LearnInv, MidiInv', NEW cc \in Ccs, NEW p \in Params, LearnParam(cc, p)
  PROVE  ListIsComplete' /\ BoundIsSaved' /\ TodoOK'
<1>1. /\ pc = "running" /\ pc' = pc /\ todo' = todo /\ learningParam' = {}
      /\ learningScene' = learningScene
  BY DEF LearnParam
<1>2. MidiInv /\ LearnTypeOK /\ file \in Seq(Line)
  BY DEF LearnInv, ListIsComplete, LearnTypeOK
<1>3. TodoOK'
  BY <1>1 DEF TodoOK
<1>4. CASE UNCHANGED <<midiVars, listed, file>>
  <2>1. BoundIsSaved' /\ \A d \in Ccs : IsBound(d)' = IsBound(d)
    BY <1>4, NothingBound DEF midiVars
  <2>2. LearnTypeOK'
    BY <1>1, <1>2, <1>4 DEF LearnTypeOK, MidiInv
  <2> QED
    BY <2>1, <2>2, <1>3, <1>4 DEF ListIsComplete, LearnInv
<1>5. CASE LearnBind(cc, p) /\ listed' = listed \cup {cc} /\ SaveMidiBinds
  <2>1. file' \in Seq(Line) /\ BoundIsSaved'
    BY <1>2, <1>5, SaveCovers
  <2>2. LearnTypeOK'
    BY <1>1, <1>2, <1>5, <2>1 DEF LearnTypeOK, MidiInv
  <2>3. \A d \in Ccs \ {cc} : IsBound(d)' = IsBound(d)
    BY <1>2, <1>5, LearnBindBinds DEF IsBound
  <2> QED
    BY <2>1, <2>2, <2>3, <1>3, <1>5 DEF ListIsComplete, LearnInv
<1> QED
  BY <1>4, <1>5 DEF LearnParam

LEMMA LearnSceneIsSafe ==
  ASSUME LearnInv, MidiInv', NEW cc \in Ccs, NEW i \in Scenes, LearnScene(cc, i)
  PROVE  ListIsComplete' /\ BoundIsSaved' /\ TodoOK'
<1>1. /\ pc = "running" /\ pc' = pc /\ todo' = todo /\ learningScene' = {}
      /\ learningParam' = learningParam
  BY DEF LearnScene
<1>2. MidiInv /\ LearnTypeOK /\ file \in Seq(Line)
  BY DEF LearnInv, ListIsComplete, LearnTypeOK
<1>3. TodoOK'
  BY <1>1 DEF TodoOK
<1>4. CASE UNCHANGED <<midiVars, listed, file>>
  <2>1. BoundIsSaved' /\ \A d \in Ccs : IsBound(d)' = IsBound(d)
    BY <1>4, NothingBound DEF midiVars
  <2>2. LearnTypeOK'
    BY <1>1, <1>2, <1>4 DEF LearnTypeOK, MidiInv
  <2> QED
    BY <2>1, <2>2, <1>3, <1>4 DEF ListIsComplete, LearnInv
<1>5. CASE BindScene(cc, i) /\ listed' = listed \cup {cc} /\ SaveMidiBinds
  <2>1. file' \in Seq(Line) /\ BoundIsSaved'
    BY <1>2, <1>5, SaveCovers
  <2>2. LearnTypeOK'
    BY <1>1, <1>2, <1>5, <2>1 DEF LearnTypeOK, MidiInv
  <2>3. \A d \in Ccs \ {cc} : IsBound(d)' = IsBound(d)
    BY <1>2, <1>5, BindSceneBinds DEF IsBound
  <2> QED
    BY <2>1, <2>2, <2>3, <1>3, <1>5 DEF ListIsComplete, LearnInv
<1> QED
  BY <1>4, <1>5 DEF LearnScene

LEMMA ClearNextIsSafe ==
  ASSUME LearnInv, MidiInv', ClearNext
  PROVE  ListIsComplete' /\ BoundIsSaved' /\ TodoOK'
<1>1. /\ pc = "clearing" /\ learningScene' = learningScene
      /\ learningParam' = learningParam
  BY DEF ClearNext
<1>2. MidiInv /\ LearnTypeOK /\ file \in Seq(Line) /\ todo \in Seq(Ccs)
  BY <1>1 DEF LearnInv, ListIsComplete, LearnTypeOK
<1>3. CASE todo # << >>
  <2>1. /\ MidiClearBind(Head(todo)) /\ todo' = Tail(todo)
        /\ listed' = listed /\ file' = file /\ pc' = pc
    BY <1>3 DEF ClearNext
  <2>2. /\ Head(todo) \in Ccs /\ Tail(todo) \in Seq(Ccs)
        /\ ToSet(todo) = {Head(todo)} \cup ToSet(Tail(todo))
    BY <1>2, <1>3, HeadAndTail
  <2>3. /\ paramBinds'[Head(todo)] = NoBind /\ sceneBinds'[Head(todo)] = NoScene
        /\ \A d \in Ccs \ {Head(todo)} :
             paramBinds'[d] = paramBinds[d] /\ sceneBinds'[d] = sceneBinds[d]
    BY <1>2, <2>1, <2>2, ClearClears
  <2>4. \A d \in Ccs : IsBound(d)' => IsBound(d) /\ d # Head(todo)
    BY <2>3 DEF IsBound
  <2>5. LearnTypeOK'
    BY <1>1, <1>2, <2>1, <2>2 DEF LearnTypeOK, MidiInv
  <2>6. ListIsComplete'
    BY <2>1, <2>4, <2>5 DEF ListIsComplete, LearnInv
  <2>7. BoundIsSaved'
    BY <2>1, <2>3 DEF BoundIsSaved, LearnInv
  <2>8. TodoOK'
    BY <1>1, <2>1, <2>2, <2>4 DEF TodoOK, LearnInv
  <2> QED
    BY <2>6, <2>7, <2>8
<1>4. CASE todo = << >>
  <2>1. /\ listed' = {} /\ pc' = "running" /\ UNCHANGED midiVars
        /\ SaveMidiBinds /\ todo' = todo
    BY <1>4 DEF ClearNext
  <2>2. file' \in Seq(Line) /\ BoundIsSaved'
    BY <1>2, <2>1, SaveCovers
  <2>3. \A d \in Ccs : ~IsBound(d)'
    BY <1>1, <1>4, <2>1 DEF LearnInv, TodoOK, ToSet, IsBound, midiVars
  <2>4. LearnTypeOK'
    BY <1>1, <1>2, <2>1, <2>2 DEF LearnTypeOK, MidiInv
  <2> QED
    BY <2>1, <2>2, <2>3, <2>4 DEF ListIsComplete, TodoOK
<1> QED
  BY <1>3, <1>4

LEMMA LoadNextIsSafe ==
  ASSUME LearnInv, MidiInv', LoadNext
  PROVE  ListIsComplete' /\ BoundIsSaved' /\ TodoOK'
<1>1. /\ pc = "loading" /\ learningScene' = learningScene
      /\ learningParam' = learningParam /\ file' = file
  BY DEF LoadNext
<1>2. MidiInv /\ LearnTypeOK /\ file \in Seq(Line) /\ todo \in Seq(Line)
  BY <1>1 DEF LearnInv, ListIsComplete, LearnTypeOK
<1>3. CASE todo = << >>
  <2>1. pc' = "loaded" /\ UNCHANGED <<midiVars, listed, todo>>
    BY <1>3 DEF LoadNext
  <2>2. BoundIsSaved' /\ \A d \in Ccs : IsBound(d)' = IsBound(d)
    BY <1>1, <2>1, NothingBound DEF midiVars
  <2>3. LearnTypeOK'
    BY <1>1, <1>2, <2>1 DEF LearnTypeOK, MidiInv
  <2> QED
    BY <2>1, <2>2, <2>3 DEF ListIsComplete, TodoOK, LearnInv
<1>4. CASE todo # << >>
  <2> DEFINE n == Head(todo)
  <2>1. Restores(n) /\ todo' = Tail(todo) /\ pc' = pc
    BY <1>4 DEF LoadNext
  <2>2. n \in Line /\ Tail(todo) \in Seq(Line) /\ ToSet(todo) = {n} \cup ToSet(Tail(todo))
    BY <1>2, <1>4, HeadAndTail
  <2>3. TodoOK'
    BY <1>1, <2>1, <2>2 DEF TodoOK, LearnInv
  <2>4. n \in ToSet(file)
    BY <1>1, <2>2 DEF TodoOK, LearnInv
  <2>5. /\ n.cc \in Ccs
        /\ n.kind = "param" => n.target \in Params /\ n = Param(n.cc, n.target)
        /\ n.kind = "scene" => n.target \in Scenes /\ n = Scene(n.cc, n.target)
    BY <2>2 DEF Line, Param, Scene
  <2> HIDE DEF n
  <2>6. listed' \in SUBSET Ccs => LearnTypeOK'
    BY <1>1, <1>2, <2>1, <2>2 DEF LearnTypeOK, MidiInv
  <2>7. CASE UNCHANGED <<midiVars, listed>>
    <3>1. BoundIsSaved' /\ \A d \in Ccs : IsBound(d)' = IsBound(d)
      BY <1>1, <2>7, NothingBound DEF midiVars
    <3> QED
      BY <3>1, <2>3, <2>6, <2>7 DEF ListIsComplete, LearnInv, LearnTypeOK
  <2>8. CASE n.kind = "param" /\ LearnBind(n.cc, n.target) /\ listed' = listed \cup {n.cc}
    <3>1. /\ paramBinds'[n.cc].param = n.target
          /\ \A d \in Ccs \ {n.cc} : paramBinds'[d] = paramBinds[d]
          /\ sceneBinds' = sceneBinds
      BY <1>2, <2>5, <2>8, LearnBindBinds
    <3>2. \A d \in Ccs \ {n.cc} : IsBound(d)' = IsBound(d)
      BY <3>1 DEF IsBound
    <3>3. Param(n.cc, n.target) \in ToSet(file)
      BY <2>4, <2>5, <2>8
    <3>4. BoundIsSaved'
      BY <1>1, <3>1, <3>3 DEF BoundIsSaved, LearnInv
    <3> QED
      BY <3>2, <3>4, <2>3, <2>5, <2>6, <2>8 DEF ListIsComplete, LearnInv, LearnTypeOK
  <2>9. CASE n.kind = "scene" /\ BindScene(n.cc, n.target) /\ listed' = listed \cup {n.cc}
    <3>1. /\ sceneBinds'[n.cc].scene = n.target
          /\ \A d \in Ccs \ {n.cc} : sceneBinds'[d] = sceneBinds[d]
          /\ paramBinds' = paramBinds
      BY <1>2, <2>5, <2>9, BindSceneBinds
    <3>2. \A d \in Ccs \ {n.cc} : IsBound(d)' = IsBound(d)
      BY <3>1 DEF IsBound
    <3>3. Scene(n.cc, n.target) \in ToSet(file)
      BY <2>4, <2>5, <2>9
    <3>4. BoundIsSaved'
      BY <1>1, <3>1, <3>3 DEF BoundIsSaved, LearnInv
    <3> QED
      BY <3>2, <3>4, <2>3, <2>5, <2>6, <2>9 DEF ListIsComplete, LearnInv, LearnTypeOK
  <2> QED
    BY <2>1, <2>7, <2>8, <2>9 DEF Restores
<1> QED
  BY <1>3, <1>4

LEMMA ClearBeginIsSafe ==
  ASSUME LearnInv, ClearMidiBinds
  PROVE  ListIsComplete' /\ BoundIsSaved' /\ TodoOK'
<1>1. /\ pc' = "clearing" /\ todo' \in Ascending(listed)
      /\ UNCHANGED <<midiVars, learningParam, learningScene, listed, file>>
  BY DEF ClearMidiBinds
<1>2. LearnTypeOK /\ MidiInv /\ listed \in SUBSET Ccs
  BY DEF LearnInv, ListIsComplete, LearnTypeOK
<1>3. todo' \in Seq(Ccs) /\ ToSet(todo') = listed
  BY <1>1, <1>2, AscendingType
<1>4. BoundIsSaved' /\ \A cc \in Ccs : IsBound(cc)' = IsBound(cc)
  BY <1>1, NothingBound DEF midiVars
<1>5. MidiTypeOK'
  BY <1>1, <1>2 DEF midiVars, LearnTypeOK, MidiTypeOK
<1>6. LearnTypeOK'
  BY <1>1, <1>2, <1>3, <1>5 DEF LearnTypeOK
<1>7. \A cc \in Ccs : IsBound(cc)' => cc \in listed
  BY <1>4 DEF LearnInv, ListIsComplete
<1> QED
  BY <1>1, <1>3, <1>4, <1>6, <1>7 DEF ListIsComplete, TodoOK

\* The remaining steps touch neither bindings nor file.
LEMMA OtherIsSafe ==
  ASSUME LearnInv, MidiInv',
         \/ \E p \in Params : BeginLearnParam(p)
         \/ \E i \in Scenes : BeginLearnScene(i)
         \/ NewChain \/ Loaded \/ UNCHANGED learnVars
  PROVE  ListIsComplete' /\ BoundIsSaved' /\ TodoOK'
<1>1. LearnTypeOK
  BY DEF LearnInv, ListIsComplete
<1>2. UNCHANGED <<paramBinds, sceneBinds, listed, file, todo>>
  BY DEF BeginLearnParam, BeginLearnScene, NewChain, SetChain, Loaded, learnVars, midiVars, appVars
<1>3. BoundIsSaved' /\ \A cc \in Ccs : IsBound(cc)' = IsBound(cc)
  BY <1>2, NothingBound
<1>4. /\ learningParam' \in SUBSET Params /\ learningScene' \in SUBSET Scenes
      /\ pc' = pc \/ pc' = "running"
  BY <1>1
  DEF LearnTypeOK, BeginLearnParam, BeginLearnScene, NewChain, Loaded, learnVars, appVars
<1>5. LearnTypeOK'
  BY <1>1, <1>2, <1>4 DEF LearnTypeOK, MidiInv
<1> QED
  BY <1>2, <1>3, <1>4, <1>5 DEF ListIsComplete, TodoOK, LearnInv

LEMMA NextIsSafe ==
  ASSUME LearnInv, [LearnNext]_learnVars
  PROVE  LearnInv'
<1>1. CASE Restart
  BY <1>1, RestartIsSafe
<1>2. CASE ~Restart
  <2>1. [MidiNext]_midiVars
    BY <1>2, StepsOfMidi DEF learnVars
  <2>2. MidiInv' /\ Learned'
    BY <2>1, StepIsSafe, StepIsLearned DEF LearnInv
  <2> SUFFICES ListIsComplete' /\ BoundIsSaved' /\ TodoOK'
    BY <2>2 DEF LearnInv
  <2>3. ASSUME NEW cc \in Ccs, NEW p \in Params, LearnParam(cc, p)
        PROVE  ListIsComplete' /\ BoundIsSaved' /\ TodoOK'
    BY <2>2, <2>3, LearnParamIsSafe
  <2>4. ASSUME NEW cc \in Ccs, NEW i \in Scenes, LearnScene(cc, i)
        PROVE  ListIsComplete' /\ BoundIsSaved' /\ TodoOK'
    BY <2>2, <2>4, LearnSceneIsSafe
  <2>5. CASE ClearMidiBinds
    BY <2>5, ClearBeginIsSafe
  <2>6. CASE ClearNext
    BY <2>2, <2>6, ClearNextIsSafe
  <2>7. CASE LoadNext
    BY <2>2, <2>7, LoadNextIsSafe
  <2>8. CASE \/ \E p \in Params : BeginLearnParam(p)
             \/ \E i \in Scenes : BeginLearnScene(i)
             \/ NewChain \/ Loaded \/ UNCHANGED learnVars
    BY <2>2, <2>8, OtherIsSafe
  <2> QED
    BY <1>2, <2>3, <2>4, <2>5, <2>6, <2>7, <2>8 DEF LearnNext
<1> QED
  BY <1>1, <1>2

\* The inductive invariant of the application, of which the others are parts.
THEOREM LearnSafe == LearnSpec => []LearnInv
BY InitIsSafe, NextIsSafe, PTL DEF LearnSpec

\* However the application drives it, MidiRouter keeps one controller per source
\* and every controller moves what it learned (onMidiEvent, loadMidiBinds).
THEOREM BindingsStaySafe == LearnSpec => []MidiInv
BY LearnSafe, PTL DEF LearnInv

\* Nor does a controller move anything else, unless it was learned again for a
\* second parameter since the program started.
THEOREM NothingElseEverMoves == LearnSpec => []MovesNothingElse
<1>1. LearnInv => MovesNothingElse
  BY LearnedSuffices DEF LearnInv
<1> QED
  BY <1>1, LearnSafe, PTL

\* The list covers what is bound, so that clearMidiBinds reaches all of it.
THEOREM ListCovers == LearnSpec => []ListIsComplete
BY LearnSafe, PTL DEF LearnInv

\* What is bound is in the file (saveMidiBinds, loadMidiBinds).
THEOREM FileCovers == LearnSpec => []BoundIsSaved
BY LearnSafe, PTL DEF LearnInv

\* All together: router, list and file agree on what is bound (MidiRouter,
\* onMidiEvent, saveMidiBinds, loadMidiBinds, clearMidiBinds).
THEOREM BindingsAlwaysAgree == LearnSpec => []BindingsAgree
BY BindingsStaySafe, ListCovers, FileCovers, PTL DEF BindingsAgree
-----------------------------------------------------------------------------
(* What was saved is restored *)

\* While the file is read, the lines that are not to be read any more have had their
\* effect, as far as the chain has their parameter.
Restored(n) ==
  IF n.kind = "scene" THEN sceneBinds[n.cc] = [active |-> TRUE, scene |-> n.target]
  ELSE n.target \in StartChain =>
         paramBinds[n.cc] # NoBind /\ paramBinds[n.cc].param = n.target
RestoreInv ==
  pc \in {"loading", "loaded"} =>
    /\ present = StartChain /\ (pc = "loaded" => todo = << >>)
    /\ Consistent(ToSet(file)) =>
         relearned = FALSE /\ \A n \in ToSet(file) \ ToSet(todo) : Restored(n)

\* A set of numbers has a least.
LEMMA LeastExists ==
  ASSUME NEW S \in SUBSET Nat, S # {}
  PROVE  \E s \in S : \A t \in S : s <= t
<1> DEFINE R == {ss \in Nat \X Nat : ss[1] < ss[2]}
<1>1. IsWellFoundedOn(R, Nat)
  BY NatLessThanWellFounded DEF OpToRel
<1> HIDE DEF R
<1>2. PICK s \in S : \A t \in S : ~(<<t, s>> \in R)
  BY <1>1, WFMin
<1>3. ASSUME NEW t \in S PROVE s <= t
  <2>1. s \in Nat /\ t \in Nat /\ <<t, s>> \in Nat \X Nat
    OBVIOUS
  <2>2. ~(t < s)
    BY <1>2, <2>1 DEF R
  <2> QED
    BY <2>1, <2>2
<1> QED
  BY <1>3

\* The elements of a sequence are finitely many.
LEMMA FiniteElements ==
  ASSUME NEW S, NEW s \in Seq(S)
  PROVE  IsFiniteSet(ToSet(s))
<1>1. s \in Surjection(1 .. Len(s), ToSet(s))
  BY DEF ToSet, Surjection
<1>2. IsFiniteSet(1 .. Len(s))
  BY FS_Interval
<1> QED
  BY <1>1, <1>2, FS_Surjection

\* What a map makes of the lines but one are fewer than the lines.
LEMMA FewerWithout ==
  ASSUME NEW K, IsFiniteSet(K), NEW x \in K, NEW f
  PROVE  LET T == {f[n] : n \in K \ {x}}
         IN IsFiniteSet(T) /\ Cardinality(T) < Cardinality(K)
<1> DEFINE T == {f[n] : n \in K \ {x}}
           g == [n \in K \ {x} |-> f[n]]
<1>1. g \in Surjection(K \ {x}, T)
  BY DEF Surjection
<1>2. IsFiniteSet(K \ {x}) /\ Cardinality(K \ {x}) = Cardinality(K) - 1
  BY FS_RemoveElement
<1>3. Cardinality(K) \in Nat /\ Cardinality(K \ {x}) \in Nat
  BY <1>2, FS_CardinalityType
<1> HIDE DEF T, g
<1>4. IsFiniteSet(T) /\ Cardinality(T) <= Cardinality(K \ {x})
  BY <1>1, <1>2, FS_Surjection
<1>5. Cardinality(T) \in Nat
  BY <1>4, FS_CardinalityType
<1> QED
  BY <1>2, <1>3, <1>4, <1>5 DEF T

\* A parameter's line can be learned: its controller has the source already, or one
\* is free, and the table has room for it.
LEMMA LineCanBeLearned ==
  ASSUME LearnInv, RestoreInv, pc = "loading", Consistent(ToSet(file)),
         NEW n \in ToSet(file), n.kind = "param", n.target \in StartChain
  PROVE  CanLearn(n.cc, n.target)
<1> DEFINE K == {k \in ToSet(file) : k.kind = "param"}
           from == [k \in K |-> paramBinds[k.cc].source]
           to == [k \in K |-> k.target]
<1>1. file \in Seq(Line) /\ MidiInv /\ MidiTypeOK /\ BoundIsSaved /\ Learned
  BY DEF LearnInv, ListIsComplete, LearnTypeOK, MidiInv
<1>2. \A k \in ToSet(file) :
        /\ k \in Line /\ k.cc \in Ccs
        /\ k.kind = "param" => k.target \in Params
  BY <1>1 DEF ToSet, Line, Param, Scene
<1>3. \A k, l \in ToSet(file) : k.cc = l.cc => k = l
  BY DEF Consistent
<1>4. \A k, l \in K : k.target = l.target => k = l
  BY DEF Consistent
<1>5. n.target \in present /\ ~relearned
  BY DEF RestoreInv
<1>6. \A cc \in Ccs : paramBinds[cc] # NoBind =>
        /\ Param(cc, paramBinds[cc].param) \in K
        /\ paramBinds[cc].source \in sourceUsed
  BY <1>1 DEF BoundIsSaved, Param, MidiInv, SourcesAreOwned, MidiTypeOK, ParamBind
<1>7. sceneBinds[n.cc] = NoScene
  <2>1. ASSUME sceneBinds[n.cc] # NoScene PROVE FALSE
    <3>1. Scene(n.cc, sceneBinds[n.cc].scene) \in ToSet(file)
      BY <2>1, <1>1, <1>2 DEF BoundIsSaved
    <3>2. Scene(n.cc, sceneBinds[n.cc].scene) = n
      BY <3>1, <1>3 DEF Scene
    <3> QED
      BY <3>2 DEF Scene
  <2> QED
    BY <2>1
<1>8. CASE paramBinds[n.cc] # NoBind
  <2>1. Param(n.cc, paramBinds[n.cc].param) = n
    BY <1>2, <1>3, <1>6, <1>8 DEF Param
  <2>2. paramBinds[n.cc].param = n.target
    BY <2>1 DEF Param
  <2>3. n.target \in DOMAIN table /\ table[n.target] = paramBinds[n.cc].source
    BY <2>2, <1>1, <1>2, <1>8 DEF MidiInv, MovesWhatItLearned
  <2> QED
    BY <2>3, <1>5, <1>7, <1>8 DEF CanLearn, SourceFor, CanBind
<1>9. CASE paramBinds[n.cc] = NoBind
  <2>1. \A cc \in Ccs : paramBinds[cc] # NoBind =>
          Param(cc, paramBinds[cc].param) \in K \ {n}
    BY <1>6, <1>9 DEF Param
  <2>2. IsFiniteSet(ToSet(file))
    BY <1>1, FiniteElements
  <2>3. IsFiniteSet(K) /\ n \in K
    BY <2>2, FS_Subset
  <2>4. Cardinality(K) <= Cardinality(Sources) /\ Cardinality(K) \in Nat
    BY <2>3, FS_CardinalityType DEF Consistent
  <2>5. sourceUsed \subseteq {from[k] : k \in K \ {n}}
    <3>1. SUFFICES ASSUME NEW s \in sourceUsed PROVE \E k \in K \ {n} : from[k] = s
      OBVIOUS
    <3>2. PICK cc \in Ccs : paramBinds[cc] # NoBind /\ paramBinds[cc].source = s
      BY <1>1 DEF MidiInv, SourcesAreOwned, MidiTypeOK
    <3>3. Param(cc, paramBinds[cc].param) \in K \ {n} /\ Param(cc, paramBinds[cc].param).cc = cc
      BY <2>1, <3>2 DEF Param
    <3> QED
      BY <3>2, <3>3
  <2>6. DOMAIN table \subseteq {to[k] : k \in K \ {n}}
    <3>1. SUFFICES ASSUME NEW p \in DOMAIN table PROVE \E k \in K \ {n} : to[k] = p
      OBVIOUS
    <3>2. PICK cc \in Ccs : paramBinds[cc] # NoBind /\ paramBinds[cc].param = p
      BY <1>1, <1>5 DEF Learned
    <3>3. Param(cc, paramBinds[cc].param) \in K \ {n} /\ Param(cc, paramBinds[cc].param).target = p
      BY <2>1, <3>2 DEF Param
    <3> QED
      BY <3>3
  <2> HIDE DEF K, from, to
  <2>7. /\ IsFiniteSet(sourceUsed) /\ Cardinality(sourceUsed) < Cardinality(K)
        /\ Cardinality(DOMAIN table) < Cardinality(K)
        /\ Cardinality(DOMAIN table) \in Nat /\ Cardinality(sourceUsed) \in Nat
    <3> DEFINE F == {from[k] : k \in K \ {n}}
               T == {to[k] : k \in K \ {n}}
    <3>1. /\ IsFiniteSet(F) /\ Cardinality(F) < Cardinality(K)
          /\ IsFiniteSet(T) /\ Cardinality(T) < Cardinality(K)
      BY <2>3, FewerWithout
    <3> HIDE DEF F, T
    <3>2. sourceUsed \in SUBSET F /\ DOMAIN table \in SUBSET T
      BY <2>5, <2>6 DEF F, T
    <3>3. /\ IsFiniteSet(sourceUsed) /\ Cardinality(sourceUsed) <= Cardinality(F)
          /\ IsFiniteSet(DOMAIN table) /\ Cardinality(DOMAIN table) <= Cardinality(T)
      BY <3>1, <3>2, FS_Subset
    <3>4. /\ Cardinality(F) \in Nat /\ Cardinality(T) \in Nat
          /\ Cardinality(DOMAIN table) \in Nat /\ Cardinality(sourceUsed) \in Nat
      BY <3>1, <3>3, FS_CardinalityType
    <3> QED
      BY <3>1, <3>3, <3>4, <2>4
  <2>8. Cardinality(Sources) \in Nat
    BY MidiAssumption, FS_CardinalityType
  <2>9. Cardinality(DOMAIN table) < MaxBindings /\ sourceUsed # Sources
    BY <2>4, <2>7, <2>8, MidiAssumption
  <2>10. \E s \in Sources \ sourceUsed : \A t \in Sources \ sourceUsed : s <= t
    <3>1. Sources \ sourceUsed \subseteq Nat /\ Sources \ sourceUsed # {}
      BY <2>9, <1>1, MidiAssumption DEF MidiTypeOK
    <3> QED
      BY <3>1, LeastExists
  <2>11. n.target \notin DOMAIN table
    <3>1. ASSUME n.target \in DOMAIN table PROVE FALSE
      <4>1. PICK k \in K \ {n} : to[k] = n.target
        BY <2>6, <3>1
      <4> QED
        BY <4>1, <2>3, <1>4 DEF to
    <3> QED
      BY <3>1
  <2> QED
    BY <2>9, <2>10, <2>11, <1>5, <1>7, <1>9 DEF CanLearn, SourceFor, CanBind
<1> QED
  BY <1>8, <1>9

LEMMA RestoreStarts == LearnInit => RestoreInv
BY DEF LearnInit, RestoreInv

\* A line is read: if the file does not contradict itself it has its effect, and no
\* line before it loses its own.
LEMMA LineIsRestored ==
  ASSUME LearnInv, RestoreInv, pc = "loading", Consistent(ToSet(file)),
         NEW n \in ToSet(file), Restores(n)
  PROVE  /\ present' = StartChain /\ relearned' = FALSE
         /\ Restored(n)' /\ \A k \in ToSet(file) : Restored(k) => Restored(k)'
<1>1. file \in Seq(Line) /\ MidiInv /\ MidiTypeOK /\ BoundIsSaved
  BY DEF LearnInv, ListIsComplete, LearnTypeOK, MidiInv
<1>2. \A k \in ToSet(file) :
        /\ k.cc \in Ccs /\ k.kind \in {"param", "scene"}
        /\ k.kind = "param" => k.target \in Params
        /\ k.kind = "scene" => k.target \in Scenes
  BY <1>1 DEF ToSet, Line, Param, Scene
<1>3. \A k, l \in ToSet(file) : k.cc = l.cc => k = l
  BY DEF Consistent
<1>4. present = StartChain /\ relearned = FALSE
  BY DEF RestoreInv
<1>5. CASE n.kind = "param" /\ n.target \in StartChain
  <2>1. LearnBind(n.cc, n.target)
    BY <1>5, LineCanBeLearned DEF Restores
  <2>2. /\ paramBinds'[n.cc].param = n.target
        /\ \A d \in Ccs \ {n.cc} : paramBinds'[d] = paramBinds[d]
        /\ sceneBinds' = sceneBinds /\ sceneBinds[n.cc] = NoScene
    BY <2>1, <1>1, <1>2, <1>5, LearnBindBinds
  <2>3. paramBinds'[n.cc] # NoBind
    <3>1. PICK s \in SourceFor(n.cc) : paramBinds' = [paramBinds EXCEPT ![n.cc] = [source |-> s, param |-> n.target]]
      BY <2>1 DEF LearnBind
    <3>2. paramBinds'[n.cc] = [source |-> s, param |-> n.target]
      BY <3>1, <1>1, <1>2 DEF MidiTypeOK
    <3>3. s \in Sources
      BY <1>1, <1>2 DEF SourceFor, MidiTypeOK, ParamBind
    <3>4. paramBinds'[n.cc] \in ParamBind
      BY <3>2, <3>3, <1>2, <1>5 DEF ParamBind
    <3> QED
      BY <3>4, NoBindIsNone
  <2>4. paramBinds[n.cc] = NoBind \/ paramBinds[n.cc].param = n.target
    <3>1. ASSUME paramBinds[n.cc] # NoBind PROVE paramBinds[n.cc].param = n.target
      <4>1. Param(n.cc, paramBinds[n.cc].param) \in ToSet(file)
        BY <3>1, <1>1, <1>2 DEF BoundIsSaved
      <4>2. Param(n.cc, paramBinds[n.cc].param) = n
        BY <4>1, <1>3 DEF Param
      <4> QED
        BY <4>2 DEF Param
    <3> QED
      BY <3>1
  <2>5. present' = StartChain /\ relearned' = FALSE
    BY <2>1, <2>4, <1>4, Zenon DEF LearnBind
  <2>6. Restored(n)'
    BY <2>2, <2>3, <1>5 DEF Restored
  <2>7. ASSUME NEW k \in ToSet(file), Restored(k) PROVE Restored(k)'
    <3>1. CASE k = n
      BY <3>1, <2>6
    <3>2. CASE k # n
      BY <3>2, <2>2, <2>7, <1>2, <1>3 DEF Restored
    <3> QED
      BY <3>1, <3>2
  <2> QED
    BY <2>5, <2>6, <2>7
<1>6. CASE n.kind = "param" /\ n.target \notin StartChain
  <2>1. UNCHANGED midiVars
    BY <1>4, <1>6 DEF Restores, CanLearn
  <2> QED
    BY <2>1, <1>4, <1>6 DEF midiVars, Restored
<1>7. CASE n.kind = "scene"
  <2>1. paramBinds[n.cc] = NoBind
    <3>1. ASSUME paramBinds[n.cc] # NoBind PROVE FALSE
      <4>1. Param(n.cc, paramBinds[n.cc].param) \in ToSet(file)
        BY <3>1, <1>1, <1>2 DEF BoundIsSaved
      <4>2. Param(n.cc, paramBinds[n.cc].param) = n
        BY <4>1, <1>3 DEF Param
      <4> QED
        BY <4>2, <1>7 DEF Param
    <3> QED
      BY <3>1
  <2>2. BindScene(n.cc, n.target)
    BY <2>1, <1>7 DEF Restores, CanBindScene
  <2>3. /\ sceneBinds'[n.cc] = [active |-> TRUE, scene |-> n.target]
        /\ \A d \in Ccs \ {n.cc} : sceneBinds'[d] = sceneBinds[d]
        /\ paramBinds' = paramBinds /\ present' = present /\ relearned' = relearned
    BY <2>2, <1>1, <1>2 DEF BindScene, MidiTypeOK
  <2>4. Restored(n)'
    BY <2>3, <1>7 DEF Restored
  <2>5. ASSUME NEW k \in ToSet(file), Restored(k) PROVE Restored(k)'
    <3>1. CASE k = n
      BY <3>1, <2>4
    <3>2. CASE k # n
      BY <3>2, <2>3, <2>5, <1>2, <1>3 DEF Restored
    <3> QED
      BY <3>1, <3>2
  <2> QED
    BY <2>3, <2>4, <2>5, <1>4
<1> QED
  BY <1>2, <1>5, <1>6, <1>7

LEMMA RestoreSteps ==
  ASSUME LearnInv, RestoreInv, [LearnNext]_learnVars
  PROVE  RestoreInv'
<1>1. CASE Restart
  BY <1>1 DEF Restart, RestoreInv
<1>2. CASE LoadNext /\ todo = << >>
  <2>1. UNCHANGED <<present, paramBinds, sceneBinds, relearned, file, todo>> /\ pc = "loading"
    BY <1>2 DEF LoadNext, midiVars
  <2> QED
    BY <2>1, <1>2 DEF RestoreInv, Restored
<1>3. CASE LoadNext /\ todo # << >>
  <2>1. /\ pc = "loading" /\ pc' = "loading" /\ file' = file
        /\ Restores(Head(todo)) /\ todo' = Tail(todo)
    BY <1>3 DEF LoadNext
  <2>2. todo \in Seq(Line) /\ ToSet(todo) \subseteq ToSet(file)
    BY <2>1 DEF LearnInv, ListIsComplete, LearnTypeOK, TodoOK
  <2>3. PICK n \in ToSet(file) : /\ n = Head(todo) /\ Restores(n)
                                /\ ToSet(todo) = {n} \cup ToSet(Tail(todo))
    BY <2>1, <2>2, <1>3, HeadAndTail
  <2>4. present' = StartChain
    <3>1. present = StartChain
      BY <2>1 DEF RestoreInv
    <3>2. present' = present
      BY <2>3 DEF Restores, LearnBind, BindScene, midiVars
    <3> QED
      BY <3>1, <3>2
  <2>5. ASSUME Consistent(ToSet(file))
        PROVE  relearned' = FALSE /\ \A k \in ToSet(file) \ ToSet(Tail(todo)) : Restored(k)'
    <3>1. /\ relearned' = FALSE /\ Restored(n)'
          /\ \A k \in ToSet(file) : Restored(k) => Restored(k)'
      BY <2>1, <2>2, <2>3, <2>5, LineIsRestored
    <3>2. \A k \in ToSet(file) \ ToSet(todo) : Restored(k)
      BY <2>1, <2>5 DEF RestoreInv
    <3> QED
      BY <3>1, <3>2, <2>3
  <2> QED
    BY <2>1, <2>4, <2>5 DEF RestoreInv
<1>4. CASE UNCHANGED learnVars
  BY <1>4 DEF learnVars, midiVars, appVars, RestoreInv, Restored
<1>5. CASE ~Restart /\ ~LoadNext /\ ~UNCHANGED learnVars
  <2>1. pc' \in {"running", "clearing"}
    BY <1>5 DEF LearnNext, BeginLearnParam, BeginLearnScene, LearnParam, LearnScene,
                ClearMidiBinds, ClearNext, NewChain, appVars, Loaded
  <2> QED
    BY <2>1 DEF RestoreInv
<1> QED
  BY <1>1, <1>2, <1>3, <1>4, <1>5

\* When the file is read, what it says is in force.
LEMMA RestoredIsInForce ==
  ASSUME LearnInv, RestoreInv
  PROVE  SavedIsRestored
<1> SUFFICES ASSUME pc = "loaded", Consistent(ToSet(file)), NEW n \in ToSet(file)
             PROVE  IF n.kind = "scene" THEN Recalls(n.cc) = {n.target}
                    ELSE n.target \in StartChain => n.target \in Moves(n.cc)
  BY DEF SavedIsRestored
<1>1. file \in Seq(Line) /\ MidiInv
  BY DEF LearnInv, ListIsComplete, LearnTypeOK
<1>2. /\ n.cc \in Ccs /\ n.kind \in {"param", "scene"}
      /\ n.kind = "param" => n.target \in Params
      /\ n.kind = "scene" => n.target \in Scenes
  BY <1>1 DEF ToSet, Line, Param, Scene
<1>3. Restored(n)
  BY DEF RestoreInv, ToSet
<1>4. CASE n.kind = "scene"
  <2>1. sceneBinds[n.cc] = [active |-> TRUE, scene |-> n.target] /\ n.target \in Scenes
    BY <1>2, <1>3, <1>4 DEF Restored
  <2>2. \A i \in Scenes : [active |-> TRUE, scene |-> n.target] = [active |-> TRUE, scene |-> i]
                           <=> i = n.target
    OBVIOUS
  <2>3. Recalls(n.cc) = {n.target}
    BY <2>1, <2>2 DEF Recalls
  <2> QED
    BY <2>3, <1>4
<1>5. CASE n.kind = "param" /\ n.target \in StartChain
  <2>1. paramBinds[n.cc] # NoBind /\ paramBinds[n.cc].param = n.target
    BY <1>3, <1>5 DEF Restored
  <2>2. sceneBinds[n.cc] = NoScene /\ n.target \in DOMAIN table
        /\ table[n.target] = paramBinds[n.cc].source
    BY <2>1, <1>1, <1>2 DEF MidiInv, ParamOrScene, MovesWhatItLearned
  <2>3. Recalls(n.cc) = {}
    BY <2>2, NoSceneIsNone DEF Recalls
  <2> QED
    BY <2>1, <2>2, <2>3, <1>5 DEF Moves
<1> QED
  BY <1>2, <1>4, <1>5

\* Whatever was learned, learned again, cleared or edited before the program ended or
\* was cut off: a file that does not contradict itself brings every binding back that
\* the first chain has a parameter for (saveMidiBinds, loadMidiBinds, midiRestoreBind).
THEOREM SavedComesBack == LearnSpec => []SavedIsRestored
<1>1. LearnInv /\ RestoreInv /\ [LearnNext]_learnVars => RestoreInv'
  BY RestoreSteps
<1>2. LearnInv /\ RestoreInv => SavedIsRestored
  BY RestoredIsInForce
<1> QED
  BY <1>1, <1>2, RestoreStarts, LearnSafe, PTL DEF LearnSpec

===============================================================================
