----------------------------- MODULE PresetProofs -----------------------------
(***************************************************************************)
(* What is proved of the presets, for any documents, disks and migrations: *)
(* what was loaded can be saved, exported and loaded back.                 *)
(***************************************************************************)
EXTENDS PartsProofs

LEMMA PresetFacts == Preset!PresetAssumption
BY PartsAssumption

(* Migrations *)

Table == {st \in Seq(Nat \X Nat) : \A i \in DOMAIN st : st[i][1] < st[i][2]}
Leads(st, s) == \E i \in DOMAIN st : st[i][1] = s
FirstFor(st, s, k) ==
  /\ k \in DOMAIN st /\ st[k][1] = s
  /\ \A j \in 1 .. k - 1 : st[j][1] # s

LEMMA FirstIsThere ==
  ASSUME NEW st \in Table, NEW s, Leads(st, s)
  PROVE  \E k : FirstFor(st, s, k)
<1> DEFINE K == {i \in DOMAIN st : st[i][1] = s}
<1>1. K \in SUBSET Nat /\ K # {}
  BY DEF Leads, Table
<1>2. PICK k \in K : \A j \in K : k <= j
  <2> HIDE DEF K
  <2> QED
    BY <1>1, LeastIn
<1>3. st \in Seq(Nat \X Nat) /\ k \in DOMAIN st
  BY <1>2 DEF Table
<1>4. ASSUME NEW j \in 1 .. k - 1 PROVE st[j][1] # s
  <2>1. j \in DOMAIN st /\ j < k /\ j \in Nat /\ k \in Nat
    BY <1>3, <1>4
  <2> QED
    BY <2>1, <1>2
<1> QED
  BY <1>2, <1>3, <1>4 DEF FirstFor

LEMMA OneFirst ==
  ASSUME NEW st \in Table, NEW s, NEW k, NEW l, FirstFor(st, s, k), FirstFor(st, s, l)
  PROVE  k = l
<1>1. k \in Nat \ {0} /\ l \in Nat \ {0}
  BY DEF FirstFor, Table
<1>2. ~(k < l) /\ ~(l < k)
  BY <1>1 DEF FirstFor
<1> QED
  BY <1>1, <1>2

LEMMA TakesFirst ==
  ASSUME NEW st \in Table, NEW s, NEW k, FirstFor(st, s, k)
  PROVE  Preset!StepFrom(st, s) = st[k][2]
<1>1. Preset!StepFrom(st, s) = st[CHOOSE l \in DOMAIN st : FirstFor(st, s, l)][2]
  BY Zenon DEF Preset!StepFrom, FirstFor
<1>2. k \in DOMAIN st
  BY DEF FirstFor
<1>3. FirstFor(st, s, CHOOSE l \in DOMAIN st : FirstFor(st, s, l))
  BY <1>2
<1>4. (CHOOSE l \in DOMAIN st : FirstFor(st, s, l)) = k
  BY <1>3, OneFirst
<1> QED
  BY <1>1, <1>4

LEMMA StepsUp ==
  ASSUME NEW st \in Table, NEW s \in Int, Leads(st, s)
  PROVE  Preset!StepFrom(st, s) \in Nat /\ Preset!StepFrom(st, s) > s
<1>1. PICK k : FirstFor(st, s, k)
  BY FirstIsThere
<1>2. k \in DOMAIN st /\ st[k] \in Nat \X Nat /\ st[k][1] = s /\ st[k][1] < st[k][2]
  BY <1>1 DEF FirstFor, Table
<1> QED
  BY <1>1, <1>2, TakesFirst

\* A migration that is added changes nothing where there is one.
LEMMA AddedComesAfter ==
  ASSUME NEW st \in Table, NEW to \in Nat \X Nat, to[1] < to[2]
  PROVE  /\ Append(st, to) \in Table
         /\ \A s \in Int : Leads(st, s) =>
              /\ Leads(Append(st, to), s)
              /\ Preset!StepFrom(Append(st, to), s) = Preset!StepFrom(st, s)
         /\ \A s \in Int : Leads(Append(st, to), s) => Leads(st, s) \/ s = to[1]
         /\ ~Leads(st, to[1]) => /\ Leads(Append(st, to), to[1])
                                /\ Preset!StepFrom(Append(st, to), to[1]) = to[2]
         /\ Preset!ToSet(Append(st, to)) = Preset!ToSet(st) \cup {to}
<1> DEFINE more == Append(st, to)
<1>0. st \in Seq(Nat \X Nat)
  BY DEF Table
<1>1. /\ more \in Seq(Nat \X Nat) /\ Len(more) = Len(st) + 1 /\ more[Len(st) + 1] = to
      /\ \A i \in DOMAIN st : more[i] = st[i]
      /\ DOMAIN st = 1 .. Len(st) /\ DOMAIN more = 1 .. Len(st) + 1 /\ Len(st) \in Nat
  BY <1>0
<1>2. more \in Table
  <2>1. ASSUME NEW i \in DOMAIN more PROVE more[i][1] < more[i][2]
    <3>1. CASE i \in DOMAIN st
      BY <1>1, <3>1 DEF Table
    <3>2. CASE i = Len(st) + 1
      BY <1>1, <3>2
    <3> QED
      BY <1>1, <3>1, <3>2
  <2> QED
    BY <1>1, <2>1 DEF Table
<1>3. ASSUME NEW s \in Int, Leads(st, s)
      PROVE  Leads(more, s) /\ Preset!StepFrom(more, s) = Preset!StepFrom(st, s)
  <2>1. PICK k : FirstFor(st, s, k)
    BY <1>3, FirstIsThere
  <2> HIDE DEF more
  <2>2. k \in DOMAIN st /\ k \in DOMAIN more /\ more[k] = st[k]
    BY <2>1, <1>1 DEF FirstFor
  <2>3. FirstFor(more, s, k)
    <3>1. k \in DOMAIN more /\ more[k][1] = s
      BY <2>1, <2>2 DEF FirstFor
    <3>2. ASSUME NEW j \in 1 .. k - 1 PROVE more[j][1] # s
      <4>1. j \in DOMAIN st
        BY <2>2, <1>1, <3>2
      <4>3. st[j][1] # s
        BY <2>1, <3>2, Zenon DEF FirstFor
      <4>2. more[j] = st[j]
        BY <4>1, <1>1
      <4> QED
        BY <4>2, <4>3
    <3> QED
      BY <3>1, <3>2 DEF FirstFor
  <2>4. Leads(more, s)
    BY <2>3 DEF FirstFor, Leads
  <2> QED
    BY <2>1, <2>2, <2>3, <2>4, <1>2, TakesFirst
<1>4. ASSUME NEW s \in Int, Leads(more, s) PROVE Leads(st, s) \/ s = to[1]
  <2>1. PICK k \in DOMAIN more : more[k][1] = s
    BY <1>4 DEF Leads
  <2>2. CASE k \in DOMAIN st
    BY <1>1, <2>1, <2>2 DEF Leads
  <2>3. CASE k = Len(st) + 1
    BY <1>1, <2>1, <2>3
  <2>4. k \in DOMAIN st \/ k = Len(st) + 1
    <3> HIDE DEF more
    <3> QED
      BY <1>1, <2>1
  <2> QED
    BY <2>2, <2>3, <2>4
<1>5. ASSUME ~Leads(st, to[1]) PROVE Leads(more, to[1]) /\ Preset!StepFrom(more, to[1]) = to[2]
  <2>1. Len(st) + 1 \in DOMAIN more /\ more[Len(st) + 1] = to
    BY <1>1
  <2> HIDE DEF more
  <2>2. ASSUME NEW j \in 1 .. (Len(st) + 1) - 1 PROVE more[j][1] # to[1]
    <3>1. j \in DOMAIN st /\ more[j] = st[j]
      BY <1>1, <2>2
    <3> QED
      BY <1>5, <3>1 DEF Leads
  <2>3. FirstFor(more, to[1], Len(st) + 1)
    BY <2>1, <2>2 DEF FirstFor
  <2>4. Leads(more, to[1])
    BY <2>1 DEF Leads
  <2> QED
    BY <1>2, <2>1, <2>3, <2>4, TakesFirst
<1>6. Preset!ToSet(more) = Preset!ToSet(st) \cup {to}
  <2> HIDE DEF more
  <2>1. DOMAIN more = DOMAIN st \cup {Len(st) + 1} /\ Len(st) + 1 \notin DOMAIN st
    BY <1>1
  <2>2. ASSUME NEW x PROVE x \in {more[i] : i \in DOMAIN more} <=> x \in {st[i] : i \in DOMAIN st} \cup {to}
    <3>1. ASSUME NEW i \in DOMAIN more PROVE more[i] \in {st[j] : j \in DOMAIN st} \cup {to}
      <4>1. CASE i \in DOMAIN st
        BY <1>1, <4>1
      <4>2. CASE i = Len(st) + 1
        BY <1>1, <4>2
      <4> QED
        BY <2>1, <4>1, <4>2
    <3>2. ASSUME NEW j \in DOMAIN st PROVE st[j] \in {more[i] : i \in DOMAIN more}
      BY <1>1, <2>1, <3>2
    <3>3. to \in {more[i] : i \in DOMAIN more}
      BY <1>1, <2>1
    <3> QED
      BY Zenon, <3>1, <3>2, <3>3
  <2>3. {more[i] : i \in DOMAIN more} = {st[i] : i \in DOMAIN st} \cup {to}
    BY Zenon, <2>2
  <2> QED
    BY <2>3 DEF Preset!ToSet
<1> QED
  BY <1>2, <1>3, <1>4, <1>5, <1>6

(* Where a schema leads *)

Beyond(st, reach, s) ==
  IF s < CurrentSchema /\ Leads(st, s)
  THEN IF Preset!StepFrom(st, s) <= CurrentSchema THEN reach[Preset!StepFrom(st, s)] ELSE Preset!StepFrom(st, s)
  ELSE s
ReachesFrom(st, n, reach) == reach = [s \in n .. CurrentSchema |-> Beyond(st, reach, s)]
Reaches(st, reach) == reach = [s \in 0 .. CurrentSchema |-> Beyond(st, reach, s)]

LEMMA ReachExists ==
  ASSUME NEW st \in Table
  PROVE  \E reach : Reaches(st, reach)
<1>0. CurrentSchema \in Nat
  BY PresetFacts DEF Preset!PresetAssumption
<1> DEFINE S == {n \in 0 .. CurrentSchema + 1 : \E f : ReachesFrom(st, n, f)}
<1>1. CurrentSchema + 1 \in S
  <2>1. (CurrentSchema + 1) .. CurrentSchema = {}
    BY <1>0
  <2>2. ReachesFrom(st, CurrentSchema + 1, [s \in {} |-> 0])
    BY <2>1 DEF ReachesFrom
  <2> QED
    BY <2>2, <1>0
<1>2. S \in SUBSET Nat /\ S # {}
  BY <1>1, <1>0
<1>3. PICK n \in S : \A m \in S : n <= m
  <2> HIDE DEF S
  <2> QED
    BY <1>2, LeastIn
<1>4. PICK f : ReachesFrom(st, n, f)
  BY <1>3
<1>5. n = 0
  <2> SUFFICES ASSUME n # 0 PROVE FALSE
    OBVIOUS
  <2>1. n - 1 \in 0 .. CurrentSchema /\ n \in Nat /\ n <= CurrentSchema + 1
    BY <1>0, <1>3
  <2> DEFINE g == [s \in (n - 1) .. CurrentSchema |->
                     IF s = n - 1 THEN Beyond(st, f, s) ELSE f[s]]
  <2>2. ASSUME NEW s \in n .. CurrentSchema PROVE g[s] = f[s] /\ f[s] = Beyond(st, f, s)
    <3>1. s \in (n - 1) .. CurrentSchema /\ s # n - 1
      BY <2>1, <2>2, <1>0
    <3> QED
      BY <2>2, <3>1, <1>4 DEF ReachesFrom
  <2>3. ASSUME NEW s \in (n - 1) .. CurrentSchema PROVE Beyond(st, f, s) = Beyond(st, g, s)
    <3>1. CASE s < CurrentSchema /\ Leads(st, s) /\ Preset!StepFrom(st, s) <= CurrentSchema
      <4>1. s \in Int /\ Preset!StepFrom(st, s) \in Nat /\ Preset!StepFrom(st, s) > s
        BY <2>1, <2>3, <3>1, StepsUp, <1>0
      <4>2. Preset!StepFrom(st, s) \in n .. CurrentSchema
        BY <4>1, <3>1, <2>1, <2>3, <1>0
      <4>3. g[Preset!StepFrom(st, s)] = f[Preset!StepFrom(st, s)]
        BY <4>2, <2>2
      <4> HIDE DEF g
      <4> QED
        BY <4>3 DEF Beyond
    <3>2. CASE ~(s < CurrentSchema /\ Leads(st, s) /\ Preset!StepFrom(st, s) <= CurrentSchema)
      BY <3>2 DEF Beyond
    <3> QED
      BY <3>1, <3>2
  <2>4. ASSUME NEW s \in (n - 1) .. CurrentSchema PROVE g[s] = Beyond(st, g, s)
    <3>1. CASE s = n - 1
      BY <3>1, <2>3, <2>1
    <3>2. CASE s \in n .. CurrentSchema
      BY <3>2, <2>2, <2>3
    <3> QED
      BY <2>4, <3>1, <3>2, <2>1, <1>0
  <2>5. ReachesFrom(st, n - 1, g)
    <3>1. g = [s \in (n - 1) .. CurrentSchema |-> g[s]]
      OBVIOUS
    <3> HIDE DEF g
    <3> QED
      BY <3>1, <2>4 DEF ReachesFrom
  <2>6. n - 1 \in S
    BY <2>5, <2>1, <1>0
  <2> HIDE DEF S
  <2> QED
    BY <2>6, <1>3, <2>1
<1> QED
  BY <1>4, <1>5 DEF Reaches, ReachesFrom

\* The migration of a schema, one step at a time.
LEMMA MigrateStep ==
  ASSUME NEW st \in Table, NEW s \in 0 .. CurrentSchema
  PROVE  Preset!Migrate(st, s) =
           IF s < CurrentSchema /\ Leads(st, s)
           THEN IF Preset!StepFrom(st, s) <= CurrentSchema THEN Preset!Migrate(st, Preset!StepFrom(st, s))
                ELSE Preset!StepFrom(st, s)
           ELSE s
<1>0. CurrentSchema \in Nat
  BY PresetFacts DEF Preset!PresetAssumption
<1> DEFINE r == CHOOSE reach : Reaches(st, reach)
<1>1. Reaches(st, r)
  BY ReachExists
<1>2. ASSUME NEW x \in 0 .. CurrentSchema PROVE Preset!Migrate(st, x) = r[x]
  <2>1. ~(x < 0)
    BY <1>0
  <2> QED
    BY <2>1, Zenon DEF Preset!Migrate, Reaches, Beyond, Leads
<1> HIDE DEF r
<1>3. r[s] = Beyond(st, r, s)
  BY <1>1 DEF Reaches
<1>4. ASSUME s < CurrentSchema, Leads(st, s), Preset!StepFrom(st, s) <= CurrentSchema
      PROVE  Preset!Migrate(st, Preset!StepFrom(st, s)) = r[Preset!StepFrom(st, s)]
  BY <1>4, StepsUp, <1>2, <1>0
<1> QED
  BY <1>2, <1>3, <1>4 DEF Beyond

LEMMA CurrentStays ==
  ASSUME NEW st \in Table
  PROVE  Preset!Migrate(st, CurrentSchema) = CurrentSchema
BY MigrateStep, PresetFacts DEF Preset!PresetAssumption

\* What leads to the current schema still does when another table has the same steps
\* from the lowest schema on.
LEMMA AddedTakesNothing ==
  ASSUME NEW st \in Table, NEW more \in Table, NEW low \in Nat,
         \A s \in Int : s >= low /\ Leads(st, s) =>
           Leads(more, s) /\ Preset!StepFrom(more, s) = Preset!StepFrom(st, s)
  PROVE  \A s \in low .. CurrentSchema :
           Preset!Migrate(st, s) = CurrentSchema => Preset!Migrate(more, s) = CurrentSchema
<1>0. CurrentSchema \in Nat
  BY PresetFacts DEF Preset!PresetAssumption
<1> DEFINE B == {n \in 0 .. CurrentSchema : /\ CurrentSchema - n >= low
                                            /\ Preset!Migrate(st, CurrentSchema - n) = CurrentSchema
                                            /\ Preset!Migrate(more, CurrentSchema - n) # CurrentSchema}
<1>1. B = {}
  <2> SUFFICES ASSUME B # {} PROVE FALSE
    OBVIOUS
  <2>1. B \in SUBSET Nat
    OBVIOUS
  <2>2. PICK n \in B : \A m \in B : n <= m
    <3> HIDE DEF B
    <3> QED
      BY <2>1, LeastIn
  <2>3. PICK s \in 0 .. CurrentSchema : s = CurrentSchema - n
    BY <2>2, <1>0
  <2>4. /\ Preset!Migrate(st, s) = CurrentSchema /\ Preset!Migrate(more, s) # CurrentSchema
        /\ n = CurrentSchema - s /\ s \in Nat /\ s >= low
    BY <2>2, <2>3, <1>0
  <2>5. s # CurrentSchema
    BY <2>4, CurrentStays
  <2>6. s < CurrentSchema
    BY <2>3, <2>5, <1>0
  <2>7. Leads(st, s)
    BY <2>3, <2>4, <2>5, MigrateStep
  <2>8. PICK to : to = Preset!StepFrom(st, s)
    OBVIOUS
  <2>9. to \in Nat /\ to > s
    BY <2>7, <2>8, <2>4, StepsUp
  <2>10. Leads(more, s) /\ Preset!StepFrom(more, s) = to
    BY <2>7, <2>8, <2>4
  <2>11. to <= CurrentSchema
    <3>1. ~(to <= CurrentSchema) => Preset!Migrate(st, s) = to
      BY <2>6, <2>7, <2>8, <2>3, MigrateStep
    <3> QED
      BY <3>1, <2>4, <1>0
  <2>12. Preset!Migrate(st, to) = CurrentSchema
    BY <2>6, <2>7, <2>8, <2>11, <2>3, <2>4, MigrateStep
  <2>13. Preset!Migrate(more, to) # CurrentSchema
    BY <2>6, <2>10, <2>11, <2>3, <2>4, MigrateStep
  <2>14. CurrentSchema - to \in 0 .. CurrentSchema /\ CurrentSchema - (CurrentSchema - to) = to
    BY <2>9, <2>11, <1>0
  <2>15. CurrentSchema - to \in B
    BY <2>4, <2>9, <2>12, <2>13, <2>14
  <2> HIDE DEF B
  <2> QED
    BY <2>15, <2>2, <2>9, <2>4, <1>0, <2>11
<1>2. ASSUME NEW s \in low .. CurrentSchema, Preset!Migrate(st, s) = CurrentSchema,
             Preset!Migrate(more, s) # CurrentSchema
      PROVE  FALSE
  <2>1. CurrentSchema - s \in 0 .. CurrentSchema /\ CurrentSchema - (CurrentSchema - s) = s /\ s >= low
    BY <1>0, <1>2
  <2>2. CurrentSchema - s \in B
    BY <2>1, <1>2
  <2> QED
    BY <2>2, <1>1
<1> QED
  BY <1>2

LEMMA TableStarts == Preset!Init => steps \in Table
BY DEF Preset!Init, Table

\* The built-in step comes after what is registered, and once.
LEMMA Builtin ==
  ASSUME NEW st \in Table
  PROVE  LET more == Preset!WithBuiltin(st)
         IN /\ more \in Table /\ Preset!WithBuiltin(more) = more
            /\ \A s \in Int : Leads(st, s) =>
                 Leads(more, s) /\ Preset!StepFrom(more, s) = Preset!StepFrom(st, s)
            /\ \A s \in Int : Leads(more, s) => Leads(st, s) \/ s = 0
            /\ ~Leads(st, 0) => Leads(more, 0) /\ Preset!StepFrom(more, 0) = 1
<1>1. <<0, 1>> \in Nat \X Nat /\ <<0, 1>>[1] = 0 /\ <<0, 1>>[2] = 1 /\ <<0, 1>>[1] < <<0, 1>>[2]
  OBVIOUS
<1>2. Preset!CanRegister(st, 0, 1) <=> <<0, 1>> \notin Preset!ToSet(st)
  BY DEF Preset!CanRegister
<1>3. CASE Preset!CanRegister(st, 0, 1)
  <2>1. Preset!WithBuiltin(st) = Append(st, <<0, 1>>)
    BY <1>3 DEF Preset!WithBuiltin
  <2>2. ~Preset!CanRegister(Append(st, <<0, 1>>), 0, 1)
    BY <1>1, AddedComesAfter DEF Preset!CanRegister
  <2>3. Preset!WithBuiltin(Append(st, <<0, 1>>)) = Append(st, <<0, 1>>)
    BY <2>2 DEF Preset!WithBuiltin
  <2> QED
    BY <1>1, <2>1, <2>3, AddedComesAfter
<1>4. CASE ~Preset!CanRegister(st, 0, 1)
  <2>1. Preset!WithBuiltin(st) = st
    BY <1>4 DEF Preset!WithBuiltin
  <2>2. Leads(st, 0)
    <3>1. PICK k \in DOMAIN st : st[k] = <<0, 1>>
      BY <1>2, <1>4 DEF Preset!ToSet
    <3> QED
      BY <3>1 DEF Leads
  <2> QED
    BY <2>1, <2>2
<1> QED
  BY <1>3, <1>4

LEMMA RegisteredStays ==
  ASSUME NEW st \in Table, NEW more \in Table, NEW low \in Nat,
         \A s \in Int : s >= low /\ Leads(Preset!WithBuiltin(st), s) =>
           /\ Leads(Preset!WithBuiltin(more), s)
           /\ Preset!StepFrom(Preset!WithBuiltin(more), s) = Preset!StepFrom(Preset!WithBuiltin(st), s)
  PROVE  \A s \in low .. CurrentSchema : Preset!CanMigrate(st, s) => Preset!CanMigrate(more, s)
<1>1. Preset!WithBuiltin(st) \in Table /\ Preset!WithBuiltin(more) \in Table
  BY Builtin
<1>2. PICK one, two : one = Preset!WithBuiltin(st) /\ two = Preset!WithBuiltin(more)
  OBVIOUS
<1>3. \A s \in low .. CurrentSchema :
        Preset!Migrate(one, s) = CurrentSchema => Preset!Migrate(two, s) = CurrentSchema
  BY <1>1, <1>2, AddedTakesNothing
<1> QED
  BY <1>2, <1>3 DEF Preset!CanMigrate

\* A migration that is registered comes after those before it, but may come before the
\* built-in one.
LEMMA Registers ==
  ASSUME NEW st \in Table, NEW from \in Nat, NEW to \in Nat, Preset!CanRegister(st, from, to)
  PROVE  LET more == Append(st, <<from, to>>)
         IN /\ more \in Table
            /\ \A s \in 0 .. CurrentSchema : Preset!CanMigrate(st, s) =>
                 \/ Preset!CanMigrate(more, s)
                 \/ s = 0 /\ ~Preset!BuiltinIsLate(st) /\ Preset!BuiltinIsLate(more)
<1>1. PICK x : x = <<from, to>>
  OBVIOUS
<1>2. x \in Nat \X Nat /\ x[1] = from /\ x[1] < x[2]
  BY <1>1 DEF Preset!CanRegister
<1>3. PICK more : more = Append(st, x)
  OBVIOUS
<1>4. /\ more \in Table /\ Preset!ToSet(more) = Preset!ToSet(st) \cup {x}
      /\ \A s \in Int : Leads(st, s) => Leads(more, s) /\ Preset!StepFrom(more, s) = Preset!StepFrom(st, s)
      /\ \A s \in Int : Leads(more, s) => Leads(st, s) \/ s = from
  BY <1>2, <1>3, AddedComesAfter
<1>5. PICK one, two : one = Preset!WithBuiltin(st) /\ two = Preset!WithBuiltin(more)
  OBVIOUS
<1>6. ASSUME NEW s \in Int, Leads(st, s)
      PROVE  Leads(two, s) /\ Preset!StepFrom(two, s) = Preset!StepFrom(one, s)
  <2>1. Preset!StepFrom(one, s) = Preset!StepFrom(st, s)
    BY <1>5, <1>6, Builtin
  <2>2. Leads(more, s) /\ Preset!StepFrom(more, s) = Preset!StepFrom(st, s)
    BY <1>4, <1>6
  <2>3. Leads(two, s) /\ Preset!StepFrom(two, s) = Preset!StepFrom(more, s)
    BY <1>4, <1>5, <2>2, Builtin
  <2> QED
    BY <2>1, <2>2, <2>3
<1>7. \A s \in Int : Leads(one, s) => Leads(st, s) \/ s = 0
  BY <1>5, Builtin
<1>8. \A s \in 1 .. CurrentSchema : Preset!CanMigrate(st, s) => Preset!CanMigrate(more, s)
  <2>1. 1 \in Nat
    OBVIOUS
  <2>2. \A s \in Int : s >= 1 /\ Leads(one, s) =>
          Leads(two, s) /\ Preset!StepFrom(two, s) = Preset!StepFrom(one, s)
    BY <1>6, <1>7
  <2> QED
    BY <1>4, <1>5, <2>1, <2>2, RegisteredStays
<1>9. ASSUME Leads(one, 0) => Leads(two, 0) /\ Preset!StepFrom(two, 0) = Preset!StepFrom(one, 0)
      PROVE  \A s \in 0 .. CurrentSchema : Preset!CanMigrate(st, s) => Preset!CanMigrate(more, s)
  <2>1. 0 \in Nat
    OBVIOUS
  <2>2. \A s \in Int : s >= 0 /\ Leads(one, s) =>
          Leads(two, s) /\ Preset!StepFrom(two, s) = Preset!StepFrom(one, s)
    BY <1>6, <1>7, <1>9
  <2> QED
    BY <1>4, <1>5, <2>1, <2>2, RegisteredStays
<1>10. CASE Leads(st, 0)
  <2>1. Leads(one, 0) => Leads(two, 0) /\ Preset!StepFrom(two, 0) = Preset!StepFrom(one, 0)
    BY <1>6, <1>10
  <2> QED
    BY <1>1, <1>3, <1>4, <1>9, <2>1
<1>11. CASE ~Leads(st, 0)
  <2>1. Preset!StepFrom(one, 0) = 1
    BY <1>5, <1>11, Builtin
  <2>2. CASE from # 0
    <3>1. ~Leads(more, 0)
      BY <1>4, <1>11, <2>2
    <3>2. Leads(two, 0) /\ Preset!StepFrom(two, 0) = 1
      BY <1>4, <1>5, <3>1, Builtin
    <3> QED
      BY <1>1, <1>3, <1>4, <1>9, <2>1, <3>2
  <2>3. CASE x = <<0, 1>>
    <3>1. Leads(more, 0) /\ Preset!StepFrom(more, 0) = 1
      BY <1>2, <1>3, <1>11, <2>3, AddedComesAfter
    <3>2. Leads(two, 0) /\ Preset!StepFrom(two, 0) = 1
      BY <1>4, <1>5, <3>1, Builtin
    <3> QED
      BY <1>1, <1>3, <1>4, <1>9, <2>1, <3>2
  <2>4. CASE from = 0 /\ x # <<0, 1>>
    <3>1. <<0, 1>> \notin Preset!ToSet(st)
      <4>1. ASSUME NEW k \in DOMAIN st, st[k] = <<0, 1>> PROVE FALSE
        BY <1>11, <4>1 DEF Leads
      <4> QED
        BY <4>1 DEF Preset!ToSet
    <3>2. ~Preset!BuiltinIsLate(st)
      BY <1>11 DEF Preset!BuiltinIsLate, Leads
    <3>3. Leads(more, 0)
      BY <1>2, <1>3, <1>11, <2>4, AddedComesAfter
    <3>4. Preset!BuiltinIsLate(more)
      BY <1>4, <2>4, <3>1, <3>3 DEF Preset!BuiltinIsLate, Leads
    <3>5. \A s \in 0 .. CurrentSchema : s = 0 \/ s \in 1 .. CurrentSchema
      OBVIOUS
    <3> QED
      BY <1>1, <1>3, <1>4, <1>8, <3>2, <3>4, <3>5
  <2> QED
    BY <1>1, <2>2, <2>3, <2>4
<1> QED
  BY <1>10, <1>11

LEMMA TableStep ==
  ASSUME steps \in Table, [Preset!Next]_(Preset!vars)
  PROVE  steps' \in Table /\ Preset!StillLoadStep
<1>0. MaxSchema \in Nat
  BY PresetFacts DEF Preset!PresetAssumption
<1>1. ASSUME NEW d, steps' = Preset!AfterMigrate(d) PROVE steps' \in Table /\ Preset!StillLoadStep
  <2>1. steps' = steps \/ steps' = Preset!WithBuiltin(steps)
    BY <1>1 DEF Preset!AfterMigrate
  <2>2. steps' \in Table /\ Preset!WithBuiltin(steps') = Preset!WithBuiltin(steps)
    BY <2>1, Builtin
  <2> QED
    BY <2>2 DEF Preset!StillLoadStep, Preset!CanMigrate
<1>2. ASSUME steps' = steps PROVE steps' \in Table /\ Preset!StillLoadStep
  BY <1>2 DEF Preset!StillLoadStep
<1>3. ASSUME NEW from \in 0 .. MaxSchema, NEW to \in 0 .. MaxSchema, Preset!RegisterMigration(from, to)
      PROVE  steps' \in Table /\ Preset!StillLoadStep
  BY <1>0, <1>3, Registers DEF Preset!RegisterMigration, Preset!StillLoadStep
<1>4. ASSUME NEW mode, NEW base, Preset!Load(mode, base) PROVE steps' \in Table /\ Preset!StillLoadStep
  BY <1>4, <1>1 DEF Preset!Load
<1>5. ASSUME Preset!Import PROVE steps' \in Table /\ Preset!StillLoadStep
  BY <1>5, <1>1 DEF Preset!Import
<1>6. ASSUME Preset!Save \/ Preset!ExportThrows \/ (\E base : Preset!Export(base)) \/ UNCHANGED Preset!vars
      PROVE  steps' = steps
  BY <1>6 DEF Preset!Save, Preset!ExportThrows, Preset!Export, Preset!vars
<1> QED
  BY <1>2, <1>3, <1>4, <1>5, <1>6 DEF Preset!Next

(* What a loop keeps *)

Longer(nodes, positions, upTo, n) ==
  IF n = 0 THEN << >>
  ELSE IF n \in positions THEN Append(upTo[n - 1], nodes[n]) ELSE upTo[n - 1]
KeepsTo(nodes, positions, m, upTo) == upTo = [n \in 0 .. m |-> Longer(nodes, positions, upTo, n)]

LEMMA KeepsExists ==
  ASSUME NEW nodes, NEW positions, NEW m \in Nat
  PROVE  \E upTo : KeepsTo(nodes, positions, m, upTo)
<1> DEFINE x == [nodes |-> nodes, positions |-> positions]
<1>1. PICK g : Loops("nodes", x, << >>, 0, m, g)
  <2>1. 0 \in Nat /\ 0 <= m
    OBVIOUS
  <2> HIDE DEF x
  <2> QED
    BY <2>1, LoopExists
<1>2. ASSUME NEW n, NEW now
      PROVE  Passed("nodes", x, now, n) = IF n \in positions THEN Append(now, nodes[n]) ELSE now
  BY DEF Passed
<1> HIDE DEF x
<1>3. KeepsTo(nodes, positions, m, g)
  BY <1>1, <1>2 DEF Loops, KeepsTo, Longer
<1> QED
  BY <1>3

LEMMA SelectedIsLast ==
  ASSUME NEW nodes, NEW positions, Len(nodes) \in Nat
  PROVE  \E upTo : KeepsTo(nodes, positions, Len(nodes), upTo) /\ Preset!Selected(nodes, positions) = upTo[Len(nodes)]
<1> DEFINE r == CHOOSE upTo : KeepsTo(nodes, positions, Len(nodes), upTo)
<1>1. KeepsTo(nodes, positions, Len(nodes), r)
  BY KeepsExists
<1>2. Preset!Selected(nodes, positions) = r[Len(nodes)]
  BY Zenon DEF Preset!Selected, KeepsTo, Longer
<1> HIDE DEF r
<1> QED
  BY <1>1, <1>2

\* Only nodes of the positions are kept, and not more of them than there are.
LEMMA SelectedIn ==
  ASSUME NEW T, NEW nodes \in Seq(T), NEW positions, NEW R,
         \A i \in DOMAIN nodes : i \in positions => nodes[i] \in R
  PROVE  Preset!Selected(nodes, positions) \in Seq(R) /\ Len(Preset!Selected(nodes, positions)) <= Len(nodes)
<1>0. Len(nodes) \in Nat /\ DOMAIN nodes = 1 .. Len(nodes)
  OBVIOUS
<1>1. PICK upTo : /\ KeepsTo(nodes, positions, Len(nodes), upTo)
                  /\ Preset!Selected(nodes, positions) = upTo[Len(nodes)]
  BY <1>0, SelectedIsLast
<1> DEFINE S == {n \in 0 .. Len(nodes) : ~(upTo[n] \in Seq(R) /\ Len(upTo[n]) <= n)}
<1>2. S = {}
  <2> SUFFICES ASSUME S # {} PROVE FALSE
    OBVIOUS
  <2>1. PICK n \in S : \A j \in S : n <= j
    <3>1. S \in SUBSET Nat
      OBVIOUS
    <3> HIDE DEF S
    <3> QED
      BY <3>1, LeastIn
  <2>2. n \in 0 .. Len(nodes) /\ upTo[n] = Longer(nodes, positions, upTo, n)
    BY <2>1, <1>1 DEF KeepsTo
  <2>3. n # 0
    <3>1. n = 0 => upTo[n] = << >>
      BY <2>2 DEF Longer
    <3>2. << >> \in Seq(R) /\ Len(<< >>) = 0
      OBVIOUS
    <3>3. ~(n = 0 /\ upTo[n] = << >>)
      BY <3>2, <2>1
    <3> QED
      BY <3>1, <3>3
  <2>4. n - 1 \in 0 .. Len(nodes) /\ n - 1 \notin S
    BY <2>1, <2>2, <2>3, <1>0
  <2>5. PICK short : short = upTo[n - 1]
    OBVIOUS
  <2>6. short \in Seq(R) /\ Len(short) <= n - 1 /\ n \in Nat
    BY <2>4, <2>5, <2>2
  <2>7. upTo[n] = IF n \in positions THEN Append(short, nodes[n]) ELSE short
    BY <2>2, <2>3, <2>5 DEF Longer
  <2>8. n \in positions => nodes[n] \in R
    BY <2>2, <2>3, <1>0
  <2>9. upTo[n] \in Seq(R) /\ Len(upTo[n]) <= n
    BY <2>6, <2>7, <2>8
  <2> QED
    BY <2>9, <2>1
<1>3. Len(nodes) \in 0 .. Len(nodes)
  BY <1>0
<1> QED
  BY <1>1, <1>2, <1>3

\* What is good throughout is kept as it is.
LEMMA SelectedAll ==
  ASSUME NEW T, NEW nodes \in Seq(T), NEW positions, DOMAIN nodes \subseteq positions
  PROVE  Preset!Selected(nodes, positions) = nodes
<1>0. Len(nodes) \in Nat /\ DOMAIN nodes = 1 .. Len(nodes)
  OBVIOUS
<1>1. PICK upTo : /\ KeepsTo(nodes, positions, Len(nodes), upTo)
                  /\ Preset!Selected(nodes, positions) = upTo[Len(nodes)]
  BY <1>0, SelectedIsLast
<1> DEFINE Whole(n) == /\ upTo[n] \in Seq(T) /\ Len(upTo[n]) = n
                       /\ \A i \in 1 .. n : upTo[n][i] = nodes[i]
           S == {n \in 0 .. Len(nodes) : ~Whole(n)}
<1>2. S = {}
  <2> SUFFICES ASSUME S # {} PROVE FALSE
    OBVIOUS
  <2>1. PICK n \in S : \A j \in S : n <= j
    <3>1. S \in SUBSET Nat
      OBVIOUS
    <3> HIDE DEF S
    <3> QED
      BY <3>1, LeastIn
  <2>2. n \in 0 .. Len(nodes) /\ upTo[n] = Longer(nodes, positions, upTo, n) /\ ~Whole(n)
    <3> HIDE DEF Whole
    <3> QED
      BY <2>1, <1>1 DEF KeepsTo
  <2>3. n # 0
    <3>1. n = 0 => upTo[n] = << >>
      BY <2>2 DEF Longer
    <3>2. << >> \in Seq(T) /\ Len(<< >>) = 0 /\ 1 .. 0 = {}
      OBVIOUS
    <3>3. n = 0 /\ upTo[n] = << >> => Whole(n)
      BY <3>2
    <3> QED
      BY <3>1, <3>3, <2>2
  <2>4. n - 1 \in 0 .. Len(nodes) /\ n - 1 \notin S
    <3> HIDE DEF Whole
    <3> QED
      BY <2>1, <2>2, <2>3, <1>0
  <2>5. PICK short : short = upTo[n - 1]
    OBVIOUS
  <2>6. /\ short \in Seq(T) /\ Len(short) = n - 1 /\ n \in Nat
        /\ \A i \in 1 .. n - 1 : short[i] = nodes[i]
    BY <2>4, <2>5, <2>2
  <2>7. n \in DOMAIN nodes /\ nodes[n] \in T
    BY <2>2, <2>3, <1>0
  <2>8. upTo[n] = Append(short, nodes[n])
    BY <2>2, <2>3, <2>5, <2>7 DEF Longer
  <2>9. /\ Append(short, nodes[n]) \in Seq(T) /\ Len(Append(short, nodes[n])) = n
        /\ \A i \in 1 .. n : Append(short, nodes[n])[i] = nodes[i]
    BY <2>6, <2>7
  <2> QED
    BY <2>8, <2>9, <2>2
<1>3. Whole(Len(nodes))
  <2> HIDE DEF Whole
  <2> QED
    BY <1>0, <1>2
<1>4. upTo[Len(nodes)] = nodes
  <2>1. PICK got : got = upTo[Len(nodes)]
    OBVIOUS
  <2>2. got \in Seq(T) /\ Len(got) = Len(nodes) /\ \A i \in 1 .. Len(nodes) : got[i] = nodes[i]
    BY <1>3, <2>1
  <2>3. got = nodes
    BY <2>2
  <2> QED
    BY <2>1, <2>3
<1> QED
  BY <1>1, <1>4

(* Fields, paths and parameters *)

LEMMA Numbers ==
  /\ CurrentSchema \in Nat /\ MaxSchema \in Nat /\ Top \in Nat
  /\ MaxScenes \in Nat /\ NameLimit \in Nat
  /\ Amounts \subseteq Int /\ 0 .. Top \subseteq Amounts
BY PresetFacts DEF Preset!PresetAssumption

LEMMA TextFacts ==
  /\ "Untitled" \in Texts /\ "assets" \in Texts /\ "elsewhere" \in Texts
  /\ Registry \subseteq Texts /\ Params \subseteq Keys /\ NoName \notin Registry
  /\ Root \notin Texts
BY PresetFacts DEF Preset!PresetAssumption

LEMMA NoValues == Preset!IsNoValue(Absent) /\ Preset!IsNoValue(Bad) /\ Preset!IsNoValue(Torn) /\ Absent # Bad
BY PresetFacts DEF Preset!PresetAssumption

LEMMA GivenIs ==
  ASSUME NEW v, NEW other
  PROVE  /\ v \in {Absent, Bad} => Preset!Given(v, other) = other
         /\ v \notin {Absent, Bad} => Preset!Given(v, other) = v
BY DEF Preset!Given

LEMMA GivenIn ==
  ASSUME NEW S, NEW v \in Preset!Maybe(S), NEW other \in S
  PROVE  Preset!Given(v, other) \in S
BY DEF Preset!Given, Preset!Maybe

LEMMA UnderIsPath ==
  ASSUME NEW base \in Preset!Paths, NEW path \in Preset!Paths
  PROVE  Preset!Under(base, path) \in Preset!Paths
BY DEF Preset!Under, Preset!Paths

LEMMA ClampedIn ==
  ASSUME NEW x \in Int
  PROVE  Preset!Clamped(x) \in 0 .. Top
BY Numbers DEF Preset!Clamped

LEMMA ClampedStays ==
  ASSUME NEW x \in 0 .. Top
  PROVE  Preset!Clamped(x) = x
BY Numbers DEF Preset!Clamped

LEMMA NodesOfValues == Preset!ParamValues \subseteq Preset!ParamNodes
<1> SUFFICES ASSUME NEW v \in Preset!ParamValues PROVE v \in Preset!ParamNodes
  OBVIOUS
<1>1. PICK S \in SUBSET Params : v \in [S -> 0 .. Top]
  BY DEF Preset!ParamValues
<1>2. v \in [S -> {Bad} \cup Amounts] /\ S \in SUBSET Keys
  BY <1>1, TextFacts, Numbers
<1> QED
  BY <1>2 DEF Preset!ParamNodes

LEMMA NoParams == [id \in {} |-> 0] \in Preset!ParamValues
<1>1. [id \in {} |-> 0] \in [{} -> 0 .. Top] /\ {} \in SUBSET Params
  OBVIOUS
<1> QED
  BY <1>1 DEF Preset!ParamValues

LEMMA LoadsParams ==
  ASSUME NEW node \in Preset!Maybe(Preset!ParamNodes)
  PROVE  Preset!LoadParams(node) \in Preset!ParamValues
<1>1. CASE node \in {Absent, Bad}
  BY <1>1, NoParams DEF Preset!LoadParams
<1>2. CASE node \notin {Absent, Bad}
  <2>1. PICK S \in SUBSET Keys : node \in [S -> {Bad} \cup Amounts]
    BY <1>2 DEF Preset!Maybe, Preset!ParamNodes
  <2>2. Preset!GoodParams(node) \in SUBSET Params
    BY DEF Preset!GoodParams
  <2>3. ASSUME NEW id \in Preset!GoodParams(node) PROVE Preset!Clamped(node[id]) \in 0 .. Top
    <3>1. node[id] \in Int
      BY <2>1, <2>3, Numbers DEF Preset!GoodParams
    <3> QED
      BY <3>1, ClampedIn
  <2>4. Preset!LoadParams(node) = [id \in Preset!GoodParams(node) |-> Preset!Clamped(node[id])]
    BY <1>2 DEF Preset!LoadParams
  <2>5. Preset!LoadParams(node) \in [Preset!GoodParams(node) -> 0 .. Top]
    BY <2>3, <2>4
  <2> QED
    BY <2>2, <2>5 DEF Preset!ParamValues
<1> QED
  BY <1>1, <1>2

\* Parameters in their ranges are loaded as they are.
LEMMA KeepsParams ==
  ASSUME NEW v \in Preset!ParamValues
  PROVE  /\ v \notin {Absent, Bad} /\ Preset!ParamsAreFine(v) /\ Preset!LoadParams(v) = v
         /\ \A id \in Preset!GoodParams(v) : v[id] = Preset!Clamped(v[id])
<1>1. PICK S \in SUBSET Params : v \in [S -> 0 .. Top]
  BY DEF Preset!ParamValues
<1>2. v \notin {Absent, Bad}
  BY NodesOfValues, NoValues DEF Preset!IsNoValue
<1>3. ASSUME NEW id \in S PROVE id \in Params /\ v[id] # Bad /\ v[id] = Preset!Clamped(v[id])
  <2>1. v[id] \in 0 .. Top /\ v[id] \in Int
    BY <1>1, <1>3, Numbers
  <2>2. v[id] # Bad
    BY <2>1, NoValues DEF Preset!IsNoValue
  <2>3. Preset!Clamped(v[id]) = v[id]
    BY <2>1, ClampedStays
  <2> QED
    BY <1>3, <2>2, <2>3
<1>4. DOMAIN v = S /\ v = [id \in S |-> v[id]]
  BY <1>1
<1>5. Preset!GoodParams(v) = S
  BY <1>3, <1>4 DEF Preset!GoodParams
<1>6. Preset!ParamsAreFine(v)
  BY <1>2, <1>4, <1>5 DEF Preset!ParamsAreFine
<1>7. Preset!LoadParams(v) = [id \in S |-> Preset!Clamped(v[id])]
  BY <1>2, <1>5 DEF Preset!LoadParams
<1>8. Preset!LoadParams(v) = v
  BY <1>3, <1>4, <1>7
<1> QED
  BY <1>2, <1>3, <1>5, <1>6, <1>8

(* Slots and chains *)

LEMMA LoadsSlot ==
  ASSUME NEW node \in Preset!SlotObjects, node.module # Bad, NEW base \in Preset!Paths
  PROVE  Preset!LoadSlot(node, base) \in Preset!SlotDefs
<1>1. /\ node.module \in Preset!Ids /\ node.file \in Preset!Maybe(Preset!Paths) /\ node.params \in Preset!Maybe(Preset!ParamNodes)
      /\ node.bypass \in Preset!Maybe(BOOLEAN) /\ node.mix \in Preset!Maybe(Amounts)
  BY DEF Preset!SlotObjects
<1>2. Preset!PathOf(node, base) \in Preset!Paths
  <2>1. << >> \in Preset!Paths
    BY DEF Preset!Paths
  <2>2. Preset!Given(node.file, << >>) \in Preset!Paths
    BY <1>1, <2>1, GivenIn
  <2> QED
    BY <2>1, <2>2, UnderIsPath DEF Preset!PathOf
<1>3. Preset!LoadParams(node.params) \in Preset!ParamValues /\ Preset!LoadParams(Absent) \in Preset!ParamValues
  BY <1>1, LoadsParams DEF Preset!Maybe
<1>4. Preset!Given(node.bypass, FALSE) \in BOOLEAN
  BY <1>1, GivenIn
<1>5. Preset!Clamped(Preset!Given(node.mix, Top)) \in 0 .. Top
  <2>1. Top \in Amounts
    BY Numbers
  <2>2. Preset!Given(node.mix, Top) \in Amounts
    BY <1>1, <2>1, GivenIn
  <2> QED
    BY <2>2, ClampedIn, Numbers
<1>6. Top \in 0 .. Top
  BY Numbers
<1> QED
  BY <1>1, <1>2, <1>3, <1>4, <1>5, <1>6 DEF Preset!LoadSlot, Preset!SlotDefs

LEMMA SlotFields ==
  ASSUME NEW d \in Preset!SlotDefs
  PROVE  /\ d.module \in Preset!Ids /\ d.file \in Preset!Paths /\ d.params \in Preset!ParamValues
         /\ d.bypass \in BOOLEAN /\ d.mix \in 0 .. Top
         /\ \A file : [d EXCEPT !.file = file] =
              [module |-> d.module, file |-> file, params |-> d.params, bypass |-> d.bypass,
               mix |-> d.mix]
BY DEF Preset!SlotDefs

LEMMA SavesSlot ==
  ASSUME NEW d \in Preset!SlotDefs
  PROVE  /\ Preset!SaveSlot(d) \in Preset!SlotObjects
         /\ Preset!SaveSlot(d) = [module |-> d.module, file |-> IF d.file = << >> THEN Absent ELSE d.file,
                           params |-> d.params, bypass |-> d.bypass, mix |-> d.mix]
<1>1. Preset!SaveSlot(d) = [module |-> d.module, file |-> IF d.file = << >> THEN Absent ELSE d.file,
                     params |-> d.params, bypass |-> d.bypass, mix |-> d.mix]
  BY SlotFields DEF Preset!SaveSlot
<1>2. d.params \in Preset!ParamNodes
  BY SlotFields, NodesOfValues
<1>3. d.mix \in Amounts
  BY SlotFields, Numbers
<1>4. Preset!SaveSlot(d) \in Preset!SlotObjects
  BY <1>1, <1>2, <1>3, SlotFields DEF Preset!SlotObjects, Preset!Maybe
<1> QED
  BY <1>1, <1>4

\* A slot that is loaded again: its path may have become one under the directory.
Moved(d, base) ==
  [d EXCEPT !.file = IF d.file = << >> THEN << >> ELSE Preset!Under(base, d.file)]

LEMMA ReloadsSlot ==
  ASSUME NEW d \in Preset!SlotDefs, d.module \in Registry, NEW base \in Preset!Paths
  PROVE  /\ Preset!LoadSlot(Preset!SaveSlot(d), base) = Moved(d, base)
         /\ Preset!SlotIsFine(Preset!SaveSlot(d)) /\ Preset!SaveSlot(d).module # NoName
         /\ ~Preset!Clamps(Preset!SaveSlot(d))
<1>1. PICK node : node = Preset!SaveSlot(d)
  OBVIOUS
<1>2. /\ node \in Preset!SlotObjects /\ node.module = d.module /\ node.params = d.params
      /\ node.bypass = d.bypass /\ node.mix = d.mix
      /\ node.file = IF d.file = << >> THEN Absent ELSE d.file
  BY <1>1, SavesSlot
<1>3. node # Bad /\ node.module # Bad
  BY <1>2, SlotFields, NoValues DEF Preset!IsNoValue
<1>4. d.file \notin {Absent, Bad}
  BY SlotFields, NoValues DEF Preset!IsNoValue
<1>5. node.file # Bad /\ Preset!Given(node.file, << >>) = d.file
  BY <1>2, <1>4, NoValues, GivenIs
<1>6. Preset!PathOf(node, base) = IF d.file = << >> THEN << >> ELSE Preset!Under(base, d.file)
  BY <1>5 DEF Preset!PathOf
<1>7. Preset!ParamsAreFine(node.params) /\ Preset!LoadParams(node.params) = d.params
  BY <1>2, SlotFields, KeepsParams
<1>8. node.bypass \notin {Absent, Bad} /\ Preset!Given(node.bypass, FALSE) = d.bypass
  <2>1. d.bypass \notin {Absent, Bad}
    BY SlotFields, NoValues DEF Preset!IsNoValue
  <2> QED
    BY <1>2, <2>1, GivenIs
<1>9. node.mix \notin {Absent, Bad} /\ Preset!Clamped(Preset!Given(node.mix, Top)) = d.mix /\ Preset!Clamped(node.mix) = node.mix
  <2>1. d.mix \in Int /\ d.mix \in 0 .. Top
    BY SlotFields, Numbers
  <2>2. d.mix \notin {Absent, Bad}
    BY <2>1, NoValues DEF Preset!IsNoValue
  <2> QED
    BY <1>2, <2>1, <2>2, GivenIs, ClampedStays
<1>10. Preset!LoadSlot(node, base) =
         [module |-> d.module, file |-> IF d.file = << >> THEN << >> ELSE Preset!Under(base, d.file),
          params |-> d.params, bypass |-> d.bypass, mix |-> d.mix]
  BY <1>2, <1>6, <1>7, <1>8, <1>9 DEF Preset!LoadSlot
<1>11. Preset!LoadSlot(node, base) = Moved(d, base)
  BY <1>10, SlotFields DEF Moved
<1>12. Preset!SlotIsFine(node)
  BY <1>2, <1>3, <1>5, <1>7, <1>8, <1>9 DEF Preset!SlotIsFine, Preset!IsSlot
<1>13. ~Preset!Clamps(node)
  BY <1>2, <1>9, SlotFields, KeepsParams DEF Preset!Clamps
<1>14. node.module # NoName
  BY <1>2, TextFacts
<1> QED
  BY <1>1, <1>11, <1>12, <1>13, <1>14

LEMMA LoadsChain ==
  ASSUME NEW nodes \in Preset!Slots, NEW base \in Preset!Paths
  PROVE  Preset!LoadChain(nodes, base) \in Seq(Preset!SlotDefs)
<1>1. nodes \in Seq({Bad} \cup Preset!SlotObjects)
  BY DEF Preset!Slots
<1> DEFINE Good == {node \in Preset!SlotObjects : node.module # Bad}
<1>2. ASSUME NEW i \in DOMAIN nodes, i \in Preset!SlotsIn(nodes) PROVE nodes[i] \in Good
  BY <1>1, <1>2 DEF Preset!SlotsIn, Preset!IsSlot
<1>3. PICK kept : kept = Preset!Selected(nodes, Preset!SlotsIn(nodes))
  OBVIOUS
<1>4. kept \in Seq(Good)
  <2> HIDE DEF Good
  <2> QED
    BY <1>1, <1>2, <1>3, SelectedIn
<1>5. ASSUME NEW i \in DOMAIN kept PROVE Preset!LoadSlot(kept[i], base) \in Preset!SlotDefs
  <2>1. kept[i] \in Good
    <3> HIDE DEF Good
    <3> QED
      BY <1>4, <1>5
  <2> QED
    BY <2>1, LoadsSlot
<1>6. Preset!LoadChain(nodes, base) = [i \in DOMAIN kept |-> Preset!LoadSlot(kept[i], base)]
  BY <1>3 DEF Preset!LoadChain
<1>7. DOMAIN kept = 1 .. Len(kept) /\ Len(kept) \in Nat
  <2> HIDE DEF Good
  <2> QED
    BY <1>4
<1> QED
  BY <1>5, <1>6, <1>7

Saved(chain) == [i \in DOMAIN chain |-> Preset!SaveSlot(chain[i])]

LEMMA SavesChain ==
  ASSUME NEW chain \in Seq(Preset!SlotDefs)
  PROVE  Saved(chain) \in Seq(Preset!SlotObjects) /\ Saved(chain) \in Preset!Slots /\ Len(Saved(chain)) = Len(chain)
<1>1. DOMAIN chain = 1 .. Len(chain) /\ Len(chain) \in Nat
  OBVIOUS
<1>2. ASSUME NEW i \in DOMAIN chain PROVE Preset!SaveSlot(chain[i]) \in Preset!SlotObjects
  <2>1. chain[i] \in Preset!SlotDefs
    BY <1>2
  <2> QED
    BY <2>1, SavesSlot
<1>3. Saved(chain) \in Seq(Preset!SlotObjects) /\ Len(Saved(chain)) = Len(chain)
  BY <1>1, <1>2 DEF Saved
<1> QED
  BY <1>3 DEF Preset!Slots

LEMMA ReloadsChain ==
  ASSUME NEW chain \in Seq(Preset!SlotDefs), \A i \in DOMAIN chain : chain[i].module \in Registry,
         NEW base \in Preset!Paths
  PROVE  /\ Preset!LoadChain(Saved(chain), base) = [i \in DOMAIN chain |-> Moved(chain[i], base)]
         /\ \A i \in DOMAIN Saved(chain) : Preset!SlotIsFine(Saved(chain)[i]) /\ ~Preset!Clamps(Saved(chain)[i])
<1>1. PICK nodes : nodes = Saved(chain)
  OBVIOUS
<1>2. nodes \in Seq(Preset!SlotObjects) /\ DOMAIN nodes = DOMAIN chain
  <2>1. Saved(chain) \in Seq(Preset!SlotObjects)
    BY SavesChain
  <2> QED
    BY <1>1, <2>1 DEF Saved
<1>3. ASSUME NEW i \in DOMAIN chain
      PROVE  /\ Preset!LoadSlot(nodes[i], base) = Moved(chain[i], base) /\ Preset!SlotIsFine(nodes[i])
             /\ nodes[i].module # NoName /\ ~Preset!Clamps(nodes[i])
  <2>1. chain[i] \in Preset!SlotDefs /\ chain[i].module \in Registry /\ nodes[i] = Preset!SaveSlot(chain[i])
    BY <1>1, <1>3 DEF Saved
  <2> QED
    BY <2>1, ReloadsSlot
<1>4. DOMAIN nodes \subseteq Preset!SlotsIn(nodes)
  BY <1>2, <1>3 DEF Preset!SlotsIn, Preset!SlotIsFine
<1>5. Preset!Selected(nodes, Preset!SlotsIn(nodes)) = nodes
  BY <1>2, <1>4, SelectedAll
<1>6. Preset!LoadChain(nodes, base) = [i \in DOMAIN chain |-> Moved(chain[i], base)]
  <2>1. Preset!LoadChain(nodes, base) = [i \in DOMAIN nodes |-> Preset!LoadSlot(nodes[i], base)]
    BY <1>5 DEF Preset!LoadChain
  <2> QED
    BY <1>2, <1>3, <2>1
<1> QED
  BY <1>1, <1>2, <1>3, <1>6

(* Overrides and scenes *)

LEMMA LoadsOverride ==
  ASSUME NEW o \in Preset!OverrideObjects, o.module \in Registry
  PROVE  Preset!LoadOverride(o) \in Preset!OverrideDefs
<1>1. o.params \in Preset!Maybe(Preset!ParamNodes) /\ o.bypass \in Preset!Maybe(BOOLEAN)
  BY DEF Preset!OverrideObjects
<1>2. Preset!LoadParams(o.params) \in Preset!ParamValues /\ Preset!Given(o.bypass, FALSE) \in BOOLEAN
  BY <1>1, LoadsParams, GivenIn
<1> QED
  BY <1>2 DEF Preset!LoadOverride, Preset!OverrideDefs

LEMMA KeepsOverride ==
  ASSUME NEW o \in Preset!OverrideDefs
  PROVE  /\ Preset!LoadOverride(o) = o /\ Preset!OverrideIsFine(o) /\ o \in Preset!OverrideObjects
         /\ o # Bad /\ o.module # Bad /\ o.module \in Registry
<1>1. /\ o.module \in Registry /\ o.params \in Preset!ParamValues /\ o.bypass \in BOOLEAN
      /\ o = [module |-> o.module, params |-> o.params, bypass |-> o.bypass]
  BY DEF Preset!OverrideDefs
<1>2. o.module \in Preset!Ids /\ o.params \in Preset!ParamNodes
  BY <1>1, TextFacts, NodesOfValues DEF Preset!Ids
<1>3. o \in Preset!OverrideObjects
  BY <1>1, <1>2 DEF Preset!OverrideObjects, Preset!Maybe
<1>4. o # Bad /\ o.module # Bad
  BY <1>2, <1>3, NoValues DEF Preset!IsNoValue
<1>5. Preset!LoadParams(o.params) = o.params /\ Preset!ParamsAreFine(o.params)
  BY <1>1, KeepsParams
<1>6. Preset!Given(o.bypass, FALSE) = o.bypass
  <2>1. o.bypass \notin {Absent, Bad}
    BY <1>1, NoValues DEF Preset!IsNoValue
  <2> QED
    BY <2>1, GivenIs
<1>7. Preset!LoadOverride(o) = o
  BY <1>1, <1>5, <1>6 DEF Preset!LoadOverride
<1> QED
  BY <1>1, <1>3, <1>4, <1>5, <1>7 DEF Preset!OverrideIsFine

\* A name is cut to its limit, and once.
CutNames == {name \in Preset!Names : Len(name) <= NameLimit}
LEMMA CutsName ==
  ASSUME NEW name \in Preset!Names
  PROVE  /\ Preset!Resized(name) \in CutNames
         /\ name \in CutNames => Preset!Resized(name) = name
<1>1. name \in Seq(0 .. 3) /\ Len(name) \in Nat /\ NameLimit \in Nat
  BY Numbers DEF Preset!Names
<1>2. CASE Len(name) > NameLimit
  <2>1. SubSeq(name, 1, NameLimit) \in Seq(0 .. 3) /\ Len(SubSeq(name, 1, NameLimit)) = NameLimit
    BY <1>1, <1>2
  <2> QED
    BY <1>1, <1>2, <2>1 DEF Preset!Resized, CutNames, Preset!Names
<1>3. CASE ~(Len(name) > NameLimit)
  BY <1>1, <1>3 DEF Preset!Resized, CutNames
<1> QED
  BY <1>2, <1>3

LEMMA LoadsScene ==
  ASSUME NEW node \in Preset!SceneObjects
  PROVE  Preset!LoadScene(node) \in Preset!SceneDefs
<1> DEFINE Readable == {o \in Preset!OverrideObjects : o.module # Bad}
           Known == {o \in Preset!OverrideObjects : o.module \in Registry}
<1>1. node.name \in Preset!Maybe(Preset!WholeNames) /\ node.overrides \in Preset!Maybe(Preset!Overrides)
  BY DEF Preset!SceneObjects
<1>2. PICK nodes : nodes = Preset!Given(node.overrides, << >>)
  OBVIOUS
<1>3. nodes \in Seq({Bad} \cup Preset!OverrideObjects)
  <2>1. << >> \in Preset!Overrides
    BY DEF Preset!Overrides
  <2>2. nodes \in Preset!Overrides
    BY <1>1, <1>2, <2>1, GivenIn
  <2> QED
    BY <2>2 DEF Preset!Overrides
<1>4. PICK found : found = Preset!OverridesOf(node)
  OBVIOUS
<1>5. found \in Seq(Readable)
  <2>1. PICK P : P = {i \in DOMAIN nodes : nodes[i] # Bad /\ nodes[i].module # Bad}
    OBVIOUS
  <2>2. ASSUME NEW i \in DOMAIN nodes, i \in P PROVE nodes[i] \in Readable
    BY <1>3, <2>1, <2>2
  <2>3. found = Preset!Selected(nodes, P)
    BY <1>2, <1>4, <2>1 DEF Preset!OverridesOf
  <2> HIDE DEF Readable
  <2> QED
    BY <1>3, <2>2, <2>3, SelectedIn
<1>6. PICK P : P = {i \in DOMAIN found : found[i].module \in Registry}
  OBVIOUS
<1>7. PICK known : known = Preset!Selected(found, P)
  OBVIOUS
<1>8. known \in Seq(Known)
  <2>1. ASSUME NEW i \in DOMAIN found, i \in P PROVE found[i] \in Known
    <3>1. found[i] \in Readable
      <4> HIDE DEF Readable
      <4> QED
        BY <1>5, <2>1
    <3> QED
      BY <1>6, <2>1, <3>1
  <2> HIDE DEF Readable, Known
  <2> QED
    BY <1>5, <1>7, <2>1, SelectedIn
<1>9. DOMAIN known = 1 .. Len(known) /\ Len(known) \in Nat /\ \A i \in DOMAIN known : known[i] \in Known
  <2> HIDE DEF Known
  <2> QED
    BY <1>8
<1>10. [i \in DOMAIN known |-> Preset!LoadOverride(known[i])] \in Seq(Preset!OverrideDefs)
  <2>1. ASSUME NEW i \in DOMAIN known PROVE Preset!LoadOverride(known[i]) \in Preset!OverrideDefs
    BY <1>9, <2>1, LoadsOverride
  <2> QED
    BY <1>9, <2>1
<1>11. Preset!Given(node.name, << >>) \in Preset!Names
  <2>1. << >> \in Preset!Names
    BY DEF Preset!Names
  <2> QED
    BY <1>1, <2>1, GivenIn DEF Preset!WholeNames, Preset!Maybe
<1>12. Preset!Resized(Preset!Given(node.name, << >>)) \in CutNames
  BY <1>11, CutsName
<1>13. Preset!LoadScene(node) =
         [name |-> Preset!Resized(Preset!Given(node.name, << >>)),
          overrides |-> [i \in DOMAIN known |-> Preset!LoadOverride(known[i])]]
  BY <1>4, <1>6, <1>7 DEF Preset!LoadScene
<1> QED
  BY <1>10, <1>12, <1>13 DEF Preset!SceneDefs, CutNames

LEMMA KeepsScene ==
  ASSUME NEW d \in Preset!SceneDefs, Preset!IsWhole(d.name)
  PROVE  /\ Preset!LoadScene(d) = d /\ d \in Preset!SceneObjects /\ d # Bad
         /\ \A i \in DOMAIN Preset!OverridesOf(d) : Preset!OverrideIsFine(Preset!OverridesOf(d)[i])
<1>1. /\ d.name \in CutNames /\ d.overrides \in Seq(Preset!OverrideDefs)
      /\ d = [name |-> d.name, overrides |-> d.overrides]
  BY DEF Preset!SceneDefs, CutNames
<1>2. PICK nodes : nodes = d.overrides
  OBVIOUS
<1>3. /\ nodes \in Seq(Preset!OverrideDefs) /\ DOMAIN nodes = 1 .. Len(nodes) /\ Len(nodes) \in Nat
      /\ \A i \in DOMAIN nodes : nodes[i] \in Preset!OverrideDefs
  BY <1>1, <1>2
<1>4. \A i \in DOMAIN nodes :
        /\ Preset!LoadOverride(nodes[i]) = nodes[i] /\ Preset!OverrideIsFine(nodes[i])
        /\ nodes[i] \in Preset!OverrideObjects
        /\ nodes[i] # Bad /\ nodes[i].module # Bad /\ nodes[i].module \in Registry
  BY <1>3, KeepsOverride
<1>5. nodes \in Preset!Overrides
  BY <1>3, <1>4 DEF Preset!Overrides
<1>6. d \in Preset!SceneObjects
  BY <1>1, <1>2, <1>5 DEF Preset!SceneObjects, Preset!Maybe, Preset!WholeNames, CutNames
<1>7. d # Bad /\ nodes \notin {Absent, Bad}
  BY <1>5, <1>6, NoValues DEF Preset!IsNoValue
<1>8. Preset!OverridesOf(d) = nodes
  <2>1. Preset!Given(d.overrides, << >>) = nodes
    BY <1>2, <1>7, GivenIs
  <2>2. PICK P : P = {i \in DOMAIN nodes : nodes[i] # Bad /\ nodes[i].module # Bad}
    OBVIOUS
  <2>3. DOMAIN nodes \subseteq P
    BY <1>4, <2>2
  <2>4. Preset!Selected(nodes, P) = nodes
    BY <1>3, <2>3, SelectedAll
  <2> QED
    BY <2>1, <2>2, <2>4 DEF Preset!OverridesOf
<1>9. PICK P : P = {i \in DOMAIN nodes : nodes[i].module \in Registry}
  OBVIOUS
<1>10. Preset!Selected(nodes, P) = nodes
  <2>1. DOMAIN nodes \subseteq P
    BY <1>4, <1>9
  <2> QED
    BY <1>3, <2>1, SelectedAll
<1>11. Preset!Resized(Preset!Given(d.name, << >>)) = d.name
  <2>1. d.name \in Preset!Names
    BY <1>1 DEF CutNames
  <2>2. d.name \notin {Absent, Bad}
    BY <2>1, NoValues DEF Preset!IsNoValue
  <2> QED
    BY <1>1, <2>1, <2>2, GivenIs, CutsName
<1>12. Preset!LoadScene(d) = [name |-> d.name, overrides |-> [i \in DOMAIN nodes |-> Preset!LoadOverride(nodes[i])]]
  BY <1>8, <1>9, <1>10, <1>11 DEF Preset!LoadScene
<1>13. [i \in DOMAIN nodes |-> Preset!LoadOverride(nodes[i])] = nodes
  BY <1>3, <1>4
<1> QED
  BY <1>1, <1>2, <1>4, <1>6, <1>7, <1>8, <1>12, <1>13

SceneLists == {scenes \in Seq(Preset!SceneDefs) : Len(scenes) <= MaxScenes}

LEMMA FirstScenes ==
  ASSUME NEW T, NEW nodes \in Seq(T)
  PROVE  LET some == SubSeq(nodes, 1, IF Len(nodes) > MaxScenes THEN MaxScenes ELSE Len(nodes))
         IN /\ some \in Seq(T) /\ Len(some) <= MaxScenes
            /\ Len(nodes) <= MaxScenes => some = nodes
<1>1. PICK m \in 0 .. Len(nodes) : /\ m = IF Len(nodes) > MaxScenes THEN MaxScenes ELSE Len(nodes)
                                   /\ m <= MaxScenes
  BY Numbers
<1>2. SubSeq(nodes, 1, m) \in Seq(T) /\ Len(SubSeq(nodes, 1, m)) = m
  BY <1>1
<1>3. ASSUME m = Len(nodes) PROVE SubSeq(nodes, 1, m) = nodes
  BY <1>3
<1>4. Len(nodes) <= MaxScenes => m = Len(nodes)
  BY <1>1, Numbers
<1> QED
  BY <1>1, <1>2, <1>3, <1>4

LEMMA LoadsScenes ==
  ASSUME NEW nodes \in Preset!Maybe(Preset!Scenes)
  PROVE  Preset!LoadScenes(nodes) \in SceneLists
<1>1. CASE nodes \in {Absent, Bad}
  <2>1. << >> \in SceneLists
    BY Numbers DEF SceneLists
  <2> QED
    BY <1>1, <2>1 DEF Preset!LoadScenes
<1>2. CASE nodes \notin {Absent, Bad}
  <2>1. nodes \in Seq({Bad} \cup Preset!SceneObjects)
    BY <1>2 DEF Preset!Maybe, Preset!Scenes
  <2>2. PICK some : some = SubSeq(nodes, 1, IF Len(nodes) > MaxScenes THEN MaxScenes ELSE Len(nodes))
    OBVIOUS
  <2>3. some \in Seq({Bad} \cup Preset!SceneObjects) /\ Len(some) <= MaxScenes
    BY <2>1, <2>2, FirstScenes
  <2>4. PICK P : P = {i \in DOMAIN some : some[i] # Bad}
    OBVIOUS
  <2>5. PICK found : found = Preset!Selected(some, P)
    OBVIOUS
  <2>6. found \in Seq(Preset!SceneObjects) /\ Len(found) <= Len(some)
    <3>1. ASSUME NEW i \in DOMAIN some, i \in P PROVE some[i] \in Preset!SceneObjects
      BY <2>3, <2>4, <3>1
    <3> QED
      BY <2>3, <2>5, <3>1, SelectedIn
  <2>7. Preset!ScenesRead(nodes) = found
    BY <2>2, <2>4, <2>5 DEF Preset!ScenesRead
  <2>8. Preset!LoadScenes(nodes) = [i \in DOMAIN found |-> Preset!LoadScene(found[i])]
    BY <1>2, <2>7 DEF Preset!LoadScenes
  <2>9. ASSUME NEW i \in DOMAIN found PROVE Preset!LoadScene(found[i]) \in Preset!SceneDefs
    BY <2>6, <2>9, LoadsScene
  <2>10. /\ DOMAIN found = 1 .. Len(found) /\ Len(found) \in Nat /\ Len(found) <= MaxScenes
    BY <2>3, <2>6, Numbers
  <2>11. [i \in DOMAIN found |-> Preset!LoadScene(found[i])] \in Seq(Preset!SceneDefs)
         /\ Len([i \in DOMAIN found |-> Preset!LoadScene(found[i])]) = Len(found)
    BY <2>9, <2>10
  <2> QED
    BY <2>8, <2>10, <2>11 DEF SceneLists
<1> QED
  BY <1>1, <1>2

LEMMA KeepsScenes ==
  ASSUME NEW scenes \in SceneLists, \A i \in DOMAIN scenes : Preset!IsWhole(scenes[i].name)
  PROVE  /\ Preset!LoadScenes(scenes) = scenes /\ Preset!ScenesAreFine(scenes)
         /\ scenes \notin {Absent, Bad} /\ scenes \in Preset!Scenes
<1>1. /\ scenes \in Seq(Preset!SceneDefs) /\ Len(scenes) <= MaxScenes
      /\ DOMAIN scenes = 1 .. Len(scenes) /\ Len(scenes) \in Nat
      /\ \A i \in DOMAIN scenes : scenes[i] \in Preset!SceneDefs
  BY DEF SceneLists
<1>2. \A i \in DOMAIN scenes :
        /\ Preset!LoadScene(scenes[i]) = scenes[i] /\ scenes[i] \in Preset!SceneObjects /\ scenes[i] # Bad
        /\ \A j \in DOMAIN Preset!OverridesOf(scenes[i]) : Preset!OverrideIsFine(Preset!OverridesOf(scenes[i])[j])
  BY <1>1, KeepsScene
<1>3. scenes \in Preset!Scenes
  BY <1>1, <1>2 DEF Preset!Scenes
<1>4. scenes \notin {Absent, Bad}
  BY <1>3, NoValues DEF Preset!IsNoValue
<1>5. Preset!ScenesRead(scenes) = scenes
  <2>1. SubSeq(scenes, 1, IF Len(scenes) > MaxScenes THEN MaxScenes ELSE Len(scenes)) = scenes
    BY <1>1, FirstScenes
  <2>2. PICK P : P = {i \in DOMAIN scenes : scenes[i] # Bad}
    OBVIOUS
  <2>3. DOMAIN scenes \subseteq P
    BY <1>2, <2>2
  <2>4. Preset!Selected(scenes, P) = scenes
    BY <1>1, <2>3, SelectedAll
  <2> QED
    BY <2>1, <2>2, <2>4 DEF Preset!ScenesRead
<1>6. Preset!LoadScenes(scenes) = [i \in DOMAIN scenes |-> Preset!LoadScene(scenes[i])]
  BY <1>4, <1>5 DEF Preset!LoadScenes
<1>7. Preset!LoadScenes(scenes) = scenes
  BY <1>1, <1>2, <1>6
<1>8. Preset!ScenesAreFine(scenes)
  BY <1>2, <1>4, <1>5 DEF Preset!ScenesAreFine
<1> QED
  BY <1>3, <1>4, <1>7, <1>8

(* Presets *)

Results == {Preset!NoPreset} \cup [ok : {TRUE}, preset : Preset!PresetDefs]

LEMMA LoadsPreset ==
  ASSUME NEW d \in Preset!Documents, NEW mode, NEW base \in Preset!Paths, NEW st
  PROVE  Preset!LoadPreset(d, mode, base, st) \in Results
<1>1. CASE Preset!LoadPreset(d, mode, base, st) = [ok |-> FALSE]
  BY <1>1 DEF Results, Preset!NoPreset
<1>2. CASE Preset!LoadPreset(d, mode, base, st) # [ok |-> FALSE]
  <2>1. /\ ~Preset!Unreadable(d) /\ d.chain # Bad
        /\ Preset!LoadPreset(d, mode, base, st) =
             [ok |-> TRUE,
              preset |-> [schema |-> CurrentSchema, name |-> Preset!Given(d.name, "Untitled"),
                          chain  |-> Preset!LoadChain(d.chain, base), scenes |-> Preset!LoadScenes(d.scenes)]]
    BY <1>2 DEF Preset!LoadPreset
  <2>2. d \in Preset!DocObjects
    BY <2>1 DEF Preset!Unreadable, Preset!Documents
  <2>3. d.name \in Preset!Maybe(Texts) /\ d.chain \in Preset!Slots /\ d.scenes \in Preset!Maybe(Preset!Scenes)
    BY <2>1, <2>2 DEF Preset!DocObjects
  <2>4. Preset!Given(d.name, "Untitled") \in Texts
    BY <2>3, GivenIn, TextFacts
  <2>5. Preset!LoadChain(d.chain, base) \in Seq(Preset!SlotDefs) /\ Preset!LoadScenes(d.scenes) \in SceneLists
    BY <2>3, LoadsChain, LoadsScenes
  <2>6. [schema |-> CurrentSchema, name |-> Preset!Given(d.name, "Untitled"),
         chain  |-> Preset!LoadChain(d.chain, base), scenes |-> Preset!LoadScenes(d.scenes)] \in Preset!PresetDefs
    BY <2>4, <2>5 DEF Preset!PresetDefs, SceneLists
  <2> QED
    BY <2>1, <2>6 DEF Results
<1> QED
  BY <1>1, <1>2

LEMMA PresetFields ==
  ASSUME NEW p \in Preset!PresetDefs
  PROVE  /\ p.schema = CurrentSchema /\ p.name \in Texts /\ p.chain \in Seq(Preset!SlotDefs)
         /\ p.scenes \in SceneLists
         /\ \A chain : [p EXCEPT !.chain = chain] =
              [schema |-> CurrentSchema, name |-> p.name, chain |-> chain, scenes |-> p.scenes]
         /\ p = [schema |-> CurrentSchema, name |-> p.name, chain |-> p.chain, scenes |-> p.scenes]
BY DEF Preset!PresetDefs, SceneLists

LEMMA SavesPreset ==
  ASSUME NEW p \in Preset!PresetDefs, Preset!CanDump(p)
  PROVE  /\ Preset!SavePreset(p) \in Preset!DocObjects
         /\ Preset!SavePreset(p) = [schema |-> CurrentSchema, name |-> p.name, chain |-> Saved(p.chain),
                             scenes |-> IF p.scenes = << >> THEN Absent ELSE p.scenes]
<1>1. Preset!SavePreset(p) = [schema |-> CurrentSchema, name |-> p.name, chain |-> Saved(p.chain),
                       scenes |-> IF p.scenes = << >> THEN Absent ELSE p.scenes]
  BY DEF Preset!SavePreset, Saved
<1>2. Saved(p.chain) \in Preset!Slots /\ p.scenes \in Preset!Scenes
  BY PresetFields, SavesChain, KeepsScenes DEF Preset!CanDump
<1>3. Preset!SavePreset(p) \in Preset!DocObjects
  BY <1>1, <1>2, PresetFields, Numbers DEF Preset!DocObjects, Preset!Maybe
<1> QED
  BY <1>1, <1>3

Loaded(p, base) == [p EXCEPT !.chain = [i \in DOMAIN p.chain |-> Moved(p.chain[i], base)]]

\* What was loaded once is stored and loaded again, and only its paths may have changed.
LEMMA ReloadsPreset ==
  ASSUME NEW p \in Preset!PresetDefs, Preset!AllKnown(p), Preset!CanDump(p),
         NEW base \in Preset!Paths, NEW st \in Table
  PROVE  /\ Preset!LoadPreset(Preset!SavePreset(p), Preset!Strict, base, st) = [ok |-> TRUE, preset |-> Loaded(p, base)]
         /\ \A i \in DOMAIN Preset!SavePreset(p).chain : ~Preset!Clamps(Preset!SavePreset(p).chain[i])
<1>1. PICK d : d = Preset!SavePreset(p)
  OBVIOUS
<1>2. /\ d \in Preset!DocObjects /\ d.schema = CurrentSchema /\ d.name = p.name
      /\ d.chain = Saved(p.chain) /\ d.scenes = IF p.scenes = << >> THEN Absent ELSE p.scenes
  BY <1>1, SavesPreset
<1>3. \A i \in DOMAIN p.chain : p.chain[i].module \in Registry
  BY DEF Preset!AllKnown
<1>4. /\ Preset!LoadChain(d.chain, base) = [i \in DOMAIN p.chain |-> Moved(p.chain[i], base)]
      /\ \A i \in DOMAIN d.chain : Preset!SlotIsFine(d.chain[i]) /\ ~Preset!Clamps(d.chain[i])
  BY <1>2, <1>3, PresetFields, ReloadsChain
<1>5. Preset!LoadScenes(d.scenes) = p.scenes /\ Preset!ScenesAreFine(d.scenes)
  <2>1. CASE p.scenes = << >>
    BY <1>2, <2>1 DEF Preset!LoadScenes, Preset!ScenesAreFine
  <2>2. CASE p.scenes # << >>
    BY <1>2, <2>2, PresetFields, KeepsScenes DEF Preset!CanDump
  <2> QED
    BY <2>1, <2>2
<1>6. ~Preset!Unreadable(d) /\ d.chain # Bad
  <2>1. d.chain \in Preset!Slots
    BY <1>2, PresetFields, SavesChain
  <2> QED
    BY <1>2, <2>1, NoValues DEF Preset!IsNoValue, Preset!Unreadable
<1>7. d.name \notin {Absent, Bad} /\ Preset!Given(d.name, "Untitled") = p.name
  <2>1. p.name \in Preset!Ids
    BY PresetFields DEF Preset!Ids
  <2>2. p.name \notin {Absent, Bad}
    BY <2>1, NoValues DEF Preset!IsNoValue
  <2> QED
    BY <1>2, <2>2, GivenIs
<1>8. Preset!SchemaIsFine(d, st)
  <2>1. CurrentSchema \notin {Absent, Bad}
    BY NoValues, Numbers DEF Preset!IsNoValue
  <2>2. Preset!SchemaOf(d) = CurrentSchema
    BY <1>2, <2>1, GivenIs DEF Preset!SchemaOf
  <2> QED
    BY <1>2, <2>1, <2>2, CurrentStays, Numbers DEF Preset!SchemaIsFine
<1>9. Preset!LoadPreset(d, Preset!Strict, base, st) =
        [ok |-> TRUE,
         preset |-> [schema |-> CurrentSchema, name |-> Preset!Given(d.name, "Untitled"),
                     chain  |-> Preset!LoadChain(d.chain, base), scenes |-> Preset!LoadScenes(d.scenes)]]
  BY <1>4, <1>5, <1>6, <1>7, <1>8 DEF Preset!LoadPreset
<1>10. Loaded(p, base) = [schema |-> CurrentSchema, name |-> p.name,
                         chain |-> [i \in DOMAIN p.chain |-> Moved(p.chain[i], base)],
                         scenes |-> p.scenes]
  BY PresetFields DEF Loaded
<1> QED
  BY <1>1, <1>4, <1>5, <1>7, <1>9, <1>10

LEMMA FilesAside ==
  ASSUME NEW d \in Preset!SlotDefs, NEW file
  PROVE  [[d EXCEPT !.file = file] EXCEPT !.file = << >>] = [d EXCEPT !.file = << >>]
BY DEF Preset!SlotDefs

LEMMA LoadedIsSame ==
  ASSUME NEW p \in Preset!PresetDefs, NEW base \in Preset!Paths
  PROVE  Preset!Same(Loaded(p, base), p)
<1>1. PICK q : q = Loaded(p, base)
  OBVIOUS
<1>2. /\ q.schema = p.schema /\ q.name = p.name /\ q.scenes = p.scenes
      /\ q.chain = [i \in DOMAIN p.chain |-> Moved(p.chain[i], base)]
  BY <1>1, PresetFields DEF Loaded
<1>3. ASSUME NEW i \in DOMAIN p.chain
      PROVE  [q.chain[i] EXCEPT !.file = << >>] = [p.chain[i] EXCEPT !.file = << >>]
  <2>1. p.chain[i] \in Preset!SlotDefs /\ q.chain[i] = Moved(p.chain[i], base)
    BY <1>2, <1>3, PresetFields
  <2> QED
    BY <2>1, FilesAside DEF Moved
<1>4. Preset!WithoutFiles(q.chain) = Preset!WithoutFiles(p.chain)
  BY <1>2, <1>3 DEF Preset!WithoutFiles
<1> QED
  BY <1>1, <1>2, <1>4 DEF Preset!Same

LEMMA AbsoluteStays ==
  ASSUME NEW p \in Preset!PresetDefs, NEW base \in Preset!Paths, Preset!AllAbsolute(p)
  PROVE  Loaded(p, base) = p
<1>1. ASSUME NEW i \in DOMAIN p.chain PROVE Moved(p.chain[i], base) = p.chain[i]
  <2>1. PICK d \in Preset!SlotDefs : d = p.chain[i]
    BY <1>1, PresetFields
  <2>2. d.file # << >> => Preset!IsAbsolute(d.file)
    BY <1>1, <2>1 DEF Preset!AllAbsolute
  <2>3. Moved(d, base) = [d EXCEPT !.file = d.file]
    BY <2>2 DEF Moved, Preset!Under
  <2>4. [d EXCEPT !.file = d.file] = d
    BY DEF Preset!SlotDefs
  <2> QED
    BY <2>1, <2>3, <2>4
<1>2. p.chain = [i \in DOMAIN p.chain |-> p.chain[i]]
  BY PresetFields
<1>3. [i \in DOMAIN p.chain |-> Moved(p.chain[i], base)] = p.chain
  BY <1>1, <1>2
<1> QED
  BY <1>3, PresetFields DEF Loaded

LEMMA PathOfTwo ==
  ASSUME NEW S, NEW x \in S, NEW y \in S
  PROVE  <<x, y>> \in Seq(S)
OBVIOUS

LEMMA ElsewhereIsPath == Preset!Elsewhere \in Preset!Paths
<1>1. Root \in Texts \cup {Root} /\ "elsewhere" \in Texts \cup {Root}
  BY TextFacts
<1> QED
  BY <1>1, PathOfTwo DEF Preset!Elsewhere, Preset!Paths

\* What is held is stored and loaded back as it is.
LEMMA HeldSurvives ==
  ASSUME held \in Results, steps \in Table
  PROVE  Preset!SavedLoadsBack
<1> SUFFICES ASSUME held.ok, Preset!AllKnown(held.preset), Preset!CanDump(held.preset)
             PROVE  LET stored == Preset!SavePreset(held.preset)
                        again == Preset!LoadPreset(stored, Preset!Strict, Preset!Elsewhere, steps)
                    IN /\ again.ok /\ Preset!Same(again.preset, held.preset)
                       /\ \A i \in DOMAIN stored.chain : ~Preset!Clamps(stored.chain[i])
                       /\ Preset!AllAbsolute(held.preset) => again.preset = held.preset
  BY DEF Preset!SavedLoadsBack
<1>1. PICK p : p = held.preset
  OBVIOUS
<1>2. p \in Preset!PresetDefs /\ Preset!AllKnown(p) /\ Preset!CanDump(p)
  <2>1. held # Preset!NoPreset
    BY DEF Preset!NoPreset
  <2>2. held \in [ok : {TRUE}, preset : Preset!PresetDefs]
    BY <2>1 DEF Results
  <2> QED
    BY <1>1, <2>2
<1>3. /\ Preset!LoadPreset(Preset!SavePreset(p), Preset!Strict, Preset!Elsewhere, steps) = [ok |-> TRUE, preset |-> Loaded(p, Preset!Elsewhere)]
      /\ \A i \in DOMAIN Preset!SavePreset(p).chain : ~Preset!Clamps(Preset!SavePreset(p).chain[i])
  BY <1>2, ElsewhereIsPath, ReloadsPreset
<1>4. Preset!Same(Loaded(p, Preset!Elsewhere), p) /\ (Preset!AllAbsolute(p) => Loaded(p, Preset!Elsewhere) = p)
  BY <1>2, ElsewhereIsPath, LoadedIsSame, AbsoluteStays
<1> QED
  BY <1>1, <1>3, <1>4

(* Packages *)

LEMMA LastIn ==
  ASSUME NEW path \in Preset!Paths, path # << >>
  PROVE  Preset!Last(path) \in Texts \cup {Root}
BY DEF Preset!Paths, Preset!Last

LEMMA LastUnder ==
  ASSUME NEW base \in Preset!Paths, NEW path \in Preset!Paths, path # << >>
  PROVE  Preset!Last(Preset!Under(base, path)) = Preset!Last(path)
<1>1. base \in Seq(Texts \cup {Root}) /\ path \in Seq(Texts \cup {Root}) /\ Len(path) > 0
  BY DEF Preset!Paths
<1>2. Preset!Last(base \o path) = Preset!Last(path)
  BY <1>1 DEF Preset!Last
<1> QED
  BY <1>2 DEF Preset!Under

AssetAt(name) == <<"assets", name>>

LEMMA AssetIsPath ==
  ASSUME NEW name \in Texts \cup {Root}
  PROVE  /\ AssetAt(name) \in Preset!Paths /\ AssetAt(name) # << >> /\ ~Preset!IsAbsolute(AssetAt(name))
         /\ Len(AssetAt(name)) = 2 /\ AssetAt(name)[1] = "assets" /\ AssetAt(name)[2] = name
<1>1. "assets" \in Texts \cup {Root} /\ "assets" # Root
  BY TextFacts
<1>2. AssetAt(name) \in Preset!Paths
  BY <1>1, PathOfTwo DEF AssetAt, Preset!Paths
<1>3. Head(AssetAt(name)) = "assets"
  BY DEF AssetAt
<1> QED
  BY <1>1, <1>2, <1>3 DEF AssetAt, Preset!IsAbsolute

IsJoined(S, base, path, whole) ==
  /\ whole \in Seq(S) /\ Len(whole) = Len(base) + Len(path)
  /\ \A i \in 1 .. Len(base) : whole[i] = base[i]
  /\ \A i \in 1 .. Len(path) : whole[Len(base) + i] = path[i]

LEMMA Joined ==
  ASSUME NEW S, NEW base \in Seq(S), NEW path \in Seq(S), NEW whole, whole = base \o path
  PROVE  IsJoined(S, base, path, whole)
<1>1. Len(base) \in Nat /\ Len(path) \in Nat /\ whole \in Seq(S) /\ Len(whole) = Len(base) + Len(path)
  OBVIOUS
<1>2. ASSUME NEW i \in 1 .. Len(base) PROVE whole[i] = base[i]
  BY <1>2
<1>3. ASSUME NEW i \in 1 .. Len(path) PROVE whole[Len(base) + i] = path[i]
  <2>1. Len(base) + i \in 1 .. Len(base) + Len(path) /\ Len(base) + i > Len(base)
    BY <1>1, <1>3
  <2>2. whole[Len(base) + i] = path[(Len(base) + i) - Len(base)]
    BY <2>1
  <2> QED
    BY <1>1, <1>3, <2>2
<1> QED
  BY <1>1, <1>2, <1>3 DEF IsJoined

LEMMA WithoutLast ==
  ASSUME NEW S, NEW base \in Seq(S), NEW path \in Seq(S), NEW short \in Seq(S),
         Len(path) = 2, Len(short) = 1, short[1] = path[1]
  PROVE  Preset!Front(base \o path) = base \o short /\ Preset!Last(base \o path) = path[2]
<1>0. Len(base) \in Nat
  OBVIOUS
<1>1. PICK whole : whole = base \o path
  OBVIOUS
<1>2. PICK other : other = base \o short
  OBVIOUS
<1>3. /\ whole \in Seq(S) /\ Len(whole) = Len(base) + 2
      /\ \A i \in 1 .. Len(base) : whole[i] = base[i]
      /\ whole[Len(base) + 1] = path[1] /\ whole[Len(base) + 2] = path[2]
  <2>1. IsJoined(S, base, path, whole)
    BY <1>1, Joined, Zenon
  <2> QED
    BY <2>1 DEF IsJoined
<1>4. /\ other \in Seq(S) /\ Len(other) = Len(base) + 1
      /\ \A i \in 1 .. Len(base) : other[i] = base[i]
      /\ other[Len(base) + 1] = short[1]
  <2>1. IsJoined(S, base, short, other)
    BY <1>2, Joined, Zenon
  <2> QED
    BY <2>1 DEF IsJoined
<1>5. PICK m \in Nat : m = Len(base) + 1 /\ m = Len(whole) - 1
  BY <1>0, <1>3
<1>6. PICK front : front = SubSeq(whole, 1, m)
  OBVIOUS
<1>7. /\ front \in Seq(S) /\ Len(front) = m
      /\ \A i \in 1 .. m : front[i] = whole[i]
  BY <1>3, <1>5, <1>6
<1>8. ASSUME NEW i \in 1 .. m PROVE front[i] = other[i]
  <2>1. i \in 1 .. Len(base) \/ i = Len(base) + 1
    BY <1>0, <1>5, <1>8
  <2> QED
    BY <1>3, <1>4, <1>7, <1>8, <2>1
<1>9. front = other
  BY <1>4, <1>5, <1>7, <1>8
<1>10. Preset!Front(whole) = other
  BY <1>5, <1>6, <1>9 DEF Preset!Front
<1>11. Preset!Last(whole) = path[2]
  BY <1>3 DEF Preset!Last
<1> QED
  BY <1>1, <1>2, <1>10, <1>11

LEMMA AssetUnder ==
  ASSUME NEW name \in Texts \cup {Root}
  PROVE  /\ Preset!Front(Preset!Under(Preset!Elsewhere, AssetAt(name))) = Preset!Elsewhere \o <<"assets">>
         /\ Preset!Last(Preset!Under(Preset!Elsewhere, AssetAt(name))) = name
<1>1. Preset!Under(Preset!Elsewhere, AssetAt(name)) = Preset!Elsewhere \o AssetAt(name)
  BY AssetIsPath DEF Preset!Under
<1>2. /\ Preset!Elsewhere \in Seq(Texts \cup {Root}) /\ AssetAt(name) \in Seq(Texts \cup {Root})
      /\ <<"assets">> \in Seq(Texts \cup {Root})
  BY TextFacts, ElsewhereIsPath, AssetIsPath DEF Preset!Paths
<1>3. Len(<<"assets">>) = 1 /\ <<"assets">>[1] = "assets"
  OBVIOUS
<1> QED
  BY <1>1, <1>2, <1>3, AssetIsPath, WithoutLast

Exported(chain, base) == [i \in DOMAIN chain |-> Preset!ExportSlot(chain[i], base, Disk)]

LEMMA ExportsSlot ==
  ASSUME NEW d \in Preset!SlotDefs, NEW base
  PROVE  /\ Preset!ExportSlot(d, base, Disk) \in Preset!SlotDefs
         /\ Preset!ExportSlot(d, base, Disk).module = d.module
         /\ Preset!Taken(d, base, Disk) => Preset!ExportSlot(d, base, Disk).file = AssetAt(Preset!Last(d.file))
         /\ ~Preset!Taken(d, base, Disk) => Preset!ExportSlot(d, base, Disk) = d
         /\ [Preset!ExportSlot(d, base, Disk) EXCEPT !.file = << >>] = [d EXCEPT !.file = << >>]
<1>1. CASE Preset!Taken(d, base, Disk)
  <2>1. d.file \in Preset!Paths /\ d.file # << >>
    BY <1>1, SlotFields DEF Preset!Taken
  <2>2. PICK path \in Preset!Paths : path = AssetAt(Preset!Last(d.file))
    BY <2>1, LastIn, AssetIsPath
  <2>3. Preset!ExportSlot(d, base, Disk) = [d EXCEPT !.file = path]
    BY <1>1, <2>2 DEF Preset!ExportSlot, AssetAt
  <2>4. [d EXCEPT !.file = path] \in Preset!SlotDefs /\ [d EXCEPT !.file = path].module = d.module
        /\ [d EXCEPT !.file = path].file = path
    BY <2>2 DEF Preset!SlotDefs
  <2> QED
    BY <1>1, <2>2, <2>3, <2>4, FilesAside
<1>2. CASE ~Preset!Taken(d, base, Disk)
  BY <1>2 DEF Preset!ExportSlot
<1> QED
  BY <1>1, <1>2

LEMMA ExportsChain ==
  ASSUME NEW p \in Preset!PresetDefs, NEW base
  PROVE  /\ [p EXCEPT !.chain = Exported(p.chain, base)] \in Preset!PresetDefs
         /\ Preset!AllKnown(p) => Preset!AllKnown([p EXCEPT !.chain = Exported(p.chain, base)])
         /\ Preset!Same([p EXCEPT !.chain = Exported(p.chain, base)], p)
<1>1. PICK q : q = [p EXCEPT !.chain = Exported(p.chain, base)]
  OBVIOUS
<1>2. /\ q = [schema |-> CurrentSchema, name |-> p.name, chain |-> Exported(p.chain, base),
              scenes |-> p.scenes]
      /\ q.schema = p.schema /\ q.name = p.name /\ q.scenes = p.scenes
      /\ q.chain = Exported(p.chain, base)
  BY <1>1, PresetFields
<1>3. ASSUME NEW i \in DOMAIN p.chain
      PROVE  /\ q.chain[i] \in Preset!SlotDefs /\ q.chain[i].module = p.chain[i].module
             /\ [q.chain[i] EXCEPT !.file = << >>] = [p.chain[i] EXCEPT !.file = << >>]
  <2>1. p.chain[i] \in Preset!SlotDefs /\ q.chain[i] = Preset!ExportSlot(p.chain[i], base, Disk)
    BY <1>2, <1>3, PresetFields DEF Exported
  <2> QED
    BY <2>1, ExportsSlot
<1>4. DOMAIN q.chain = DOMAIN p.chain /\ DOMAIN p.chain = 1 .. Len(p.chain) /\ Len(p.chain) \in Nat
  BY <1>2, PresetFields DEF Exported
<1>5. q.chain \in Seq(Preset!SlotDefs)
  <2>1. PICK chain, n : chain = q.chain /\ n = Len(p.chain)
    OBVIOUS
  <2>2. chain = [i \in 1 .. n |-> chain[i]] /\ n \in Nat
    BY <1>2, <1>4, <2>1 DEF Exported
  <2>3. \A i \in 1 .. n : chain[i] \in Preset!SlotDefs
    BY <1>3, <1>4, <2>1
  <2>4. chain \in Seq(Preset!SlotDefs)
    BY <2>2, <2>3
  <2> QED
    BY <2>1, <2>4
<1>6. q \in Preset!PresetDefs
  BY <1>2, <1>5, PresetFields DEF Preset!PresetDefs, SceneLists
<1>7. Preset!AllKnown(p) => Preset!AllKnown(q)
  BY <1>3, <1>4 DEF Preset!AllKnown
<1>8. Preset!WithoutFiles(q.chain) = Preset!WithoutFiles(p.chain)
  BY <1>3, <1>4 DEF Preset!WithoutFiles
<1>9. Preset!Same(q, p)
  BY <1>2, <1>8 DEF Preset!Same
<1> QED
  BY <1>1, <1>6, <1>7, <1>9

\* Every name that was copied is the last slot's that has it.
LEMMA CopiedFrom ==
  ASSUME NEW chain \in Seq(Preset!SlotDefs), NEW base, NEW i \in DOMAIN chain, Preset!Taken(chain[i], base, Disk)
  PROVE  LET name == Preset!Last(chain[i].file)
             assets == Preset!CopyAssets(chain, base, Disk)
         IN /\ name \in DOMAIN assets
            /\ \E j \in DOMAIN chain :
                 /\ Preset!Taken(chain[j], base, Disk) /\ Preset!Last(chain[j].file) = name
                 /\ assets[name] = Disk[Preset!Source(chain[j], base)]
<1> DEFINE copied == {j \in DOMAIN chain : Preset!Taken(chain[j], base, Disk)}
           name == Preset!Last(chain[i].file)
           IsLast(j) == /\ Preset!Last(chain[j].file) = name
                        /\ \A k \in copied : Preset!Last(chain[k].file) = name => k <= j
           l == CHOOSE j \in copied : IsLast(j)
<1>1. \E j \in copied : IsLast(j)
  <2>1. DOMAIN chain = 1 .. Len(chain) /\ Len(chain) \in Nat
    OBVIOUS
  <2> DEFINE S == {n \in 0 .. Len(chain) : Len(chain) - n \in copied /\ Preset!Last(chain[Len(chain) - n].file) = name}
  <2>2. ASSUME NEW k \in copied, Preset!Last(chain[k].file) = name
        PROVE  Len(chain) - k \in S /\ Len(chain) - (Len(chain) - k) = k /\ k \in Nat
    <3>1. k \in DOMAIN chain /\ k \in 1 .. Len(chain)
      BY <2>1, <2>2
    <3>2. Len(chain) - k \in 0 .. Len(chain) /\ Len(chain) - (Len(chain) - k) = k /\ k \in Nat
      BY <2>1, <3>1
    <3> QED
      BY <2>2, <3>2
  <2>3. i \in copied
    OBVIOUS
  <2>4. S \in SUBSET Nat /\ S # {}
    <3>1. Len(chain) - i \in S
      <4> HIDE DEF S, copied
      <4> QED
        BY <2>2, <2>3
    <3> QED
      BY <3>1
  <2>5. PICK n \in S : \A m \in S : n <= m
    <3> HIDE DEF S
    <3> QED
      BY <2>4, LeastIn
  <2>6. PICK j : j = Len(chain) - n
    OBVIOUS
  <2>7. j \in copied /\ Preset!Last(chain[j].file) = name /\ n \in Nat /\ j \in Int
    BY <2>5, <2>6, <2>1
  <2>8. ASSUME NEW k \in copied, Preset!Last(chain[k].file) = name PROVE k <= j
    <3>1. n <= Len(chain) - k /\ k \in Nat
      <4> HIDE DEF S, copied, name
      <4> QED
        BY <2>2, <2>5, <2>8
    <3> QED
      BY <3>1, <2>1, <2>6, <2>7
  <2> QED
    BY <2>7, <2>8
<1>2. l \in copied /\ IsLast(l)
  <2> HIDE DEF copied, IsLast
  <2> QED
    BY <1>1
<1>3. i \in copied
  OBVIOUS
<1>4. Preset!CopyAssets(chain, base, Disk) =
        [n \in {Preset!Last(chain[k].file) : k \in copied} |->
           Disk[Preset!Source(chain[CHOOSE k \in copied :
                              /\ Preset!Last(chain[k].file) = n
                              /\ \A m \in copied : Preset!Last(chain[m].file) = n => m <= k], base)]]
  BY Zenon DEF Preset!CopyAssets
<1>5. name \in {Preset!Last(chain[k].file) : k \in copied}
  BY <1>3
<1>6. Preset!CopyAssets(chain, base, Disk)[name] = Disk[Preset!Source(chain[l], base)]
  BY <1>4, <1>5
<1>7. name \in DOMAIN Preset!CopyAssets(chain, base, Disk)
  BY <1>4, <1>5
<1> QED
  BY <1>2, <1>6, <1>7

\* An export that has been made, and what it put into the package.
Dumpable == {p \in Preset!PresetDefs : Preset!CanDump(p)}
Sendings == {Preset!NoPreset} \cup [ok : {TRUE}, preset : Dumpable, from : Preset!Paths]
PackInv ==
  /\ sent \in Sendings
  /\ sent.ok => \E written \in BOOLEAN :
       package = Preset!ExportPreset(sent.preset, sent.from, Disk, written)

LEMMA ExportIs ==
  ASSUME NEW p \in Preset!PresetDefs, NEW base, NEW written
  PROVE  Preset!ExportPreset(p, base, Disk, written) =
           [doc    |-> IF ~written THEN Torn
                       ELSE Preset!SavePreset([p EXCEPT !.chain = Exported(p.chain, base)]),
            assets |-> Preset!CopyAssets(p.chain, base, Disk),
            ok     |-> \A i \in DOMAIN p.chain : p.chain[i].file = << >> \/ Preset!Taken(p.chain[i], base, Disk)]
BY DEF Preset!ExportPreset, Exported

LEMMA ImportsBack ==
  ASSUME NEW q \in Preset!PresetDefs, Preset!AllKnown(q), Preset!CanDump(q),
         NEW base \in Preset!Paths, NEW st \in Table,
         NEW pack, pack.doc = Preset!SavePreset(q)
  PROVE  Preset!ImportPreset(pack, base, CurrentSchema, st) = [ok |-> TRUE, preset |-> Loaded(q, base)]
<1>1. PICK d : d = Preset!SavePreset(q)
  OBVIOUS
<1>2. d \in Preset!DocObjects /\ d.schema = CurrentSchema
  BY <1>1, SavesPreset
<1>3. CurrentSchema \notin {Absent, Bad} /\ ~Preset!Unreadable(d)
  BY <1>2, NoValues, Numbers DEF Preset!IsNoValue, Preset!Unreadable
<1>4. Preset!TextSchema(d) = CurrentSchema
  BY <1>2, <1>3, GivenIs DEF Preset!TextSchema
<1>5. Preset!LoadPreset(d, Preset!Strict, base, st) = [ok |-> TRUE, preset |-> Loaded(q, base)]
  BY <1>1, ReloadsPreset
<1> QED
  BY <1>1, <1>4, <1>5, Numbers DEF Preset!ImportPreset

\* A slot of the package: its asset is there under the name it is loaded with.
LEMMA AssetIsThere ==
  ASSUME NEW p \in Preset!PresetDefs, NEW base \in Preset!Paths, NEW i \in DOMAIN p.chain,
         p.chain[i].file # << >>, Preset!Taken(p.chain[i], base, Disk)
  PROVE  LET name == Preset!Last(p.chain[i].file)
         IN /\ name \in Texts \cup {Root}
            /\ Exported(p.chain, base)[i].file = AssetAt(name)
            /\ Preset!Last(Preset!Source(p.chain[i], base)) = name
            /\ name \in DOMAIN Preset!CopyAssets(p.chain, base, Disk)
<1>1. PICK d \in Preset!SlotDefs : d = p.chain[i]
  BY PresetFields
<1>2. d.file \in Preset!Paths /\ d.file # << >>
  BY <1>1, SlotFields
<1>3. Preset!Last(d.file) \in Texts \cup {Root} /\ Preset!Last(Preset!Source(d, base)) = Preset!Last(d.file)
  BY <1>2, LastIn, LastUnder DEF Preset!Source
<1>4. Exported(p.chain, base)[i].file = AssetAt(Preset!Last(d.file))
  BY <1>1, ExportsSlot DEF Exported
<1>5. Preset!Last(d.file) \in DOMAIN Preset!CopyAssets(p.chain, base, Disk)
  BY <1>1, PresetFields, CopiedFrom
<1> QED
  BY <1>1, <1>3, <1>4, <1>5

LEMMA WholePackage ==
  ASSUME steps \in Table, sent \in Sendings, sent.ok, package.ok,
         package = Preset!ExportPreset(sent.preset, sent.from, Disk, TRUE),
         Preset!AllKnown(sent.preset), Preset!NoClash
  PROVE  LET back == Preset!ImportPreset(package, Preset!Elsewhere, CurrentSchema, steps)
             nothing == [path \in {} |-> 0]
         IN /\ back.ok /\ package.doc # Torn /\ Preset!Same(back.preset, sent.preset)
            /\ Preset!MissingAssets(package, Preset!Elsewhere, nothing) = {}
            /\ \A i \in Preset!WithFile :
                 /\ Preset!Front(back.preset.chain[i].file) = Preset!Elsewhere \o <<"assets">>
                 /\ package.assets[Preset!Last(back.preset.chain[i].file)] = Disk[Preset!SourceOf(i)]
<1>1. PICK p, base : p = sent.preset /\ base = sent.from
  OBVIOUS
<1>2. p \in Preset!PresetDefs /\ Preset!CanDump(p) /\ base \in Preset!Paths /\ Preset!AllKnown(p)
  <2>1. sent # Preset!NoPreset
    BY DEF Preset!NoPreset
  <2>2. sent \in [ok : {TRUE}, preset : Dumpable, from : Preset!Paths]
    BY <2>1 DEF Sendings
  <2> QED
    BY <1>1, <2>2 DEF Dumpable
<1>3. PICK q : q = [p EXCEPT !.chain = Exported(p.chain, base)]
  OBVIOUS
<1>4. q \in Preset!PresetDefs /\ Preset!AllKnown(q) /\ Preset!Same(q, p) /\ q.chain = Exported(p.chain, base)
  BY <1>2, <1>3, ExportsChain, PresetFields
<1>12. Preset!CanDump(q)
  BY <1>2, <1>3, PresetFields DEF Preset!CanDump
<1>5. /\ package.doc = Preset!SavePreset(q) /\ package.assets = Preset!CopyAssets(p.chain, base, Disk)
      /\ \A i \in DOMAIN p.chain : p.chain[i].file = << >> \/ Preset!Taken(p.chain[i], base, Disk)
  <2>1. PICK a, b, c : /\ a = Preset!SavePreset(q) /\ b = Preset!CopyAssets(p.chain, base, Disk)
                       /\ c = (\A i \in DOMAIN p.chain : p.chain[i].file = << >> \/ Preset!Taken(p.chain[i], base, Disk))
    OBVIOUS
  <2>2. package = [doc |-> IF ~TRUE THEN Torn ELSE a, assets |-> b, ok |-> c]
    BY Zenon, <1>1, <1>2, <1>3, <2>1, ExportIs
  <2>5. PICK d : d = IF ~TRUE THEN Torn ELSE a
    OBVIOUS
  <2>6. package = [doc |-> d, assets |-> b, ok |-> c] /\ d = a
    BY Zenon, <2>2, <2>5
  <2>3. package.doc = a /\ package.assets = b /\ package.ok = c
    BY ONLY <2>6
  <2>4. c
    BY <2>3
  <2> QED
    BY <2>1, <2>3, <2>4
<1>13. package.doc # Torn
  BY <1>4, <1>5, <1>12, SavesPreset, NoValues DEF Preset!IsNoValue
<1>6. PICK back : back = Preset!ImportPreset(package, Preset!Elsewhere, CurrentSchema, steps)
  OBVIOUS
<1>7. back.ok /\ back.preset = Loaded(q, Preset!Elsewhere)
  <2>1. package.doc = Preset!SavePreset(q)
    BY <1>5
  <2>2. back = [ok |-> TRUE, preset |-> Loaded(q, Preset!Elsewhere)]
    BY Zenon, <1>4, <1>6, <1>12, <2>1, ElsewhereIsPath, ImportsBack
  <2> QED
    BY ONLY <2>2
<1>14. PICK d : d = package.doc
  OBVIOUS
<1>15. d = Preset!SavePreset(q) /\ d.chain = Saved(q.chain) /\ DOMAIN q.chain = DOMAIN p.chain
  <2>1. d = Preset!SavePreset(q)
    BY <1>5, <1>14
  <2>2. d = [schema |-> CurrentSchema, name |-> q.name, chain |-> Saved(q.chain),
             scenes |-> IF q.scenes = << >> THEN Absent ELSE q.scenes]
    BY Zenon, <1>4, <1>12, <2>1, SavesPreset
  <2>3. d.chain = Saved(q.chain)
    BY ONLY <2>2
  <2> QED
    BY <1>4, <2>1, <2>3 DEF Exported
<1>8. Preset!Same(back.preset, p)
  <2>1. Preset!Same(back.preset, q)
    BY <1>4, <1>7, ElsewhereIsPath, LoadedIsSame
  <2> QED
    BY <2>1, <1>4 DEF Preset!Same
<1>9. ASSUME NEW i \in DOMAIN p.chain, p.chain[i].file # << >>
      PROVE  LET name == Preset!Last(p.chain[i].file)
             IN /\ name \in Texts \cup {Root} /\ Preset!Taken(p.chain[i], base, Disk)
                /\ q.chain[i].file = AssetAt(name)
                /\ Preset!Last(Preset!Source(p.chain[i], base)) = name
                /\ name \in DOMAIN package.assets
                /\ d.chain[i].file = AssetAt(name)
  <2>1. Preset!Taken(p.chain[i], base, Disk)
    BY <1>5, <1>9
  <2>2. LET name == Preset!Last(p.chain[i].file)
        IN /\ name \in Texts \cup {Root} /\ q.chain[i].file = AssetAt(name)
           /\ Preset!Last(Preset!Source(p.chain[i], base)) = name /\ name \in DOMAIN package.assets
    BY <1>2, <1>4, <1>5, <1>9, <2>1, AssetIsThere
  <2>4. d.chain[i] = Preset!SaveSlot(q.chain[i]) /\ q.chain[i] \in Preset!SlotDefs
    BY <1>4, <1>9, <1>15, PresetFields DEF Saved
  <2>5. d.chain[i].file = IF q.chain[i].file = << >> THEN Absent ELSE q.chain[i].file
    BY <2>4, SavesSlot
  <2>6. AssetAt(Preset!Last(p.chain[i].file)) # << >>
    BY <2>2, AssetIsPath
  <2> QED
    BY <2>1, <2>2, <2>5, <2>6
<1>10. Preset!MissingAssets(package, Preset!Elsewhere, [path \in {} |-> 0]) = {}
  <2>1. ASSUME NEW i \in DOMAIN d.chain,
               Preset!Given(d.chain[i].file, << >>) # << >>
        PROVE  LET file == Preset!Given(d.chain[i].file, << >>)
               IN Len(file) = 2 /\ file[1] = "assets" /\ file[2] \in DOMAIN package.assets
    <3>1. i \in DOMAIN p.chain /\ d.chain[i] = Preset!SaveSlot(q.chain[i]) /\ q.chain[i] \in Preset!SlotDefs
      BY <1>4, <1>15, <2>1, PresetFields DEF Saved
    <3>2. CASE p.chain[i].file = << >>
      <4>1. p.chain[i] \in Preset!SlotDefs /\ ~Preset!Taken(p.chain[i], base, Disk)
        BY <1>2, <3>1, <3>2, PresetFields DEF Preset!Taken
      <4>2. q.chain[i] = p.chain[i]
        <5>1. q.chain[i] = Preset!ExportSlot(p.chain[i], base, Disk)
          BY <1>4, <3>1 DEF Exported
        <5>2. Preset!ExportSlot(p.chain[i], base, Disk) = p.chain[i]
          BY <4>1, ExportsSlot
        <5> QED
          BY <5>1, <5>2
      <4>3. d.chain[i].file = Absent
        BY <3>1, <3>2, <4>2, SavesSlot
      <4> QED
        BY <2>1, <4>3, GivenIs
    <3>3. CASE p.chain[i].file # << >>
      <4>1. PICK name : name = Preset!Last(p.chain[i].file)
        OBVIOUS
      <4>2. /\ name \in Texts \cup {Root} /\ name \in DOMAIN package.assets
            /\ d.chain[i].file = AssetAt(name)
        BY <3>1, <3>3, <4>1, <1>9
      <4>3. AssetAt(name) \notin {Absent, Bad}
        BY <4>2, AssetIsPath, NoValues DEF Preset!IsNoValue
      <4>4. Preset!Given(d.chain[i].file, << >>) = AssetAt(name)
        BY <4>2, <4>3, GivenIs
      <4> QED
        BY <4>2, <4>4, AssetIsPath
    <3> QED
      BY <3>2, <3>3
  <2> QED
    BY <1>14, <2>1 DEF Preset!MissingAssets
<1>11. ASSUME NEW i \in Preset!WithFile
       PROVE  /\ Preset!Front(back.preset.chain[i].file) = Preset!Elsewhere \o <<"assets">>
              /\ package.assets[Preset!Last(back.preset.chain[i].file)] = Disk[Preset!SourceOf(i)]
  <2>1. i \in DOMAIN p.chain /\ p.chain[i].file # << >>
    BY <1>1, <1>11 DEF Preset!WithFile
  <2>2. PICK name : name = Preset!Last(p.chain[i].file)
    OBVIOUS
  <2>3. /\ name \in Texts \cup {Root} /\ Preset!Taken(p.chain[i], base, Disk) /\ q.chain[i].file = AssetAt(name)
        /\ Preset!Last(Preset!Source(p.chain[i], base)) = name
    BY <2>1, <2>2, <1>9
  <2>4. back.preset.chain[i].file = Preset!Under(Preset!Elsewhere, AssetAt(name))
    <3>1. DOMAIN q.chain = DOMAIN p.chain
      BY <1>4 DEF Exported
    <3>2. back.preset.chain = [j \in DOMAIN q.chain |-> Moved(q.chain[j], Preset!Elsewhere)]
      BY <1>4, <1>7, PresetFields DEF Loaded
    <3>3. back.preset.chain[i] = Moved(q.chain[i], Preset!Elsewhere) /\ q.chain[i] \in Preset!SlotDefs
      BY <2>1, <3>1, <3>2, <1>4, PresetFields
    <3>4. AssetAt(name) # << >>
      BY <2>3, AssetIsPath
    <3> QED
      BY <2>3, <3>3, <3>4, SlotFields DEF Moved
  <2>5. /\ Preset!Front(back.preset.chain[i].file) = Preset!Elsewhere \o <<"assets">>
        /\ Preset!Last(back.preset.chain[i].file) = name
    BY <2>3, <2>4, AssetUnder
  <2>6. PICK j \in DOMAIN p.chain :
          /\ Preset!Taken(p.chain[j], base, Disk) /\ Preset!Last(p.chain[j].file) = name
          /\ package.assets[name] = Disk[Preset!Source(p.chain[j], base)]
    <3>1. PICK assets : assets = package.assets
      OBVIOUS
    <3>2. assets = Preset!CopyAssets(p.chain, base, Disk) /\ p.chain \in Seq(Preset!SlotDefs)
      BY <1>2, <1>5, <3>1, PresetFields
    <3>3. PICK j \in DOMAIN p.chain :
            /\ Preset!Taken(p.chain[j], base, Disk) /\ Preset!Last(p.chain[j].file) = Preset!Last(p.chain[i].file)
            /\ Preset!CopyAssets(p.chain, base, Disk)[Preset!Last(p.chain[i].file)]
                 = Disk[Preset!Source(p.chain[j], base)]
      BY Zenon, <1>2, <2>1, <2>3, <3>2, CopiedFrom
    <3> QED
      BY Zenon, <2>2, <3>1, <3>2, <3>3
  <2>7. p.chain[j].file # << >>
    BY <2>6 DEF Preset!Taken
  <2>8. Preset!Last(Preset!Source(p.chain[j], base)) = name
    BY <2>6, <2>7, <1>9
  <2>9. j \in Preset!WithFile /\ Preset!SourceOf(i) = Preset!Source(p.chain[i], base) /\ Preset!SourceOf(j) = Preset!Source(p.chain[j], base)
    BY <1>1, <2>6, <2>7 DEF Preset!WithFile, Preset!SourceOf
  <2>10. Preset!SourceOf(i) = Preset!SourceOf(j)
    BY <1>11, <2>3, <2>8, <2>9 DEF Preset!NoClash
  <2> QED
    BY <2>5, <2>6, <2>9, <2>10
<1> QED
  BY <1>1, <1>6, <1>7, <1>8, <1>10, <1>11, <1>13

LEMMA PackageSurvives ==
  ASSUME steps \in Table, PackInv
  PROVE  Preset!PackageIsWhole
<1> SUFFICES ASSUME sent.ok, package.ok, Preset!AllKnown(sent.preset), Preset!NoClash
             PROVE  Preset!PackageIsWhole
  BY DEF Preset!PackageIsWhole
<1>1. PICK written \in BOOLEAN : package = Preset!ExportPreset(sent.preset, sent.from, Disk, written)
  BY DEF PackInv
<1>2. CASE written
  BY <1>1, <1>2, WholePackage DEF PackInv, Preset!PackageIsWhole
<1>3. CASE ~written
  <2>1. package.doc = Torn
    BY <1>1, <1>3 DEF Preset!ExportPreset
  <2>2. Preset!LoadPreset(Torn, Preset!Strict, Preset!Elsewhere, steps) = [ok |-> FALSE]
    BY DEF Preset!LoadPreset, Preset!Unreadable
  <2>3. Preset!ImportPreset(package, Preset!Elsewhere, CurrentSchema, steps) = [ok |-> FALSE]
    BY <2>1, <2>2 DEF Preset!ImportPreset
  <2> QED
    BY <2>1, <2>3 DEF Preset!PackageIsWhole
<1> QED
  BY <1>1, <1>2, <1>3

(* The invariant *)

PresetInv ==
  /\ steps \in Table /\ doc \in Preset!Documents /\ held \in Results /\ PackInv

LEMMA PresetStarts == Preset!Init => PresetInv
BY TableStarts, PresetFacts DEF Preset!Init, PresetInv, PackInv, Results, Sendings, Preset!NoPreset, Preset!PresetAssumption

LEMMA HeldIs ==
  ASSUME held \in Results, held.ok
  PROVE  held.preset \in Preset!PresetDefs
<1>1. held # Preset!NoPreset
  BY DEF Preset!NoPreset
<1> QED
  BY <1>1 DEF Results

LEMMA SentIs ==
  ASSUME sent \in Sendings, sent.ok
  PROVE  sent.preset \in Preset!PresetDefs /\ Preset!CanDump(sent.preset) /\ sent.from \in Preset!Paths
<1>1. sent # Preset!NoPreset
  BY DEF Preset!NoPreset
<1> QED
  BY <1>1 DEF Sendings, Dumpable

LEMMA PresetStep ==
  ASSUME PresetInv, [Preset!Next]_(Preset!vars)
  PROVE  PresetInv'
<1>0. Dirs \subseteq Preset!Paths
  BY PresetFacts DEF Preset!PresetAssumption
<1>1. steps' \in Table
  BY TableStep DEF PresetInv
<1>2. CASE UNCHANGED Preset!vars
  BY <1>1, <1>2 DEF Preset!vars, PresetInv, PackInv
<1>3. ASSUME NEW from, NEW to, Preset!RegisterMigration(from, to) PROVE PresetInv'
  BY <1>1, <1>3 DEF Preset!RegisterMigration, PresetInv, PackInv
<1>4. ASSUME NEW mode, NEW base \in Dirs, Preset!Load(mode, base) PROVE PresetInv'
  <2>1. held' = Preset!LoadPreset(doc, mode, base, steps') /\ UNCHANGED <<doc, package, sent>>
    BY <1>4 DEF Preset!Load
  <2>2. held' \in Results
    BY <1>0, <2>1, LoadsPreset DEF PresetInv
  <2> QED
    BY <1>1, <2>1, <2>2 DEF PresetInv, PackInv
<1>5. ASSUME Preset!Save PROVE PresetInv'
  <2>1. /\ held.ok /\ held' = Preset!NoPreset /\ UNCHANGED <<steps, package, sent>>
        /\ IF Preset!CanDump(held.preset) THEN doc' = Preset!SavePreset(held.preset) \/ doc' = Torn
           ELSE doc' = doc
    BY <1>5 DEF Preset!Save
  <2>2. doc' \in Preset!Documents
    <3>1. held.preset \in Preset!PresetDefs
      BY <2>1, HeldIs DEF PresetInv
    <3>2. Preset!CanDump(held.preset) => Preset!SavePreset(held.preset) \in Preset!DocObjects
      BY <3>1, SavesPreset
    <3> QED
      BY <2>1, <3>2 DEF Preset!Documents, PresetInv
  <2> QED
    BY <1>1, <2>1, <2>2 DEF PresetInv, PackInv, Results
<1>6. ASSUME NEW base \in Dirs, Preset!Export(base) PROVE PresetInv'
  <2>1. /\ held.ok /\ Preset!CanDump(held.preset)
        /\ \E written \in BOOLEAN : package' = Preset!ExportPreset(held.preset, base, Disk, written)
        /\ sent' = [ok |-> TRUE, preset |-> held.preset, from |-> base]
        /\ UNCHANGED <<steps, doc, held>>
    BY <1>6 DEF Preset!Export
  <2>2. held.preset \in Preset!PresetDefs /\ base \in Preset!Paths
    BY <1>0, <2>1, HeldIs DEF PresetInv
  <2>3. sent' \in Sendings
    BY <2>1, <2>2 DEF Sendings, Dumpable
  <2>4. sent'.preset = held.preset /\ sent'.from = base
    BY <2>1
  <2>5. PackInv'
    BY Zenon, <2>1, <2>3, <2>4 DEF PackInv
  <2> QED
    BY <1>1, <2>1, <2>5 DEF PresetInv
<1>7. ASSUME Preset!Import PROVE PresetInv'
  <2>1. /\ sent.ok /\ held' = Preset!ImportPreset(package, Preset!Elsewhere, CurrentSchema, steps')
        /\ UNCHANGED <<doc, package, sent>>
    BY <1>7 DEF Preset!Import
  <2>2. package.doc \in Preset!Documents
    <3>1. sent.preset \in Preset!PresetDefs /\ Preset!CanDump(sent.preset)
      BY <2>1, SentIs DEF PresetInv, PackInv
    <3>2. PICK q : q = [sent.preset EXCEPT !.chain = Exported(sent.preset.chain, sent.from)]
      OBVIOUS
    <3>3. package.doc = Torn \/ package.doc = Preset!SavePreset(q)
      <4>1. PICK written \in BOOLEAN :
              package = Preset!ExportPreset(sent.preset, sent.from, Disk, written)
        BY Zenon, <2>1 DEF PresetInv, PackInv
      <4>2. PICK d, a, c :
              /\ d = IF ~written THEN Torn ELSE Preset!SavePreset(q)
              /\ a = Preset!CopyAssets(sent.preset.chain, sent.from, Disk)
              /\ c = (\A i \in DOMAIN sent.preset.chain :
                       \/ sent.preset.chain[i].file = << >>
                       \/ Preset!Taken(sent.preset.chain[i], sent.from, Disk))
        OBVIOUS
      <4>3. package = [doc |-> d, assets |-> a, ok |-> c]
        BY Zenon, <3>1, <3>2, <4>1, <4>2, ExportIs
      <4>4. package.doc = d
        BY ONLY <4>3
      <4> QED
        BY <4>2, <4>4
    <3>4. q \in Preset!PresetDefs /\ Preset!CanDump(q)
      BY <3>1, <3>2, ExportsChain, PresetFields DEF Preset!CanDump
    <3> QED
      BY <3>3, <3>4, SavesPreset DEF Preset!Documents
  <2>3. held' \in Results
    <3>1. CASE Preset!TextSchema(package.doc) > CurrentSchema
      BY <2>1, <3>1 DEF Preset!ImportPreset, Results, Preset!NoPreset
    <3>2. CASE ~(Preset!TextSchema(package.doc) > CurrentSchema)
      <4>1. held' = Preset!LoadPreset(package.doc, Preset!Strict, Preset!Elsewhere, steps')
        BY <2>1, <3>2 DEF Preset!ImportPreset
      <4> QED
        BY <2>2, <4>1, ElsewhereIsPath, LoadsPreset
    <3> QED
      BY <3>1, <3>2
  <2> QED
    BY <1>1, <2>1, <2>3 DEF PresetInv, PackInv
<1>8. ASSUME Preset!ExportThrows PROVE PresetInv'
  BY <1>1, <1>8 DEF Preset!ExportThrows, PresetInv, PackInv, Results
<1> QED
  BY <1>2, <1>3, <1>4, <1>5, <1>6, <1>7, <1>8 DEF Preset!Next

\* Whatever was loaded can be stored and loaded back, and what was exported whole can
\* be imported anywhere (loadPreset, savePreset, exportPreset, importPreset).
THEOREM PresetsStayWhole == Preset!Spec => [](Preset!SavedLoadsBack /\ Preset!PackageIsWhole)
<1>1. PresetInv /\ [Preset!Next]_(Preset!vars) => PresetInv'
  BY PresetStep
<1>2. PresetInv => Preset!SavedLoadsBack /\ Preset!PackageIsWhole
  BY HeldSurvives, PackageSurvives DEF PresetInv
<1> QED
  BY PresetStarts, <1>1, <1>2, PresetFacts, PTL DEF Preset!Spec

\* What the run asks of a preset on its way (preset_io.cpp, export_import.cpp).
COROLLARY PresetsAreWhole == Preset!Spec => []PresetsSurvive
<1>1. Preset!SavedLoadsBack /\ Preset!PackageIsWhole => PresetsSurvive
  BY DEF PresetsSurvive
<1> QED
  BY <1>1, PresetsStayWhole, PartsAssumption, PTL

\* What the run asks of the migrations (migration.cpp).
COROLLARY OldPresetsAlwaysLoad == Preset!Spec => OldPresetsStillLoad
<1>1. steps \in Table /\ [Preset!Next]_(Preset!vars)
        => (steps \in Table)' /\ [part = "presets" => Preset!StillLoadStep]_<<part, Preset!vars>>
  <2>1. ASSUME steps \in Table, [Preset!Next]_(Preset!vars)
        PROVE  steps' \in Table /\ Preset!StillLoadStep
    BY <2>1, TableStep
  <2> QED
    BY <2>1
<1> QED
  BY <1>1, TableStarts, PartsAssumption, PTL DEF Preset!Spec, OldPresetsStillLoad

=============================================================================
