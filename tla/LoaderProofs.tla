---------------------------- MODULE LoaderProofs -----------------------------
(***************************************************************************)
(* Proofs about Loader, for any documents: who owns the object, when it is *)
(* lost, what stays on the Lua stack, that what is started stays, and that *)
(* a model which is returned has all that its document names but for the   *)
(* fade-out times of motions in groups of several.                         *)
(***************************************************************************)
EXTENDS Loader, SequenceTheorems, TLAPS

Stages == Owning \cup {"idle", "json", "moc"}

\* Where the call is
PlaceOK ==
    /\ doc \in Documents
    /\ stage \in Stages
    /\ next \in Nat \ {0} /\ part \in Nat \ {0}

Place == PlaceOK /\ Ownership

\* The sections in which loadModel owns the object
LEMMA OwningStages ==
    /\ {"textures", "texture", "expressions", "motions", "physics", "pose", "groups", "wrap"}
        = Owning
    /\ "idle" \notin Owning /\ "json" \notin Owning /\ "moc" \notin Owning
  BY DEF Owning

\* loadModel starts idle and owns nothing.
LEMMA PlaceInit == ASSUME Init PROVE Place
  BY OwningStages DEF Init, Place, PlaceOK, Ownership, Stages

\* The call has ended with an error and there was no object.
Refused == Ended /\ UNCHANGED object

\* The file of the document read, and the one of the moc with an object made
Read ==
    /\ stack' = Append(stack, "model3.json") /\ Go("moc")
    /\ UNCHANGED <<doc, object, model, chosen>>
Constructed ==
    /\ object' = "made" /\ Go("textures")
    /\ \E message \in FFIMessages : stack' = stack \o <<"moc3">> \o message \o <<"newMesh">>
    /\ UNCHANGED <<doc, model, chosen>>

LEMMA ReadCases ==
    /\ ReadJson => stage = "json" /\ (Refused \/ Read)
    /\ Construct => stage = "moc" /\ (Refused \/ Constructed)
  BY DEF ReadJson, Construct, Refuse, Refused, Read, Constructed, At

\* The ends of a call that fails
LEMMA EndsKeepPlace ==
    ASSUME Place, (Refused /\ stage \notin Owning) \/ Discard \/ Lose PROVE Place'
  BY OwningStages DEF Place, PlaceOK, Ownership, Stages, Refused, Discard, Lose, Ended, Go

\* A step from one section to another, or within one
LEMMA SectionsKeepPlace ==
    ASSUME Place, stage \in Owning, stage' \in Owning, next' \in Nat \ {0},
           part' \in Nat \ {0}, doc' = doc, object' = object
    PROVE  Place'
  BY DEF Place, PlaceOK, Ownership, Stages

\* A field that names no file
Unnamed == {"absent", "not a string"}

\* What a document promises of the elements a step looks at
LEMMA Elements ==
    ASSUME PlaceOK
    PROVE  /\ next <= Len(doc.textures) => doc.textures[next] \in TexturePaths
           /\ next <= Len(doc.expressions) =>
                /\ next \in DOMAIN doc.expressions
                /\ doc.expressions[next].file \in Files
           /\ next <= Len(doc.motions) =>
                /\ next \in DOMAIN doc.motions
                /\ part <= Len(Group(next).list) =>
                    /\ part \in DOMAIN Group(next).list
                    /\ Group(next).list[part].file \in Files
           /\ doc.physics \notin Unnamed => doc.physics \in Files
           /\ doc.pose \notin Unnamed => doc.pose \in Files
           /\ doc.json \in {"ok", "missing", "malformed"}
           /\ doc.texturesField \in {"absent", "array", "other"}
<1> DEFINE Infos == [file : Files, fadeIn : Nat \cup {NoTime}, fadeOut : Nat \cup {NoTime}]
<1>1. doc \in Documents /\ next \in Nat \ {0} /\ part \in Nat \ {0}
  BY DEF PlaceOK
<1>2. next <= Len(doc.textures) => doc.textures[next] \in TexturePaths
  BY <1>1, DocumentsAssumption
<1>3. next <= Len(doc.expressions) =>
            next \in DOMAIN doc.expressions /\ doc.expressions[next].file \in Files
  BY <1>1, DocumentsAssumption
<1>4. ASSUME next <= Len(doc.motions)
      PROVE  next \in DOMAIN doc.motions /\ Group(next).list \in Seq(Infos)
  <2>1. next \in DOMAIN doc.motions
    BY <1>1, <1>4, DocumentsAssumption
  <2>2. \A g \in DOMAIN doc.motions : doc.motions[g].list \in Seq(Infos)
    BY <1>1, DocumentsAssumption
  <2> HIDE DEF Infos
  <2> QED
    BY <2>1, <2>2 DEF Group
<1>5. ASSUME next <= Len(doc.motions), part <= Len(Group(next).list)
      PROVE  part \in DOMAIN Group(next).list /\ Group(next).list[part] \in Infos
  <2> HIDE DEF Infos
  <2> QED
    BY <1>1, <1>4, <1>5
<1>6. /\ doc.physics \in OptionalFiles /\ doc.pose \in OptionalFiles
      /\ doc.json \in {"ok", "missing", "malformed"}
      /\ doc.texturesField \in {"absent", "array", "other"}
  BY <1>1, DocumentsAssumption
<1> QED
  BY <1>2, <1>3, <1>4, <1>5, <1>6 DEF Files, OptionalFiles, Unnamed

-----------------------------------------------------------------------------

(***************************************************************************)
(* What the steps that read a file do when the file is good, and that      *)
(* otherwise the call has ended.                                           *)
(***************************************************************************)

TextureLoaded ==
    /\ model' = [model EXCEPT !.textures = @ \cup {next}]
    /\ next' = next + 1
    /\ UNCHANGED <<doc, stage, part, stack, object, chosen, process>>

ExpressionLoaded ==
    LET n == doc.expressions[next].name
    IN  /\ model' = [model EXCEPT !.expressions = Put(@, n, next)]
        /\ chosen' = [chosen EXCEPT !.expression = FirstChosen(@, n, n \in DefaultNames)]
        /\ next' = next + 1
        /\ UNCHANGED <<doc, stage, part, stack, object, process>>

MotionLoaded ==
    LET n == MotionName(next, part)
    IN  /\ model' = [model EXCEPT !.motions = Put(@, n, Motion(next, part))]
        /\ chosen' = [chosen EXCEPT !.motion = FirstChosen(@, n, n[1] \in IdleNames)]
        /\ part' = part + 1
        /\ UNCHANGED <<doc, stage, next, stack, object, process>>

\* What the start of the textures section can do
LEMMA TexturesBegun ==
    ASSUME PlaceOK, BeginTextures
    PROVE  /\ stage = "textures"
           /\ \/ Discard
              \/ Go("expressions") /\ UNCHANGED <<doc, stack, object, model, chosen, process>>
              \/ /\ Go("texture") /\ stack' = stack \o <<"settings", "newImage">>
                 /\ UNCHANGED <<doc, object, model, chosen, process>>
<1>1. doc.texturesField \in {"absent", "array", "other"}
  BY Elements
<1>2. CASE doc.texturesField = "absent"
  BY <1>2 DEF BeginTextures, At
<1>3. CASE doc.texturesField = "other"
  BY <1>3 DEF BeginTextures, At
<1>4. CASE doc.texturesField = "array"
  BY <1>4 DEF BeginTextures, At
<1> QED
  BY <1>1, <1>2, <1>3, <1>4

\* What one texture can do: throw, lose the object, or be loaded
LEMMA TextureCases ==
    ASSUME PlaceOK, LoadTexture
    PROVE  /\ stage = "texture" /\ next <= Len(doc.textures)
           /\ \/ Discard
              \/ Lose /\ (doc.textures[next] \in {"short", "missing", "bad"} \/ next > TextureCount)
              \/ doc.textures[next] = "ok" /\ next <= TextureCount /\ TextureLoaded
<1>1. doc.textures[next] \in TexturePaths /\ next \in Nat /\ TextureCount \in Nat
  BY Elements, CountAssumption DEF LoadTexture, PlaceOK
<1>2. CASE doc.textures[next] = "not a string"
  BY <1>2 DEF LoadTexture, At
<1>3. CASE doc.textures[next] \in {"short", "missing", "bad"}
  BY <1>3 DEF LoadTexture, At
<1>4. CASE doc.textures[next] = "ok"
  BY <1>1, <1>4 DEF LoadTexture, At, TextureLoaded
<1> QED
  BY <1>1, <1>2, <1>3, <1>4 DEF TexturePaths

\* The same for one expression
LEMMA ExpressionCases ==
    ASSUME PlaceOK, LoadExpression
    PROVE  /\ stage = "expressions" /\ next \in DOMAIN doc.expressions
           /\ \/ Discard
              \/ Lose /\ doc.expressions[next].file = "missing"
              \/ ExpressionLoaded
<1>1. /\ stage = "expressions" /\ next \in DOMAIN doc.expressions
      /\ doc.expressions[next].file \in Files
  BY Elements DEF LoadExpression, At
<1>2. CASE doc.expressions[next].file = "missing"
  BY <1>1, <1>2 DEF LoadExpression, Load
<1>3. CASE doc.expressions[next].file \in {"bad", "malformed"}
  BY <1>1, <1>3 DEF LoadExpression, Load
<1>4. CASE doc.expressions[next].file = "ok"
  BY <1>1, <1>4 DEF LoadExpression, Load, ExpressionLoaded
<1> QED
  BY <1>1, <1>2, <1>3, <1>4 DEF Files

\* for one motion
LEMMA MotionCases ==
    ASSUME PlaceOK, LoadMotion
    PROVE  /\ stage = "motions" /\ next \in DOMAIN doc.motions
           /\ part \in DOMAIN Group(next).list
           /\ \/ Discard
              \/ Lose /\ Group(next).list[part].file = "missing"
              \/ MotionLoaded
<1>1. /\ stage = "motions" /\ next \in DOMAIN doc.motions
      /\ part \in DOMAIN Group(next).list /\ Group(next).list[part].file \in Files
  BY Elements DEF LoadMotion, At
<1>2. CASE Group(next).list[part].file = "missing"
  BY <1>1, <1>2 DEF LoadMotion, Load
<1>3. CASE Group(next).list[part].file \in {"bad", "malformed"}
  BY <1>1, <1>3 DEF LoadMotion, Load
<1>4. CASE Group(next).list[part].file = "ok"
  BY <1>1, <1>4 DEF LoadMotion, Load, MotionLoaded
<1> QED
  BY <1>1, <1>2, <1>3, <1>4 DEF Files

\* Physics and pose: absent or loaded, the next section follows.
LEMMA PhysicsCases ==
    ASSUME PlaceOK, LoadPhysics
    PROVE  /\ stage = "physics"
           /\ \/ Discard
              \/ Lose /\ doc.physics = "missing"
              \/ /\ Go("pose") /\ UNCHANGED <<doc, stack, object, chosen, process>>
                 /\ model' = IF doc.physics \in Unnamed THEN model
                             ELSE [model EXCEPT !.physics = TRUE]
                 /\ doc.physics \in Unnamed \cup {"ok"}
<1>1. stage = "physics" /\ (doc.physics \in Unnamed \/ doc.physics \in Files)
  BY Elements DEF LoadPhysics, At
<1>2. CASE doc.physics \in Unnamed
  BY <1>1, <1>2 DEF LoadPhysics, Unnamed
<1>3. CASE doc.physics = "missing"
  BY <1>1, <1>3 DEF LoadPhysics, Load, Unnamed
<1>4. CASE doc.physics \in {"bad", "malformed"}
  BY <1>1, <1>4 DEF LoadPhysics, Load, Unnamed
<1>5. CASE doc.physics = "ok"
  BY <1>1, <1>5 DEF LoadPhysics, Load, Unnamed
<1> QED
  BY <1>1, <1>2, <1>3, <1>4, <1>5 DEF Files

\* and for the pose
LEMMA PoseCases ==
    ASSUME PlaceOK, LoadPose
    PROVE  /\ stage = "pose"
           /\ \/ Discard
              \/ Lose /\ doc.pose = "missing"
              \/ /\ Go("groups") /\ UNCHANGED <<doc, stack, object, chosen, process>>
                 /\ model' = IF doc.pose \in Unnamed THEN model
                             ELSE [model EXCEPT !.pose = TRUE]
                 /\ doc.pose \in Unnamed \cup {"ok"}
<1>1. stage = "pose" /\ (doc.pose \in Unnamed \/ doc.pose \in Files)
  BY Elements DEF LoadPose, At
<1>2. CASE doc.pose \in Unnamed
  BY <1>1, <1>2 DEF LoadPose, Unnamed
<1>3. CASE doc.pose = "missing"
  BY <1>1, <1>3 DEF LoadPose, Load, Unnamed
<1>4. CASE doc.pose \in {"bad", "malformed"}
  BY <1>1, <1>4 DEF LoadPose, Load, Unnamed
<1>5. CASE doc.pose = "ok"
  BY <1>1, <1>5 DEF LoadPose, Load, Unnamed
<1> QED
  BY <1>1, <1>2, <1>3, <1>4, <1>5 DEF Files

-----------------------------------------------------------------------------

\* Every step keeps one owner.
LEMMA PlaceStep == ASSUME Place, Step PROVE Place'
<1> USE OwningStages DEF At, Go
<1>0. PlaceOK /\ Ownership /\ next \in Nat \ {0} /\ part \in Nat \ {0}
  BY DEF Place, PlaceOK
<1>1. CASE ReadJson
  BY <1>1, ReadCases, EndsKeepPlace DEF Read, Place, PlaceOK, Ownership, Stages
<1>2. CASE Construct
  BY <1>2, ReadCases, EndsKeepPlace DEF Constructed, Place, PlaceOK, Ownership, Stages
<1>3. CASE BeginTextures
  BY <1>0, <1>3, TexturesBegun, EndsKeepPlace, SectionsKeepPlace
<1>4. CASE LoadTexture
  BY <1>0, <1>4, TextureCases, EndsKeepPlace, SectionsKeepPlace DEF TextureLoaded
<1>5. CASE EndTextures \/ SetDefaultExpression \/ SetIdleMotion \/ EndGroups
  BY <1>5, SectionsKeepPlace DEF EndTextures, SetDefaultExpression, SetIdleMotion, EndGroups
<1>6. CASE LoadExpression
  BY <1>0, <1>6, ExpressionCases, EndsKeepPlace, SectionsKeepPlace DEF ExpressionLoaded
<1>7. CASE LoadMotion
  BY <1>0, <1>7, MotionCases, EndsKeepPlace, SectionsKeepPlace DEF MotionLoaded
<1>8. CASE NextGroup
  BY <1>0, <1>8, SectionsKeepPlace DEF NextGroup
<1>9. CASE LoadPhysics
  BY <1>0, <1>9, PhysicsCases, EndsKeepPlace, SectionsKeepPlace
<1>10. CASE LoadPose
  BY <1>0, <1>10, PoseCases, EndsKeepPlace, SectionsKeepPlace
<1>11. CASE LoadGroup
  BY <1>0, <1>11, SectionsKeepPlace DEF LoadGroup
<1>12. CASE Wrap
  BY <1>12 DEF Wrap, Place, PlaceOK, Ownership, Stages
<1> QED
  BY <1>1, <1>2, <1>3, <1>4, <1>5, <1>6, <1>7, <1>8, <1>9, <1>10, <1>11, <1>12 DEF Step

\* Every step keeps the place and the owner.
LEMMA PlaceNext == ASSUME Place, [Next]_vars PROVE Place'
<1>1. CASE UNCHANGED vars
  BY <1>1 DEF vars, Place, PlaceOK, Ownership
<1>2. CASE \E d \in Documents : Call(d)
  BY <1>2, OwningStages DEF Call, Go, Place, PlaceOK, Ownership, Stages
<1> QED
  BY <1>1, <1>2, PlaceStep DEF Next

\* loadModel owns an object in the sections that work on one and in no other
\* place, whichever way a section fails.
THEOREM OneOwner == Spec => []Ownership
<1>1. Place => Ownership
  BY DEF Place
<1> QED
  BY <1>1, PlaceInit, PlaceNext, PTL DEF Spec

-----------------------------------------------------------------------------

\* Each file a document names
LEMMA FilesAreNamed ==
    ASSUME NEW d \in Documents
    PROVE  /\ \A i \in DOMAIN d.expressions : d.expressions[i].file \in FilesNamed(d)
           /\ \A g \in DOMAIN d.motions : \A j \in DOMAIN d.motions[g].list :
                    d.motions[g].list[j].file \in FilesNamed(d)
           /\ d.physics \in FilesNamed(d) /\ d.pose \in FilesNamed(d)
<1> DEFINE InGroup(g) == {d.motions[g].list[j].file : j \in DOMAIN d.motions[g].list}
           Expressions == {d.expressions[i].file : i \in DOMAIN d.expressions}
           Motions == (UNION {InGroup(g) : g \in DOMAIN d.motions})
<1>1. FilesNamed(d) = Expressions \cup Motions \cup {d.physics, d.pose}
  BY DEF FilesNamed
<1>2. \A i \in DOMAIN d.expressions : d.expressions[i].file \in Expressions
  OBVIOUS
<1>3. ASSUME NEW g \in DOMAIN d.motions, NEW j \in DOMAIN d.motions[g].list
      PROVE  d.motions[g].list[j].file \in Motions
  <2>1. d.motions[g].list[j].file \in InGroup(g)
    OBVIOUS
  <2> HIDE DEF InGroup
  <2> QED
    BY <2>1
<1> HIDE DEF Expressions, Motions
<1> QED
  BY <1>1, <1>2, <1>3

\* A step that does not lose the object
LEMMA NotLost ==
    ASSUME LostOnlyByFiles, Refused \/ Discard \/ UNCHANGED <<object, doc>> \/ object' # "lost"
    PROVE  LostOnlyByFiles'
  BY DEF LostOnlyByFiles, Refused, Discard, Ended

\* Only an unreadable file loses the object.
LEMMA LostStep == ASSUME PlaceOK, LostOnlyByFiles, Step PROVE LostOnlyByFiles'
<1>1. CASE ReadJson \/ Construct
  BY <1>1, ReadCases, NotLost DEF Read, Constructed
<1>2. CASE BeginTextures
  BY <1>2, TexturesBegun, NotLost
<1>3. CASE LoadTexture
  <2>1. CASE Lose /\ (doc.textures[next] \in {"short", "missing", "bad"} \/ next > TextureCount)
    <3>1. next \in Nat \ {0} /\ next <= Len(doc.textures)
      BY <1>3, TextureCases DEF PlaceOK
    <3>2. doc.textures \in Seq(TexturePaths)
      BY DocumentsAssumption DEF PlaceOK
    <3>3. ~TexturesFit(doc)
      BY <2>1, <3>1, <3>2, CountAssumption DEF TexturesFit
    <3>4. doc' = doc
      BY <2>1 DEF Lose, Ended
    <3> QED
      BY <3>3, <3>4 DEF LostOnlyByFiles
  <2> QED
    BY <1>3, <2>1, TextureCases, NotLost DEF TextureLoaded
<1>4. CASE LoadExpression
  <2>1. CASE Lose /\ doc.expressions[next].file = "missing"
    <3>1. next \in DOMAIN doc.expressions
      BY <1>4, ExpressionCases
    <3>2. "missing" \in FilesNamed(doc)
      BY <2>1, <3>1, FilesAreNamed DEF PlaceOK
    <3> QED
      BY <2>1, <3>2 DEF Lose, Ended, LostOnlyByFiles
  <2> QED
    BY <1>4, <2>1, ExpressionCases, NotLost DEF ExpressionLoaded
<1>5. CASE LoadMotion
  <2>1. CASE Lose /\ Group(next).list[part].file = "missing"
    <3>1. next \in DOMAIN doc.motions /\ part \in DOMAIN doc.motions[next].list
      BY <1>5, MotionCases DEF Group
    <3>2. "missing" \in FilesNamed(doc)
      BY <2>1, <3>1, FilesAreNamed DEF PlaceOK, Group
    <3> QED
      BY <2>1, <3>2 DEF Lose, Ended, LostOnlyByFiles
  <2> QED
    BY <1>5, <2>1, MotionCases, NotLost DEF MotionLoaded
<1>6. CASE LoadPhysics
  <2>1. CASE Lose /\ doc.physics = "missing"
    BY <2>1, FilesAreNamed DEF PlaceOK, Lose, Ended, LostOnlyByFiles
  <2> QED
    BY <1>6, <2>1, PhysicsCases, NotLost
<1>7. CASE LoadPose
  <2>1. CASE Lose /\ doc.pose = "missing"
    BY <2>1, FilesAreNamed DEF PlaceOK, Lose, Ended, LostOnlyByFiles
  <2> QED
    BY <1>7, <2>1, PoseCases, NotLost
<1>8. CASE EndTextures \/ SetDefaultExpression \/ NextGroup \/ SetIdleMotion
           \/ LoadGroup \/ EndGroups \/ Wrap
  BY <1>8, NotLost
  DEF EndTextures, SetDefaultExpression, NextGroup, SetIdleMotion, LoadGroup, EndGroups, Wrap
<1> QED
  BY <1>1, <1>2, <1>3, <1>4, <1>5, <1>6, <1>7, <1>8 DEF Step

\* The same for the next-state relation
LEMMA LostNext == ASSUME Place, LostOnlyByFiles, [Next]_vars PROVE LostOnlyByFiles'
<1>1. CASE UNCHANGED vars
  BY <1>1, NotLost DEF vars
<1>2. CASE \E d \in Documents : Call(d)
  BY <1>2, NotLost DEF Call
<1>3. CASE Step
  BY <1>3, LostStep DEF Place
<1> QED
  BY <1>1, <1>2, <1>3 DEF Next

\* Without a missing file, and with textures that have a path of four characters,
\* are images and not too many, the object is deleted or returned: bad data in the
\* sections after the textures, and malformed texture paths, never lose it ("Must be
\* in try-catch block").
THEOREM OnlyFilesLose == Spec => []LostOnlyByFiles
<1>1. Init => LostOnlyByFiles
  BY DEF Init, LostOnlyByFiles
<1> QED
  BY <1>1, PlaceInit, PlaceNext, LostNext, PTL DEF Spec

-----------------------------------------------------------------------------

\* How much the call has left on the stack by then: after the constructor the
\* message of a failed FFI may be there too.
Left ==
    IF stage \in {"idle", "json"} THEN {0}
    ELSE IF stage = "moc" THEN {1}
    ELSE IF stage = "texture" THEN {5, 6}
    ELSE {3, 4}
Values == {"model3.json", "moc3", "message", "newMesh", "settings", "newImage"}
StackInv == stack \in Seq(Values) /\ Len(stack) \in Left

\* A pair as a sequence
LEMMA Pairs ==
    ASSUME NEW S, NEW a \in S, NEW b \in S
    PROVE  <<a, b>> \in Seq(S) /\ Len(<<a, b>>) = 2
  OBVIOUS

\* The empty stack
LEMMA EmptyStack == <<>> \in Seq(Values) /\ Len(<<>>) = 0
  OBVIOUS

\* Pushing one value or two, and popping two
LEMMA PushOne ==
    ASSUME NEW S, NEW s \in Seq(S), NEW a \in S
    PROVE  Append(s, a) \in Seq(S) /\ Len(Append(s, a)) = Len(s) + 1
  BY AppendProperties

\* Pushing a pair
LEMMA PushTwo ==
    ASSUME NEW S, NEW s \in Seq(S), NEW a \in S, NEW b \in S
    PROVE  s \o <<a, b>> \in Seq(S) /\ Len(s \o <<a, b>>) = Len(s) + 2
<1>1. <<a, b>> \in Seq(S) /\ Len(<<a, b>>) = 2
  BY Pairs
<1> QED
  BY <1>1, ConcatProperties

\* Popping what was pushed
LEMMA PopTwo ==
    ASSUME NEW S, NEW s \in Seq(S), Len(s) >= 2
    PROVE  /\ SubSeq(s, 1, Len(s) - 2) \in Seq(S)
           /\ Len(SubSeq(s, 1, Len(s) - 2)) = Len(s) - 2
<1>1. Len(s) \in Nat /\ Len(s) - 2 \in Int /\ (Len(s) - 2) - 1 + 1 = Len(s) - 2
  OBVIOUS
<1>2. \A i \in 1 .. Len(s) - 2 : s[i] \in S
  BY <1>1, ElementOfSeq
<1>3. /\ SubSeq(s, 1, Len(s) - 2) \in Seq(S)
      /\ Len(SubSeq(s, 1, Len(s) - 2))
            = IF 1 <= Len(s) - 2 THEN (Len(s) - 2) - 1 + 1 ELSE 0
  BY <1>1, <1>2, SubSeqProperties
<1>4. CASE Len(s) = 2
  BY <1>1, <1>3, <1>4
<1>5. CASE Len(s) > 2
  BY <1>1, <1>3, <1>5
<1> QED
  BY <1>1, <1>4, <1>5

\* Pushing a single value with \o
LEMMA JoinOne ==
    ASSUME NEW S, NEW s \in Seq(S), NEW a \in S
    PROVE  s \o <<a>> \in Seq(S) /\ Len(s \o <<a>>) = Len(s) + 1
<1>1. <<a>> \in Seq(S) /\ Len(<<a>>) = 1
  OBVIOUS
<1> QED
  BY <1>1, ConcatProperties

\* Joining two sequences of values
LEMMA Join ==
    ASSUME NEW S, NEW s \in Seq(S), NEW t \in Seq(S)
    PROVE  s \o t \in Seq(S) /\ Len(s \o t) = Len(s) + Len(t)
  BY ConcatProperties

\* The numbers of values the sections add and take
LEMMA Counts ==
    /\ \A n, m : n = 1 /\ m \in {0, 1} => (n + 1) + m \in {2, 3}
    /\ \A n : n \in {2, 3} => n + 1 \in {3, 4}
    /\ \A n : n \in {3, 4} => n + 2 \in {5, 6}
    /\ \A n : n \in {5, 6} => n - 2 \in {3, 4} /\ n >= 2
    /\ \A n : n \in {0, 1, 3, 4, 5, 6} => n <= 6
  OBVIOUS

\* By section: how many values there are
LEMMA LeftBySection ==
    /\ stage \in {"idle", "json"} => Left = {0}
    /\ stage = "moc" => Left = {1}
    /\ stage = "texture" => Left = {5, 6}
    /\ stage \notin {"idle", "json", "moc", "texture"} => Left = {3, 4}
  BY DEF Left

\* Every section keeps the stack as it expects it.
LEMMA StackStep == ASSUME Place, StackInv, Step PROVE StackInv'
<1> USE DEF At, Go, Left
<1>0. PlaceOK /\ stack \in Seq(Values)
  BY DEF Place, StackInv
<1>1. CASE Refused \/ Discard \/ Lose
  <2>1. stack' = <<>> /\ stage' = "idle"
    BY <1>1 DEF Refused, Discard, Lose, Ended
  <2>2. stack' \in Seq(Values) /\ Len(stack') = 0
    BY <2>1, EmptyStack, Zenon
  <2> QED
    BY <2>1, <2>2 DEF StackInv
<1>2. CASE stack' = stack /\ stage' = stage
  BY <1>2 DEF StackInv
<1>3. CASE ReadJson
  <2>1. CASE Read
    <3>1. stage = "json" /\ stage' = "moc" /\ stack' = Append(stack, "model3.json")
      BY <1>3, <2>1, ReadCases DEF Read
    <3>2. Len(stack) = 0
      BY <3>1 DEF StackInv
    <3>3. Len(Append(stack, "model3.json")) = Len(stack) + 1
          /\ Append(stack, "model3.json") \in Seq(Values)
      BY <1>0, PushOne DEF Values
    <3>4. stack' \in Seq(Values) /\ Len(stack') = Len(stack) + 1
      BY <3>1, <3>3, Zenon
    <3> QED
      BY <3>1, <3>2, <3>4 DEF StackInv
  <2> QED
    BY <1>1, <1>3, <2>1, ReadCases
<1>4. CASE Construct
  <2>1. CASE Constructed
    <3>1. PICK message \in FFIMessages :
                stack' = stack \o <<"moc3">> \o message \o <<"newMesh">>
      BY <2>1 DEF Constructed
    <3>2. stage = "moc" /\ stage' = "textures" /\ Len(stack) = 1
      BY <1>4, <2>1, ReadCases DEF Constructed, StackInv
    <3>3. message \in Seq(Values) /\ Len(message) \in {0, 1}
      <4>1. message = <<>> \/ message = <<"message">>
        BY <3>1 DEF FFIMessages
      <4>2. CASE message = <<>>
        BY <4>2, EmptyStack, Zenon
      <4>3. CASE message = <<"message">>
        BY <4>3, PushOne DEF Values
      <4> QED
        BY <4>1, <4>2, <4>3
    <3> DEFINE s1 == stack \o <<"moc3">>
               s2 == s1 \o message
    <3>4. s1 \in Seq(Values) /\ Len(s1) = Len(stack) + 1
      BY <1>0, JoinOne DEF Values
    <3> HIDE DEF s1
    <3>5. s2 \in Seq(Values) /\ Len(s2) = Len(s1) + Len(message)
      BY <3>3, <3>4, Join
    <3> HIDE DEF s2
    <3>6. s2 \o <<"newMesh">> \in Seq(Values) /\ Len(s2 \o <<"newMesh">>) = Len(s2) + 1
      BY <3>5, JoinOne DEF Values
    <3>a. stack' = s2 \o <<"newMesh">>
      BY <3>1 DEF s1, s2
    <3>7. stack' \in Seq(Values) /\ Len(stack') \in {3, 4}
      <4>1. Len(s2) \in {2, 3}
        <5>1. Len(s2) = (Len(stack) + 1) + Len(message)
          BY <3>4, <3>5, Zenon
        <5>2. (Len(stack) + 1) + Len(message) \in {2, 3}
          BY <3>2, <3>3, Counts, Zenon
        <5> QED
          BY <5>1, <5>2, Zenon
      <4> QED
        BY <3>6, <3>a, <4>1, Counts, Zenon
    <3> QED
      BY <3>2, <3>7 DEF StackInv
  <2> QED
    BY <1>1, <1>4, <2>1, ReadCases
<1>5. CASE BeginTextures
  <2>1. Len(stack \o <<"settings", "newImage">>) = Len(stack) + 2
        /\ stack \o <<"settings", "newImage">> \in Seq(Values)
    BY <1>0, PushTwo DEF Values
  <2>2. CASE stage = "textures" /\ stage' = "texture" /\ stack' = stack \o <<"settings", "newImage">>
    <3>1. Len(stack) \in {3, 4}
      BY <2>2 DEF StackInv
    <3>2. Len(stack') = Len(stack) + 2 /\ stack' \in Seq(Values)
      BY <2>1, <2>2
    <3>3. Len(stack') \in {5, 6}
      BY <3>1, <3>2, Counts, Zenon
    <3> QED
      BY <2>2, <3>2, <3>3 DEF StackInv
  <2>3. CASE stage = "textures" /\ stage' = "expressions" /\ stack' = stack
    BY <2>3 DEF StackInv
  <2> QED
    BY <1>0, <1>1, <1>5, <2>2, <2>3, TexturesBegun
<1>6. CASE EndTextures
  <2>1. Len(stack) \in {5, 6} /\ stage' = "expressions" /\ stack' = SubSeq(stack, 1, Len(stack) - 2)
    BY <1>6 DEF EndTextures, Pop, StackInv
  <2>2. stack' \in Seq(Values) /\ Len(stack') = Len(stack) - 2
    BY <1>0, <2>1, Counts, PopTwo, Zenon
  <2>3. Len(stack') \in {3, 4}
    BY <2>1, <2>2, Counts, Zenon
  <2> QED
    BY <2>1, <2>2, <2>3 DEF StackInv
<1>7. CASE LoadTexture \/ LoadExpression \/ LoadMotion
  BY <1>0, <1>1, <1>2, <1>7, TextureCases, ExpressionCases, MotionCases
  DEF TextureLoaded, ExpressionLoaded, MotionLoaded
<1>8. CASE LoadPhysics
  BY <1>0, <1>1, <1>8, PhysicsCases DEF StackInv
<1>9. CASE LoadPose
  BY <1>0, <1>1, <1>9, PoseCases DEF StackInv
<1>10. CASE SetDefaultExpression \/ SetIdleMotion \/ EndGroups
  BY <1>10 DEF SetDefaultExpression, SetIdleMotion, EndGroups, StackInv
<1>11. CASE NextGroup \/ LoadGroup
  BY <1>2, <1>11 DEF NextGroup, LoadGroup
<1>12. CASE Wrap
  BY <1>12 DEF Wrap, StackInv
<1> QED
  BY <1>3, <1>4, <1>5, <1>6, <1>7, <1>8, <1>9, <1>10, <1>11, <1>12 DEF Step

\* No document needs more of the Lua stack than another: six values at most of
\* the 24 that loadModel asks for (its luaL_checkstack).
THEOREM StackIsBounded == Spec => []StackBounded
<1> USE DEF At, Go, Left
<1>1. Init => StackInv
  BY DEF Init, StackInv
<1>2. ASSUME Place, StackInv, [Next]_vars PROVE StackInv'
  <2>1. CASE UNCHANGED vars
    BY <1>2, <2>1 DEF vars, StackInv
  <2>2. CASE \E d \in Documents : Call(d)
    BY <1>2, <2>2 DEF Call, StackInv
  <2> QED
    BY <1>2, <2>1, <2>2, StackStep DEF Next
<1>3. StackInv => StackBounded
  <2> SUFFICES ASSUME StackInv PROVE Len(stack) <= 6
    BY DEF StackBounded
  <2>1. Len(stack) \in {0, 1, 3, 4, 5, 6}
    BY LeftBySection DEF StackInv
  <2> QED
    BY <2>1, Counts, Zenon
<1> QED
  BY <1>1, <1>2, <1>3, PlaceInit, PlaceNext, PTL DEF Spec

-----------------------------------------------------------------------------

\* A record with the fields of another has no others.
Fields == {"expressions", "motions", "expression", "loaded", "motion", "started",
           "physics", "pose", "eyeBlink", "textures"}

\* What has been chosen is loaded; nothing is started before its section ends.
StartedInv ==
    /\ DOMAIN model = Fields
    /\ DOMAIN chosen = {"expression", "motion"}
    /\ chosen.expression # NoName => chosen.expression \in DOMAIN model.expressions
    /\ chosen.motion # NoName => chosen.motion \in DOMAIN model.motions
    /\ stage \in {"json", "moc", "textures", "texture", "expressions"} =>
            model.expression = NoName
    /\ stage \in {"json", "moc", "textures", "texture", "expressions", "motions"} =>
            model.motion = NoName
    /\ StartedStays

\* Nothing has started in a new object.
LEMMA NewStarted ==
    /\ DOMAIN NewModel = Fields
    /\ NewModel.expression = NoName /\ NewModel.motion = NoName
    /\ DOMAIN NothingChosen = {"expression", "motion"}
    /\ NothingChosen.expression = NoName /\ NothingChosen.motion = NoName
  BY DEF NewModel, NothingChosen, Fields

\* A step that loads and starts nothing, into a section that expects no less
LEMMA SameStarted ==
    ASSUME StartedInv, chosen' = chosen, DOMAIN model' = Fields,
           model'.expressions = model.expressions, model'.motions = model.motions,
           model'.expression = model.expression, model'.loaded = model.loaded,
           model'.motion = model.motion, model'.started = model.started,
           \/ stage' = stage
           \/ stage' \notin {"json", "moc", "textures", "texture", "expressions", "motions"}
           \/ stage \in {"json", "moc", "textures", "texture"} /\ stage' # "motions"
    PROVE  StartedInv'
  BY DEF StartedInv, StartedStays

\* Every section keeps what has started.
LEMMA StartedStep == ASSUME PlaceOK, StartedInv, Step PROVE StartedInv'
<1> USE DEF At, Go
<1>0. DOMAIN model = Fields
  BY DEF StartedInv
<1>1. CASE Refused \/ Discard \/ Lose
  BY <1>0, <1>1, SameStarted DEF Refused, Discard, Lose, Ended
<1>2. CASE ReadJson \/ Construct \/ EndTextures \/ NextGroup \/ EndGroups \/ Wrap
  BY <1>0, <1>1, <1>2, ReadCases, SameStarted
  DEF Read, Constructed, EndTextures, NextGroup, EndGroups, Wrap
<1>3. CASE BeginTextures
  BY <1>0, <1>1, <1>3, TexturesBegun, SameStarted
<1>4. CASE LoadTexture
  <2>1. CASE TextureLoaded
    BY <1>0, <2>1, SameStarted DEF TextureLoaded, Fields
  <2> QED
    BY <1>1, <1>4, <2>1, TextureCases
<1>5. CASE LoadExpression
  <2>1. CASE ExpressionLoaded
    <3> DEFINE n == doc.expressions[next].name
    <3>1. /\ stage = "expressions" /\ stage' = stage
          /\ DOMAIN model' = Fields /\ DOMAIN chosen' = {"expression", "motion"}
          /\ model'.expressions = Put(model.expressions, n, next)
          /\ model'.motions = model.motions
          /\ model'.expression = model.expression /\ model'.motion = model.motion
          /\ chosen'.motion = chosen.motion
          /\ chosen'.expression = chosen.expression \/ chosen'.expression = n
      BY <1>5, <2>1, ExpressionCases DEF ExpressionLoaded, FirstChosen, StartedInv, Fields
    <3>2. DOMAIN Put(model.expressions, n, next) = DOMAIN model.expressions \cup {n}
      BY DEF Put
    <3>3. model.expression = NoName /\ model.motion = NoName
      BY <3>1 DEF StartedInv
    <3> HIDE DEF n
    <3> QED
      BY <3>1, <3>2, <3>3 DEF StartedInv, StartedStays
  <2> QED
    BY <1>1, <1>5, <2>1, ExpressionCases
<1>6. CASE SetDefaultExpression
  <2>1. CASE chosen.expression = NoName
    BY <1>6, <2>1 DEF SetDefaultExpression, StartedInv, StartedStays
  <2>2. CASE chosen.expression # NoName
    <3>1. /\ stage = "expressions" /\ stage' = "motions" /\ chosen' = chosen
          /\ DOMAIN model' = Fields
          /\ model'.expressions = model.expressions /\ model'.motions = model.motions
          /\ model'.expression = chosen.expression
          /\ model'.loaded = model.expressions[chosen.expression]
          /\ model'.motion = model.motion
      BY <1>0, <1>6, <2>2 DEF SetDefaultExpression, Fields
    <3> QED
      BY <2>2, <3>1 DEF StartedInv, StartedStays
  <2> QED
    BY <2>1, <2>2
<1>7. CASE LoadMotion
  <2>1. CASE MotionLoaded
    <3> DEFINE n == MotionName(next, part)
               m == Motion(next, part)
    <3>1. /\ stage = "motions" /\ stage' = stage
          /\ DOMAIN model' = Fields /\ DOMAIN chosen' = {"expression", "motion"}
          /\ model'.motions = Put(model.motions, n, m)
          /\ model'.expressions = model.expressions
          /\ model'.expression = model.expression /\ model'.motion = model.motion
          /\ model'.loaded = model.loaded
          /\ chosen'.expression = chosen.expression
          /\ chosen'.motion = chosen.motion \/ chosen'.motion = n
      BY <1>7, <2>1, MotionCases DEF MotionLoaded, FirstChosen, StartedInv, Fields
    <3>2. DOMAIN Put(model.motions, n, m) = DOMAIN model.motions \cup {n}
      BY DEF Put
    <3>3. model.motion = NoName
      BY <3>1 DEF StartedInv
    <3> HIDE DEF n, m
    <3> QED
      BY <3>1, <3>2, <3>3 DEF StartedInv, StartedStays
  <2> QED
    BY <1>1, <1>7, <2>1, MotionCases
<1>8. CASE SetIdleMotion
  <2>1. CASE chosen.motion = NoName
    BY <1>8, <2>1 DEF SetIdleMotion, StartedInv, StartedStays
  <2>2. CASE chosen.motion # NoName
    <3>1. /\ stage = "motions" /\ stage' = "physics" /\ chosen' = chosen
          /\ DOMAIN model' = Fields
          /\ model'.expressions = model.expressions /\ model'.motions = model.motions
          /\ model'.expression = model.expression /\ model'.loaded = model.loaded
          /\ model'.motion = chosen.motion
          /\ model'.started = model.motions[chosen.motion]
      BY <1>0, <1>8, <2>2 DEF SetIdleMotion, Fields
    <3> QED
      BY <2>2, <3>1 DEF StartedInv, StartedStays
  <2> QED
    BY <2>1, <2>2
<1>9. CASE LoadPhysics
  <2>1. CASE ~(Discard \/ Lose)
    BY <1>0, <1>9, <2>1, PhysicsCases, SameStarted DEF Fields
  <2> QED
    BY <1>1, <2>1
<1>10. CASE LoadPose
  <2>1. CASE ~(Discard \/ Lose)
    BY <1>0, <1>10, <2>1, PoseCases, SameStarted DEF Fields
  <2> QED
    BY <1>1, <2>1
<1>11. CASE LoadGroup
  BY <1>0, <1>11, SameStarted DEF LoadGroup, Fields
<1> QED
  BY <1>2, <1>3, <1>4, <1>5, <1>6, <1>7, <1>8, <1>9, <1>10, <1>11 DEF Step

\* A new call has started nothing, and neither has the first.
LEMMA StartedNext ==
    /\ Init => StartedInv
    /\ Place /\ StartedInv /\ [Next]_vars => StartedInv'
<1>1. Init => StartedInv
  BY NewStarted DEF Init, StartedInv, StartedStays
<1>2. ASSUME Place, StartedInv, [Next]_vars PROVE StartedInv'
  <2>1. CASE UNCHANGED vars
    BY <1>2, <2>1 DEF vars, StartedInv, StartedStays
  <2>2. CASE \E d \in Documents : Call(d)
    BY <2>2, NewStarted DEF Call, StartedInv, StartedStays
  <2> QED
    BY <1>2, <2>1, <2>2, StartedStep DEF Next, Place
<1> QED
  BY <1>1, <1>2

\* The default expression and the idle motion that loadModel starts are those the
\* names stand for when it returns: what the managers play is never deleted by a
\* later load of the same call.
THEOREM StartedIsKept == Spec => []StartedStays
<1>1. StartedInv => StartedStays
  BY DEF StartedInv
<1> QED
  BY <1>1, StartedNext, PlaceInit, PlaceNext, PTL DEF Spec

-----------------------------------------------------------------------------
(***************************************************************************)
(* What loadModel has loaded so far: the sections before the present one   *)
(* are whole, the present one up to the element that is next.              *)
(***************************************************************************)

\* The first k expressions are in the map, under each name the last of them, and
\* the first default one is chosen.
ExpressionsTo(d, map, choice, k) ==
    LET e == d.expressions
        defaults == {i \in 1 .. k : e[i].name \in DefaultNames}
    IN  /\ DOMAIN map = {e[i].name : i \in 1 .. k}
        /\ \A i \in 1 .. k : map[e[i].name] >= i
        /\ \A n \in DOMAIN map : map[n] \in 1 .. k /\ e[map[n]].name = n
        /\ IF defaults = {} THEN choice = NoName
           ELSE \E i \in defaults : choice = e[i].name /\ \A j \in defaults : i <= j

\* The places, names and motions of a document
PlacesOf(d) == UNION {{<<g, j>> : j \in DOMAIN d.motions[g].list} : g \in DOMAIN d.motions}
NameOf(d, p) ==
    IF Len(d.motions[p[1]].list) > 1 THEN Append(d.motions[p[1]].name, p[2])
    ELSE d.motions[p[1]].name
MotionOf(d, p) ==
    LET info == d.motions[p[1]].list[p[2]]
    IN  [group |-> p[1], index |-> p[2], fadeIn |-> Time(info.fadeIn),
         fadeOut |-> IF info.fadeOut = NoTime THEN 1
                     ELSE IF Len(d.motions[p[1]].list) > 1 THEN Time(info.fadeIn)
                     ELSE info.fadeOut]
IdleAt(d, p) == NameOf(d, p)[1] \in IdleNames

\* The same for the motions at the places D
MotionsTo(d, map, choice, D) ==
    /\ DOMAIN map = {NameOf(d, p) : p \in D}
    /\ \A p \in D :
          (\A q \in D : NameOf(d, q) = NameOf(d, p) => ~Before(p, q))
              => map[NameOf(d, p)] = MotionOf(d, p)
    /\ IF \E p \in D : IdleAt(d, p)
       THEN \E p \in D : /\ IdleAt(d, p) /\ choice = NameOf(d, p)
                         /\ \A q \in D : IdleAt(d, q) => ~Before(q, p)
       ELSE choice = NoName

\* The places before the motion j of the group g
DoneAt(d, g, j) == {p \in PlacesOf(d) : Before(p, <<g, j>>)}

\* The last of the first k groups that is not empty
EyesTo(d, eyes, k) ==
    LET full == {i \in 1 .. k : d.groups[i] # {}}
    IN  IF full = {} THEN eyes = DefaultEyes
        ELSE \E i \in full : eyes = d.groups[i] /\ \A j \in full : j <= i

ToTextures == {"json", "moc", "textures"}
ToExpressions == ToTextures \cup {"texture"}
ToMotions == ToExpressions \cup {"expressions"}
ToPhysics == ToMotions \cup {"motions"}
ToPose == ToPhysics \cup {"physics"}
ToGroups == ToPose \cup {"pose"}

TexturesDone ==
    IF stage \in ToTextures THEN {}
    ELSE IF stage = "texture" THEN 1 .. (next - 1) ELSE DOMAIN doc.textures
ExpressionsDone ==
    IF stage \in ToExpressions THEN 0
    ELSE IF stage = "expressions" THEN next - 1 ELSE Len(doc.expressions)
MotionsDone ==
    IF stage \in ToMotions THEN {}
    ELSE IF stage = "motions" THEN DoneAt(doc, next, part) ELSE PlacesOf(doc)
GroupsDone ==
    IF stage \in ToGroups THEN 0
    ELSE IF stage = "groups" THEN next - 1 ELSE Len(doc.groups)

Loaded ==
    /\ model.textures = TexturesDone
    /\ ExpressionsTo(doc, model.expressions, chosen.expression, ExpressionsDone)
    /\ model.expression = IF stage \in ToMotions THEN NoName ELSE chosen.expression
    /\ MotionsTo(doc, model.motions, chosen.motion, MotionsDone)
    /\ model.motion = IF stage \in ToPhysics THEN NoName ELSE chosen.motion
    /\ model.physics = (stage \notin ToPose /\ doc.physics = "ok")
    /\ model.pose = (stage \notin ToGroups /\ doc.pose = "ok")
    /\ EyesTo(doc, model.eyeBlink, GroupsDone)
Within ==
    /\ stage = "texture" => next <= Len(doc.textures) + 1
    /\ stage = "expressions" => next <= Len(doc.expressions) + 1
    /\ stage = "motions" => next <= Len(doc.motions) + 1
    /\ stage = "groups" => next <= Len(doc.groups) + 1

LoadedInv ==
    /\ stage \in {"json", "moc"} => object = "none"
    /\ Within
    /\ stage # "idle" \/ object = "wrapped" => Loaded

\* Nothing is loaded before the first element.
LEMMA NothingTo ==
    ASSUME NEW d
    PROVE  /\ ExpressionsTo(d, EmptyMap, NoName, 0)
           /\ MotionsTo(d, EmptyMap, NoName, {})
           /\ EyesTo(d, DefaultEyes, 0)
<1>1. DOMAIN EmptyMap = {}
  BY DEF EmptyMap
<1>2. ExpressionsTo(d, EmptyMap, NoName, 0)
  BY <1>1 DEF ExpressionsTo
<1>3. MotionsTo(d, EmptyMap, NoName, {})
  BY <1>1 DEF MotionsTo
<1>4. EyesTo(d, DefaultEyes, 0)
  BY DEF EyesTo
<1> QED
  BY <1>2, <1>3, <1>4

\* An expression more
LEMMA ExpressionMore ==
    ASSUME NEW d, NEW map, NEW choice, NEW k \in Nat \ {0},
           ExpressionsTo(d, map, choice, k - 1)
    PROVE  LET n == d.expressions[k].name
           IN  ExpressionsTo(d, Put(map, n, k), FirstChosen(choice, n, n \in DefaultNames), k)
<1> DEFINE e == d.expressions
           n == e[k].name
           new == Put(map, n, k)
           defaults(j) == {i \in 1 .. j : e[i].name \in DefaultNames}
           now == FirstChosen(choice, n, n \in DefaultNames)
<1>1. 1 .. k = (1 .. (k - 1)) \cup {k} /\ k \notin 1 .. (k - 1)
  OBVIOUS
<1>2. /\ DOMAIN new = DOMAIN map \cup {n}
      /\ new[n] = k /\ \A m \in DOMAIN map \ {n} : new[m] = map[m]
  BY DEF Put
<1>3. /\ DOMAIN map = {e[i].name : i \in 1 .. (k - 1)}
      /\ \A i \in 1 .. (k - 1) : map[e[i].name] >= i
      /\ \A m \in DOMAIN map : map[m] \in 1 .. (k - 1) /\ e[map[m]].name = m
  BY DEF ExpressionsTo
<1>4. DOMAIN new = {e[i].name : i \in 1 .. k}
  BY <1>1, <1>2, <1>3
<1>5. \A i \in 1 .. k : new[e[i].name] >= i
  <2> TAKE i \in 1 .. k
  <2>1. CASE e[i].name = n
    BY <1>2, <2>1
  <2>2. CASE e[i].name # n
    BY <1>1, <1>2, <1>3, <2>2
  <2> QED
    BY <2>1, <2>2
<1>6. \A m \in DOMAIN new : new[m] \in 1 .. k /\ e[new[m]].name = m
  BY <1>1, <1>2, <1>3
<1>7. IF defaults(k - 1) = {} THEN choice = NoName
      ELSE \E i \in defaults(k - 1) :
              choice = e[i].name /\ \A j \in defaults(k - 1) : i <= j
  BY DEF ExpressionsTo
<1>8. IF defaults(k) = {} THEN now = NoName
      ELSE \E i \in defaults(k) : now = e[i].name /\ \A j \in defaults(k) : i <= j
  <2>1. CASE n \notin DefaultNames
    <3>1. defaults(k) = defaults(k - 1) /\ now = choice
      BY <1>1, <2>1 DEF FirstChosen
    <3> QED
      BY <1>7, <3>1
  <2>2. CASE n \in DefaultNames /\ defaults(k - 1) = {}
    <3>1. defaults(k) = {k} /\ now = n
      BY <1>1, <1>7, <2>2 DEF FirstChosen
    <3> QED
      BY <3>1
  <2>3. CASE n \in DefaultNames /\ defaults(k - 1) # {}
    <3>1. defaults(k) = defaults(k - 1) \cup {k}
      BY <1>1, <2>3
    <3>2. PICK i \in defaults(k - 1) : choice = e[i].name /\ \A j \in defaults(k - 1) : i <= j
      BY <1>7, <2>3
    <3>3. choice # NoName
      BY <3>2, NamesAssumption
    <3>4. now = choice
      BY <3>3 DEF FirstChosen
    <3>5. i <= k
      BY <3>2
    <3> QED
      BY <3>1, <3>2, <3>4, <3>5
  <2> QED
    BY <2>1, <2>2, <2>3
<1> QED
  BY <1>4, <1>5, <1>6, <1>8 DEF ExpressionsTo

\* A motion more, after all others
LEMMA MotionMore ==
    ASSUME NEW d \in Documents, NEW map, NEW choice, NEW D, NEW p \in PlacesOf(d),
           D \subseteq PlacesOf(d), \A q \in D : Before(q, p) /\ ~Before(p, q),
           ~Before(p, p), MotionsTo(d, map, choice, D)
    PROVE  LET n == NameOf(d, p)
           IN  MotionsTo(d, Put(map, n, MotionOf(d, p)),
                         FirstChosen(choice, n, n[1] \in IdleNames), D \cup {p})
<1> DEFINE n == NameOf(d, p)
           new == Put(map, n, MotionOf(d, p))
           now == FirstChosen(choice, n, n[1] \in IdleNames)
<1>1. /\ DOMAIN new = DOMAIN map \cup {n} /\ new[n] = MotionOf(d, p)
      /\ \A m \in DOMAIN map \ {n} : new[m] = map[m]
  BY DEF Put
<1>2. /\ DOMAIN map = {NameOf(d, q) : q \in D}
      /\ \A q \in D : (\A l \in D : NameOf(d, l) = NameOf(d, q) => ~Before(q, l))
                        => map[NameOf(d, q)] = MotionOf(d, q)
  BY DEF MotionsTo
<1>3. DOMAIN new = {NameOf(d, q) : q \in D \cup {p}}
  BY <1>1, <1>2
<1>4. ASSUME NEW q \in D \cup {p},
             \A l \in D \cup {p} : NameOf(d, l) = NameOf(d, q) => ~Before(q, l)
      PROVE  new[NameOf(d, q)] = MotionOf(d, q)
  <2>1. CASE q = p
    BY <1>1, <2>1
  <2>2. CASE q # p
    <3>1. q \in D /\ NameOf(d, q) # n
      BY <1>4, <2>2
    <3>2. map[NameOf(d, q)] = MotionOf(d, q) /\ NameOf(d, q) \in DOMAIN map
      BY <1>2, <1>4, <3>1
    <3> QED
      BY <1>1, <3>1, <3>2
  <2> QED
    BY <2>1, <2>2
<1>5. IF \E q \in D : IdleAt(d, q)
      THEN \E q \in D : /\ IdleAt(d, q) /\ choice = NameOf(d, q)
                        /\ \A l \in D : IdleAt(d, l) => ~Before(l, q)
      ELSE choice = NoName
  BY DEF MotionsTo
<1>6. \A q \in PlacesOf(d) : IdleAt(d, q) => NameOf(d, q) # NoName
  <2> SUFFICES ASSUME NEW q \in PlacesOf(d), IdleAt(d, q) PROVE NameOf(d, q) # NoName
    OBVIOUS
  <2>a. PICK g \in DOMAIN d.motions : \E j \in DOMAIN d.motions[g].list : q = <<g, j>>
    BY DEF PlacesOf
  <2>1. PICK j \in DOMAIN d.motions[g].list : q = <<g, j>>
    BY <2>a
  <2>2. \A m \in {d.motions[g].name, Append(d.motions[g].name, j)} :
            m[1] \in IdleNames => m # NoName
    BY DocumentsAssumption, <2>1
  <2>3. NameOf(d, q) \in {d.motions[g].name, Append(d.motions[g].name, j)}
    BY <2>1 DEF NameOf
  <2> QED
    BY <2>2, <2>3 DEF IdleAt
<1>7. IF \E q \in D \cup {p} : IdleAt(d, q)
      THEN \E q \in D \cup {p} : /\ IdleAt(d, q) /\ now = NameOf(d, q)
                                 /\ \A l \in D \cup {p} : IdleAt(d, l) => ~Before(l, q)
      ELSE now = NoName
  <2>1. CASE \E q \in D : IdleAt(d, q)
    <3>1. PICK q \in D : /\ IdleAt(d, q) /\ choice = NameOf(d, q)
                         /\ \A l \in D : IdleAt(d, l) => ~Before(l, q)
      BY <1>5, <2>1
    <3>2. now = choice
      BY <1>6, <3>1 DEF FirstChosen
    <3> QED
      BY <3>1, <3>2
  <2>2. CASE ~ \E q \in D : IdleAt(d, q)
    <3>1. choice = NoName
      BY <1>5, <2>2
    <3>2. now = IF IdleAt(d, p) THEN n ELSE NoName
      BY <3>1 DEF FirstChosen, IdleAt
    <3> QED
      BY <2>2, <3>2
  <2> QED
    BY <2>1, <2>2
<1> QED
  BY <1>3, <1>4, <1>7 DEF MotionsTo

\* A group of eye blink parameters more
LEMMA GroupMore ==
    ASSUME NEW d, NEW eyes, NEW k \in Nat \ {0}, EyesTo(d, eyes, k - 1)
    PROVE  EyesTo(d, IF d.groups[k] = {} THEN eyes ELSE d.groups[k], k)
<1> DEFINE full(j) == {i \in 1 .. j : d.groups[i] # {}}
<1>1. 1 .. k = (1 .. (k - 1)) \cup {k}
  OBVIOUS
<1>2. CASE d.groups[k] = {}
  <2>1. full(k) = full(k - 1)
    BY <1>1, <1>2
  <2> QED
    BY <1>2, <2>1 DEF EyesTo
<1>3. CASE d.groups[k] # {}
  <2>1. k \in full(k) /\ \A j \in full(k) : j <= k
    BY <1>3
  <2> QED
    BY <1>3, <2>1 DEF EyesTo
<1> QED
  BY <1>2, <1>3

\* The places are pairs of numbers, ordered by Before.
LEMMA PlacePairs ==
    ASSUME NEW d \in Documents
    PROVE  /\ Len(d.motions) \in Nat /\ DOMAIN d.motions = 1 .. Len(d.motions)
           /\ \A g \in DOMAIN d.motions : /\ Len(d.motions[g].list) \in Nat
                                          /\ DOMAIN d.motions[g].list = 1 .. Len(d.motions[g].list)
           /\ \A p : p \in PlacesOf(d) <=>
                \E g \in DOMAIN d.motions : \E j \in DOMAIN d.motions[g].list : p = <<g, j>>
<1> DEFINE Infos == [file : Files, fadeIn : Nat \cup {NoTime}, fadeOut : Nat \cup {NoTime}]
<1>1. Len(d.motions) \in Nat /\ DOMAIN d.motions = 1 .. Len(d.motions)
  BY DocumentsAssumption
<1>2. \A g \in DOMAIN d.motions : d.motions[g].list \in Seq(Infos)
  BY DocumentsAssumption
<1>3. \A g \in DOMAIN d.motions : /\ Len(d.motions[g].list) \in Nat
                                  /\ DOMAIN d.motions[g].list = 1 .. Len(d.motions[g].list)
  <2> HIDE DEF Infos
  <2> QED
    BY <1>2
<1>4. \A p : p \in PlacesOf(d) <=>
            \E g \in DOMAIN d.motions : \E j \in DOMAIN d.motions[g].list : p = <<g, j>>
  BY DEF PlacesOf
<1> QED
  BY <1>1, <1>3, <1>4

\* Where the places done begin and end, and how a step adds to them
LEMMA DoneSteps ==
    ASSUME NEW d \in Documents
    PROVE  /\ DoneAt(d, 1, 1) = {}
           /\ \A g \in DOMAIN d.motions : \A j \in DOMAIN d.motions[g].list :
                /\ <<g, j>> \in PlacesOf(d) /\ ~Before(<<g, j>>, <<g, j>>)
                /\ DoneAt(d, g, j + 1) = DoneAt(d, g, j) \cup {<<g, j>>}
                /\ \A q \in DoneAt(d, g, j) : Before(q, <<g, j>>) /\ ~Before(<<g, j>>, q)
           /\ \A g \in DOMAIN d.motions, j \in Nat :
                j > Len(d.motions[g].list) => DoneAt(d, g + 1, 1) = DoneAt(d, g, j)
           /\ \A j : DoneAt(d, Len(d.motions) + 1, j) = PlacesOf(d)
<1> USE PlacePairs DEF DoneAt, Before
<1>1. \A p \in PlacesOf(d) : p[1] \in 1 .. Len(d.motions) /\ p[2] \in 1 .. Len(d.motions[p[1]].list)
                             /\ p = <<p[1], p[2]>>
  OBVIOUS
<1>a. \A g \in DOMAIN d.motions : g \in Nat /\ Len(d.motions[g].list) \in Nat
  OBVIOUS
<1>2. DoneAt(d, 1, 1) = {}
  BY <1>1, <1>a
<1>3. ASSUME NEW g \in DOMAIN d.motions, NEW j \in DOMAIN d.motions[g].list
      PROVE  /\ <<g, j>> \in PlacesOf(d) /\ ~Before(<<g, j>>, <<g, j>>)
             /\ DoneAt(d, g, j + 1) = DoneAt(d, g, j) \cup {<<g, j>>}
             /\ \A q \in DoneAt(d, g, j) : Before(q, <<g, j>>) /\ ~Before(<<g, j>>, q)
  <2>1. <<g, j>> \in PlacesOf(d) /\ j \in Nat /\ g \in Nat
    OBVIOUS
  <2>2. \A p \in PlacesOf(d) : p[1] \in Nat /\ p[2] \in Nat
    BY <1>1, <1>a
  <2>3. \A p \in PlacesOf(d) : (p[1] = g /\ p[2] < j + 1) <=> ((p[1] = g /\ p[2] < j) \/ p = <<g, j>>)
    BY <1>1, <2>1, <2>2
  <2>4. DoneAt(d, g, j + 1) = DoneAt(d, g, j) \cup {<<g, j>>}
    BY <2>1, <2>3
  <2>5. \A q \in DoneAt(d, g, j) : Before(q, <<g, j>>) /\ ~Before(<<g, j>>, q)
    BY <2>1, <2>2
  <2> QED
    BY <2>1, <2>4, <2>5
<1>4. ASSUME NEW g \in DOMAIN d.motions, NEW j \in Nat, j > Len(d.motions[g].list)
      PROVE  DoneAt(d, g + 1, 1) = DoneAt(d, g, j)
  <2>1. ASSUME NEW p \in PlacesOf(d)
        PROVE  Before(p, <<g + 1, 1>>) <=> Before(p, <<g, j>>)
    <3>1. p[1] \in Nat /\ p[2] \in Nat \ {0} /\ g \in Nat /\ (p[1] = g => p[2] < j)
      BY <1>1, <1>4, <1>a
    <3> QED
      BY <3>1
  <2> QED
    BY <2>1 DEF DoneAt
<1>5. ASSUME NEW j PROVE DoneAt(d, Len(d.motions) + 1, j) = PlacesOf(d)
  <2>1. \A p \in PlacesOf(d) : p[1] < Len(d.motions) + 1
    BY <1>1, <1>a
  <2> QED
    BY <2>1
<1> QED
  BY <1>2, <1>3, <1>4, <1>5

\* How far each section is, by the stage
LEMMA HowFar ==
    /\ stage \in ToTextures => TexturesDone = {}
    /\ stage = "texture" => TexturesDone = 1 .. (next - 1)
    /\ stage \notin ToExpressions => TexturesDone = DOMAIN doc.textures
    /\ stage \in ToExpressions => ExpressionsDone = 0
    /\ stage = "expressions" => ExpressionsDone = next - 1
    /\ stage \notin ToMotions => ExpressionsDone = Len(doc.expressions)
    /\ stage \in ToMotions => MotionsDone = {}
    /\ stage = "motions" => MotionsDone = DoneAt(doc, next, part)
    /\ stage \notin ToPhysics => MotionsDone = PlacesOf(doc)
    /\ stage \in ToGroups => GroupsDone = 0
    /\ stage = "groups" => GroupsDone = next - 1
    /\ stage \notin ToGroups \cup {"groups"} => GroupsDone = Len(doc.groups)
  BY DEF TexturesDone, ExpressionsDone, MotionsDone, GroupsDone,
         ToTextures, ToExpressions, ToMotions, ToPhysics, ToPose, ToGroups

\* The same after a step
LEMMA HowFarNext ==
    /\ stage' \in ToTextures => TexturesDone' = {}
    /\ stage' = "texture" => TexturesDone' = 1 .. (next' - 1)
    /\ stage' \notin ToExpressions => TexturesDone' = DOMAIN doc'.textures
    /\ stage' \in ToExpressions => ExpressionsDone' = 0
    /\ stage' = "expressions" => ExpressionsDone' = next' - 1
    /\ stage' \notin ToMotions => ExpressionsDone' = Len(doc'.expressions)
    /\ stage' \in ToMotions => MotionsDone' = {}
    /\ stage' = "motions" => MotionsDone' = DoneAt(doc', next', part')
    /\ stage' \notin ToPhysics => MotionsDone' = PlacesOf(doc')
    /\ stage' \in ToGroups => GroupsDone' = 0
    /\ stage' = "groups" => GroupsDone' = next' - 1
    /\ stage' \notin ToGroups \cup {"groups"} => GroupsDone' = Len(doc'.groups)
  BY DEF TexturesDone, ExpressionsDone, MotionsDone, GroupsDone,
         ToTextures, ToExpressions, ToMotions, ToPhysics, ToPose, ToGroups

\* A step that loads nothing and leaves each section as far as it is
LEMMA SameLoaded ==
    ASSUME Loaded, doc' = doc, model' = model, chosen' = chosen,
           TexturesDone' = TexturesDone, ExpressionsDone' = ExpressionsDone,
           MotionsDone' = MotionsDone, GroupsDone' = GroupsDone,
           stage' \in ToMotions <=> stage \in ToMotions,
           stage' \in ToPhysics <=> stage \in ToPhysics,
           stage' \in ToPose <=> stage \in ToPose,
           stage' \in ToGroups <=> stage \in ToGroups
    PROVE  Loaded'
  BY DEF Loaded

\* The end of a call with an error
LEMMA EndLoaded ==
    ASSUME LoadedInv, (Refused /\ object = "none") \/ Discard \/ Lose
    PROVE  LoadedInv'
  BY DEF LoadedInv, Within, Refused, Discard, Lose, Ended, Go

\* The numbers of elements of a document
LEMMA Lengths ==
    ASSUME PlaceOK
    PROVE  /\ Len(doc.textures) \in Nat /\ DOMAIN doc.textures = 1 .. Len(doc.textures)
           /\ Len(doc.expressions) \in Nat /\ Len(doc.groups) \in Nat
           /\ Len(doc.motions) \in Nat /\ DOMAIN doc.motions = 1 .. Len(doc.motions)
           /\ doc.texturesField = "absent" => DOMAIN doc.textures = {}
           /\ next \in Nat \ {0} /\ part \in Nat \ {0} /\ doc \in Documents
<1>1. /\ doc \in Documents /\ next \in Nat \ {0} /\ part \in Nat \ {0}
  BY DEF PlaceOK
<1>2. /\ doc.textures \in Seq(TexturePaths)
      /\ doc.texturesField = "absent" => doc.textures = <<>>
  BY <1>1, DocumentsAssumption
<1>3. /\ Len(doc.textures) \in Nat /\ DOMAIN doc.textures = 1 .. Len(doc.textures)
      /\ doc.texturesField = "absent" => DOMAIN doc.textures = {}
  BY <1>2
<1>4. Len(doc.expressions) \in Nat /\ Len(doc.groups) \in Nat
  BY <1>1, DocumentsAssumption
<1>5. Len(doc.motions) \in Nat /\ DOMAIN doc.motions = 1 .. Len(doc.motions)
  BY <1>1, DocumentsAssumption
<1> QED
  BY <1>1, <1>3, <1>4, <1>5

\* The steps from a section to the next
LEMMA LoadedBetween ==
    ASSUME Place, LoadedInv,
           ReadJson \/ Construct \/ BeginTextures \/ EndTextures \/ NextGroup
                    \/ EndGroups \/ Wrap
    PROVE  LoadedInv'
<1> USE Lengths DEF At, Go, ToTextures, ToExpressions, ToMotions, ToPhysics, ToPose, ToGroups
<1>0. PlaceOK
  BY DEF Place
<1>1. CASE ReadJson
  <2>1. CASE Refused
    BY <1>1, <2>1, ReadCases, EndLoaded DEF LoadedInv
  <2>2. CASE Read
    BY <1>1, <2>2, ReadCases, HowFar, HowFarNext, SameLoaded DEF Read, LoadedInv, Within
  <2> QED
    BY <1>1, <2>1, <2>2, ReadCases
<1>2. CASE Construct
  <2>1. CASE Refused
    BY <1>2, <2>1, ReadCases, EndLoaded DEF LoadedInv
  <2>2. CASE Constructed
    BY <1>2, <2>2, ReadCases, HowFar, HowFarNext, SameLoaded DEF Constructed, LoadedInv, Within
  <2> QED
    BY <1>2, <2>1, <2>2, ReadCases
<1>3. CASE BeginTextures
  <2>1. CASE Discard
    BY <2>1, EndLoaded
  <2>2. CASE ~Discard
    <3>1. /\ stage = "textures" /\ UNCHANGED <<doc, object, model, chosen>> /\ next' = 1
          /\ stage' = "texture" \/ (stage' = "expressions" /\ doc.texturesField = "absent")
      BY <1>0, <1>3, <2>2, Elements DEF BeginTextures
    <3>2. TexturesDone' = TexturesDone
      <4>1. TexturesDone = {}
        BY <3>1, HowFar
      <4>2. CASE stage' = "texture"
        <5>1. 1 .. (next' - 1) = {}
          BY <3>1
        <5> QED
          BY <4>1, <4>2, <5>1, HowFarNext
      <4>3. CASE stage' = "expressions" /\ doc.texturesField = "absent"
        <5>1. TexturesDone' = DOMAIN doc'.textures
          BY <4>3, HowFarNext
        <5> QED
          BY <1>0, <3>1, <4>1, <4>3, <5>1
      <4> QED
        BY <3>1, <4>2, <4>3
    <3>3. ExpressionsDone' = ExpressionsDone
      BY <3>1, HowFar, HowFarNext
    <3>4. Loaded'
      BY <3>1, <3>2, <3>3, HowFar, HowFarNext, SameLoaded DEF LoadedInv
    <3> QED
      BY <1>0, <3>1, <3>4 DEF LoadedInv, Within
  <2> QED
    BY <2>1, <2>2
<1>4. CASE EndTextures
  <2>1. /\ stage = "texture" /\ stage' = "expressions" /\ next' = 1
        /\ UNCHANGED <<doc, object, model, chosen>>
        /\ next = Len(doc.textures) + 1
    BY <1>0, <1>4 DEF EndTextures, LoadedInv, Within
  <2>2. TexturesDone' = TexturesDone
    BY <1>0, <2>1, HowFar, HowFarNext
  <2>3. ExpressionsDone' = ExpressionsDone
    BY <2>1, HowFar, HowFarNext
  <2>4. Loaded'
    BY <2>1, <2>2, <2>3, HowFar, HowFarNext, SameLoaded DEF LoadedInv
  <2> QED
    BY <1>0, <2>1, <2>4 DEF LoadedInv, Within
<1>5. CASE NextGroup
  <2>1. /\ stage = "motions" /\ stage' = "motions" /\ next' = next + 1 /\ part' = 1
        /\ UNCHANGED <<doc, object, model, chosen>>
        /\ next <= Len(doc.motions) /\ part > Len(doc.motions[next].list)
    BY <1>5 DEF NextGroup, Group
  <2>2. next \in DOMAIN doc.motions
    BY <1>0, <2>1
  <2>3. MotionsDone' = MotionsDone
    BY <1>0, <2>1, <2>2, DoneSteps, HowFar, HowFarNext
  <2>4. next' <= Len(doc.motions) + 1
    BY <1>0, <2>1
  <2>5. Loaded'
    BY <2>1, <2>3, HowFar, HowFarNext, SameLoaded DEF LoadedInv
  <2> QED
    BY <2>1, <2>4, <2>5 DEF LoadedInv, Within
<1>6. CASE EndGroups
  <2>1. /\ stage = "groups" /\ stage' = "wrap"
        /\ UNCHANGED <<doc, object, model, chosen>>
        /\ next = Len(doc.groups) + 1
    BY <1>0, <1>6 DEF EndGroups, LoadedInv, Within
  <2>2. GroupsDone' = GroupsDone
    BY <1>0, <2>1, HowFar, HowFarNext
  <2> QED
    BY <2>1, <2>2, HowFar, HowFarNext, SameLoaded DEF LoadedInv, Within
<1>7. CASE Wrap
  <2>1. stage = "wrap" /\ stage' = "idle" /\ UNCHANGED <<doc, model, chosen>>
    BY <1>7 DEF Wrap
  <2> QED
    BY <2>1, HowFar, HowFarNext, SameLoaded DEF LoadedInv, Within
<1> QED
  BY <1>1, <1>2, <1>3, <1>4, <1>5, <1>6, <1>7

\* A texture more
LEMMA LoadedTexture ==
    ASSUME Place, StartedInv, LoadedInv, LoadTexture PROVE LoadedInv'
<1> USE DEF ToTextures, ToExpressions, ToMotions, ToPhysics, ToPose, ToGroups
<1>0. PlaceOK /\ DOMAIN model = Fields
  BY DEF Place, StartedInv
<1>1. CASE Discard \/ Lose
  BY <1>1, EndLoaded
<1>2. CASE TextureLoaded
  <2>1. stage = "texture" /\ next <= Len(doc.textures) /\ Loaded
    BY <1>0, TextureCases DEF LoadedInv
  <2>2. /\ model'.textures = model.textures \cup {next} /\ next' = next + 1
        /\ UNCHANGED <<doc, stage, part, object, chosen>>
        /\ model'.expressions = model.expressions /\ model'.expression = model.expression
        /\ model'.motions = model.motions /\ model'.motion = model.motion
        /\ model'.physics = model.physics /\ model'.pose = model.pose
        /\ model'.eyeBlink = model.eyeBlink
    BY <1>0, <1>2 DEF TextureLoaded, Fields
  <2>3. TexturesDone' = TexturesDone \cup {next}
    <3>1. 1 .. next' - 1 = (1 .. next - 1) \cup {next}
      BY <1>0, <2>2, Lengths
    <3> QED
      BY <2>1, <2>2, <3>1, HowFar, HowFarNext
  <2>4. ExpressionsDone' = ExpressionsDone /\ MotionsDone' = MotionsDone /\ GroupsDone' = GroupsDone
    BY <2>1, <2>2, HowFar, HowFarNext
  <2>5. Loaded'
    BY <2>1, <2>2, <2>3, <2>4 DEF Loaded
  <2>6. next' <= Len(doc.textures) + 1
    BY <1>0, <2>1, <2>2, Lengths
  <2> QED
    BY <2>1, <2>2, <2>5, <2>6 DEF LoadedInv, Within
<1> QED
  BY <1>0, <1>1, <1>2, TextureCases

\* An expression more, and the default one set at the end
LEMMA LoadedExpression ==
    ASSUME Place, StartedInv, LoadedInv, LoadExpression PROVE LoadedInv'
<1> USE DEF ToTextures, ToExpressions, ToMotions, ToPhysics, ToPose, ToGroups
<1>0. PlaceOK /\ DOMAIN model = Fields /\ DOMAIN chosen = {"expression", "motion"}
  BY DEF Place, StartedInv
<1>1. CASE Discard \/ Lose
  BY <1>1, EndLoaded
<1>2. CASE ExpressionLoaded
  <2> DEFINE n == doc.expressions[next].name
  <2>1. stage = "expressions" /\ next \in 1 .. Len(doc.expressions) /\ Loaded
    <3>1. stage = "expressions" /\ next \in DOMAIN doc.expressions
      BY <1>0, ExpressionCases
    <3>2. DOMAIN doc.expressions = 1 .. Len(doc.expressions)
      BY <1>0, DocumentsAssumption DEF PlaceOK
    <3> QED
      BY <3>1, <3>2 DEF LoadedInv
  <2>2. /\ model'.expressions = Put(model.expressions, n, next) /\ next' = next + 1
        /\ chosen'.expression = FirstChosen(chosen.expression, n, n \in DefaultNames)
        /\ chosen'.motion = chosen.motion
        /\ UNCHANGED <<doc, stage, part, object>>
        /\ model'.textures = model.textures /\ model'.expression = model.expression
        /\ model'.motions = model.motions /\ model'.motion = model.motion
        /\ model'.physics = model.physics /\ model'.pose = model.pose
        /\ model'.eyeBlink = model.eyeBlink
    BY <1>0, <1>2 DEF ExpressionLoaded, Fields
  <2>3. ExpressionsDone' = next /\ ExpressionsDone = next - 1 /\ next \in Nat \ {0}
    BY <1>0, <2>1, <2>2, HowFar, HowFarNext, Lengths
  <2>4. ExpressionsTo(doc, model'.expressions, chosen'.expression, next)
    BY <2>1, <2>2, <2>3, ExpressionMore DEF Loaded
  <2>5. TexturesDone' = TexturesDone /\ MotionsDone' = MotionsDone /\ GroupsDone' = GroupsDone
    BY <2>1, <2>2, HowFar, HowFarNext
  <2>6. Loaded'
    BY <2>1, <2>2, <2>3, <2>4, <2>5 DEF Loaded
  <2>7. next' <= Len(doc.expressions) + 1
    BY <1>0, <2>1, <2>2, Lengths
  <2> QED
    BY <2>1, <2>2, <2>6, <2>7 DEF LoadedInv, Within
<1> QED
  BY <1>0, <1>1, <1>2, ExpressionCases

\* A motion more
LEMMA LoadedMotion ==
    ASSUME Place, StartedInv, LoadedInv, LoadMotion PROVE LoadedInv'
<1> USE DEF ToTextures, ToExpressions, ToMotions, ToPhysics, ToPose, ToGroups
<1>0. PlaceOK /\ DOMAIN model = Fields /\ DOMAIN chosen = {"expression", "motion"}
  BY DEF Place, StartedInv
<1>1. CASE Discard \/ Lose
  BY <1>1, EndLoaded
<1>2. CASE MotionLoaded
  <2> DEFINE p == <<next, part>>
             n == NameOf(doc, p)
  <2>1. /\ stage = "motions" /\ next \in DOMAIN doc.motions
        /\ part \in DOMAIN doc.motions[next].list /\ Loaded
    BY <1>0, MotionCases DEF LoadedInv, Group
  <2>2. MotionName(next, part) = n /\ Motion(next, part) = MotionOf(doc, p)
    BY DEF MotionName, NameOf, Motion, MotionOf, Group, FadeOut
  <2>3. /\ model'.motions = Put(model.motions, n, MotionOf(doc, p)) /\ part' = part + 1
        /\ chosen'.motion = FirstChosen(chosen.motion, n, n[1] \in IdleNames)
        /\ chosen'.expression = chosen.expression
        /\ UNCHANGED <<doc, stage, next, object>>
        /\ model'.textures = model.textures /\ model'.expression = model.expression
        /\ model'.expressions = model.expressions /\ model'.motion = model.motion
        /\ model'.physics = model.physics /\ model'.pose = model.pose
        /\ model'.eyeBlink = model.eyeBlink
    BY <1>0, <1>2, <2>2, Zenon DEF MotionLoaded, Fields
  <2>4. /\ MotionsDone = DoneAt(doc, next, part)
        /\ MotionsDone' = DoneAt(doc, next, part) \cup {p}
    BY <1>0, <2>1, <2>3, HowFar, HowFarNext, DoneSteps, Lengths
  <2>5. MotionsTo(doc, model'.motions, chosen'.motion, MotionsDone')
    <3> DEFINE D == DoneAt(doc, next, part)
    <3>1. /\ p \in PlacesOf(doc) /\ D \subseteq PlacesOf(doc)
          /\ \A q \in D : Before(q, p) /\ ~Before(p, q)
          /\ ~Before(p, p) /\ doc \in Documents
      BY <1>0, <2>1, DoneSteps, Lengths DEF DoneAt
    <3>2. MotionsTo(doc, model.motions, chosen.motion, D)
      BY <2>1, <2>4 DEF Loaded
    <3> HIDE DEF D, p, n
    <3>3. MotionsTo(doc, Put(model.motions, NameOf(doc, p), MotionOf(doc, p)),
                    FirstChosen(chosen.motion, NameOf(doc, p), NameOf(doc, p)[1] \in IdleNames),
                    D \cup {p})
      BY <3>1, <3>2, MotionMore
    <3> QED
      BY <2>3, <2>4, <3>3 DEF D, n
  <2>6. TexturesDone' = TexturesDone /\ ExpressionsDone' = ExpressionsDone /\ GroupsDone' = GroupsDone
    BY <2>1, <2>3, HowFar, HowFarNext
  <2>7. Loaded'
    <3> HIDE DEF n, p
    <3> QED
      BY <2>1, <2>3, <2>5, <2>6 DEF Loaded
  <2> QED
    BY <2>1, <2>3, <2>7 DEF LoadedInv, Within
<1> QED
  BY <1>0, <1>1, <1>2, MotionCases

\* The default expression and the idle motion are started.
LEMMA LoadedStarted ==
    ASSUME Place, StartedInv, LoadedInv, SetDefaultExpression \/ SetIdleMotion
    PROVE  LoadedInv'
<1> USE DEF ToTextures, ToExpressions, ToMotions, ToPhysics, ToPose, ToGroups, At, Go
<1>0. PlaceOK /\ DOMAIN model = Fields
  BY DEF Place, StartedInv
<1>1. CASE SetDefaultExpression
  <2>1. /\ stage = "expressions" /\ stage' = "motions" /\ next' = 1 /\ part' = 1
        /\ UNCHANGED <<doc, object, chosen>> /\ next > Len(doc.expressions)
        /\ model' = IF chosen.expression = NoName THEN model
                    ELSE [model EXCEPT !.expression = chosen.expression,
                                       !.loaded = model.expressions[chosen.expression]]
    BY <1>1 DEF SetDefaultExpression
  <2>2. Loaded /\ model.expression = NoName
    BY <2>1 DEF LoadedInv, Loaded
  <2>3. /\ model'.expression = chosen.expression
        /\ model'.expressions = model.expressions /\ model'.textures = model.textures
        /\ model'.motions = model.motions /\ model'.motion = model.motion
        /\ model'.physics = model.physics /\ model'.pose = model.pose
        /\ model'.eyeBlink = model.eyeBlink
    BY <1>0, <2>1, <2>2 DEF Fields
  <2>4. next = Len(doc.expressions) + 1
    BY <1>0, <2>1, Lengths DEF LoadedInv, Within
  <2>5. ExpressionsDone' = ExpressionsDone
    <3>1. ExpressionsDone = next - 1 /\ ExpressionsDone' = Len(doc.expressions)
      BY <2>1, HowFar, HowFarNext
    <3> QED
      BY <1>0, <2>4, <3>1, Lengths
  <2>6. MotionsDone' = MotionsDone
    <3>1. MotionsDone = {} /\ MotionsDone' = DoneAt(doc, 1, 1)
      BY <2>1, HowFar, HowFarNext
    <3> QED
      BY <1>0, <3>1, DoneSteps, Lengths
  <2>7. TexturesDone' = TexturesDone /\ GroupsDone' = GroupsDone
    BY <2>1, HowFar, HowFarNext
  <2>8. Loaded'
    BY <2>1, <2>2, <2>3, <2>5, <2>6, <2>7 DEF Loaded
  <2> QED
    BY <1>0, <2>1, <2>8, Lengths DEF LoadedInv, Within
<1>2. CASE SetIdleMotion
  <2>1. /\ stage = "motions" /\ stage' = "physics"
        /\ UNCHANGED <<doc, object, chosen>> /\ next > Len(doc.motions)
        /\ model' = IF chosen.motion = NoName THEN model
                    ELSE [model EXCEPT !.motion = chosen.motion,
                                       !.started = model.motions[chosen.motion]]
    BY <1>2 DEF SetIdleMotion
  <2>2. Loaded /\ model.motion = NoName
    BY <2>1 DEF LoadedInv, Loaded
  <2>3. /\ model'.motion = chosen.motion
        /\ model'.expressions = model.expressions /\ model'.textures = model.textures
        /\ model'.motions = model.motions /\ model'.expression = model.expression
        /\ model'.physics = model.physics /\ model'.pose = model.pose
        /\ model'.eyeBlink = model.eyeBlink
    BY <1>0, <2>1, <2>2 DEF Fields
  <2>4. next = Len(doc.motions) + 1
    BY <1>0, <2>1, Lengths DEF LoadedInv, Within
  <2>5. MotionsDone' = MotionsDone
    <3>1. MotionsDone = DoneAt(doc, next, part) /\ MotionsDone' = PlacesOf(doc)
      BY <2>1, HowFar, HowFarNext
    <3> QED
      BY <1>0, <2>4, <3>1, DoneSteps, Lengths
  <2>6. TexturesDone' = TexturesDone /\ ExpressionsDone' = ExpressionsDone /\ GroupsDone' = GroupsDone
    BY <2>1, HowFar, HowFarNext
  <2>7. Loaded'
    BY <2>1, <2>2, <2>3, <2>5, <2>6 DEF Loaded
  <2> QED
    BY <2>1, <2>7 DEF LoadedInv, Within
<1> QED
  BY <1>1, <1>2

\* The physics and the pose, and a group of eye blink parameters more
LEMMA LoadedRest ==
    ASSUME Place, StartedInv, LoadedInv, LoadPhysics \/ LoadPose \/ LoadGroup
    PROVE  LoadedInv'
<1> USE DEF ToTextures, ToExpressions, ToMotions, ToPhysics, ToPose, ToGroups, At, Go
<1>0. PlaceOK /\ DOMAIN model = Fields
  BY DEF Place, StartedInv
<1>1. CASE Discard \/ Lose
  BY <1>1, EndLoaded
<1>2. CASE LoadPhysics /\ ~(Discard \/ Lose)
  <2>1. /\ stage = "physics" /\ stage' = "pose" /\ UNCHANGED <<doc, object, chosen>>
        /\ model' = IF doc.physics \in Unnamed THEN model ELSE [model EXCEPT !.physics = TRUE]
        /\ doc.physics \in Unnamed \cup {"ok"}
    BY <1>0, <1>2, PhysicsCases
  <2>2. Loaded /\ model.physics = FALSE
    BY <2>1 DEF LoadedInv, Loaded
  <2>a. doc.physics = "ok" <=> doc.physics \notin Unnamed
    BY <2>1 DEF Unnamed
  <2>3. /\ model'.physics = (doc.physics = "ok")
        /\ model'.expressions = model.expressions /\ model'.textures = model.textures
        /\ model'.motions = model.motions /\ model'.expression = model.expression
        /\ model'.motion = model.motion /\ model'.pose = model.pose
        /\ model'.eyeBlink = model.eyeBlink
    BY <1>0, <2>1, <2>2, <2>a DEF Fields
  <2>4. /\ TexturesDone' = TexturesDone /\ ExpressionsDone' = ExpressionsDone
        /\ MotionsDone' = MotionsDone /\ GroupsDone' = GroupsDone
    BY <2>1, HowFar, HowFarNext
  <2>5. Loaded'
    BY <2>1, <2>2, <2>3, <2>4 DEF Loaded
  <2> QED
    BY <2>1, <2>5 DEF LoadedInv, Within
<1>3. CASE LoadPose /\ ~(Discard \/ Lose)
  <2>1. /\ stage = "pose" /\ stage' = "groups" /\ next' = 1 /\ UNCHANGED <<doc, object, chosen>>
        /\ model' = IF doc.pose \in Unnamed THEN model ELSE [model EXCEPT !.pose = TRUE]
        /\ doc.pose \in Unnamed \cup {"ok"}
    BY <1>0, <1>3, PoseCases
  <2>2. Loaded /\ model.pose = FALSE
    BY <2>1 DEF LoadedInv, Loaded
  <2>a. doc.pose = "ok" <=> doc.pose \notin Unnamed
    BY <2>1 DEF Unnamed
  <2>3. /\ model'.pose = (doc.pose = "ok")
        /\ model'.expressions = model.expressions /\ model'.textures = model.textures
        /\ model'.motions = model.motions /\ model'.expression = model.expression
        /\ model'.motion = model.motion /\ model'.physics = model.physics
        /\ model'.eyeBlink = model.eyeBlink
    BY <1>0, <2>1, <2>2, <2>a DEF Fields
  <2>4. /\ TexturesDone' = TexturesDone /\ ExpressionsDone' = ExpressionsDone
        /\ MotionsDone' = MotionsDone /\ GroupsDone' = GroupsDone
    BY <2>1, HowFar, HowFarNext
  <2>5. Loaded'
    BY <2>1, <2>2, <2>3, <2>4 DEF Loaded
  <2> QED
    BY <1>0, <2>1, <2>5, Lengths DEF LoadedInv, Within
<1>4. CASE LoadGroup
  <2>1. /\ stage = "groups" /\ stage' = "groups" /\ next' = next + 1 /\ next <= Len(doc.groups)
        /\ UNCHANGED <<doc, object, chosen>>
        /\ model' = IF doc.groups[next] = {} THEN model
                    ELSE [model EXCEPT !.eyeBlink = doc.groups[next]]
    BY <1>4 DEF LoadGroup
  <2>2. Loaded
    BY <2>1 DEF LoadedInv
  <2>3. /\ model'.eyeBlink = IF doc.groups[next] = {} THEN model.eyeBlink ELSE doc.groups[next]
        /\ model'.expressions = model.expressions /\ model'.textures = model.textures
        /\ model'.motions = model.motions /\ model'.expression = model.expression
        /\ model'.motion = model.motion /\ model'.physics = model.physics
        /\ model'.pose = model.pose
    BY <1>0, <2>1 DEF Fields
  <2>4. GroupsDone = next - 1 /\ GroupsDone' = next /\ next \in Nat \ {0}
    BY <1>0, <2>1, HowFar, HowFarNext, Lengths
  <2>5. EyesTo(doc, model'.eyeBlink, next)
    BY <2>2, <2>3, <2>4, GroupMore DEF Loaded
  <2>6. /\ TexturesDone' = TexturesDone /\ ExpressionsDone' = ExpressionsDone
        /\ MotionsDone' = MotionsDone
    BY <2>1, HowFar, HowFarNext
  <2>7. Loaded'
    BY <2>1, <2>2, <2>3, <2>4, <2>5, <2>6 DEF Loaded
  <2>8. next' <= Len(doc.groups) + 1
    BY <1>0, <2>1, Lengths
  <2> QED
    BY <2>1, <2>7, <2>8 DEF LoadedInv, Within
<1> QED
  BY <1>1, <1>2, <1>3, <1>4

\* A call begins with an empty model.
LEMMA CallLoaded ==
    ASSUME PlaceOK, LoadedInv, NEW d \in Documents, Call(d) PROVE LoadedInv'
<1> USE DEF ToTextures, ToExpressions, ToMotions, ToPhysics, ToPose, ToGroups, At, Go
<1>1. /\ doc' = d /\ stage' = "json" /\ object' = "none" /\ model' = NewModel
      /\ chosen' = NothingChosen
  BY DEF Call
<1>2. /\ model'.textures = {} /\ model'.expressions = EmptyMap /\ model'.expression = NoName
      /\ model'.motions = EmptyMap /\ model'.motion = NoName /\ model'.physics = FALSE
      /\ model'.pose = FALSE /\ model'.eyeBlink = DefaultEyes
      /\ chosen'.expression = NoName /\ chosen'.motion = NoName
  BY <1>1 DEF NewModel, NothingChosen
<1>3. /\ TexturesDone' = {} /\ ExpressionsDone' = 0 /\ MotionsDone' = {} /\ GroupsDone' = 0
  BY <1>1, HowFarNext
<1>4. Loaded'
  BY <1>1, <1>2, <1>3, NothingTo DEF Loaded
<1> QED
  BY <1>1, <1>4 DEF LoadedInv, Within

\* Every step loads what the document names next.
LEMMA LoadedNext ==
    ASSUME Place, StartedInv, LoadedInv, [Next]_vars PROVE LoadedInv'
<1>1. CASE UNCHANGED vars
  BY <1>1 DEF vars, LoadedInv, Within, Loaded, TexturesDone, ExpressionsDone, MotionsDone, GroupsDone
<1>2. CASE \E d \in Documents : Call(d)
  BY <1>2, CallLoaded DEF Place
<1>3. CASE Step
  BY <1>3, LoadedBetween, LoadedTexture, LoadedExpression, LoadedMotion, LoadedStarted, LoadedRest
  DEF Step
<1> QED
  BY <1>1, <1>2, <1>3 DEF Next

\* What the first k expressions give is what all of them must, when k is their number.
LEMMA ExpressionsWhole ==
    ASSUME PlaceOK, ExpressionsTo(doc, model.expressions, model.expression, Len(doc.expressions))
    PROVE  ExpressionsComplete
<1>1. DOMAIN doc.expressions = 1 .. Len(doc.expressions)
  BY DocumentsAssumption DEF PlaceOK
<1> QED
  BY <1>1 DEF ExpressionsTo, ExpressionsComplete

\* The same for the groups of eye blink parameters
LEMMA EyesWhole ==
    ASSUME PlaceOK, EyesTo(doc, model.eyeBlink, Len(doc.groups))
    PROVE  EyesComplete
<1>1. DOMAIN doc.groups = 1 .. Len(doc.groups)
  BY DocumentsAssumption DEF PlaceOK
<1> QED
  BY <1>1 DEF EyesTo, EyesComplete

\* and for the motions at all places
LEMMA MotionsWhole ==
    ASSUME PlaceOK, MotionsTo(doc, model.motions, model.motion, PlacesOf(doc))
    PROVE  MotionsComplete
<1>1. Places = PlacesOf(doc)
  BY DEF Places, PlacesOf, Group
<1>2. \A p : NameAt(p) = NameOf(doc, p)
  BY DEF NameAt, NameOf, MotionName, Group
<1>3. DOMAIN model.motions = {NameAt(p) : p \in Places}
  BY <1>1, <1>2 DEF MotionsTo
<1>4. ASSUME NEW p \in Places, IsLast(p)
      PROVE  LET m == model.motions[NameAt(p)]
                 info == Group(p[1]).list[p[2]]
             IN  /\ m.group = p[1] /\ m.index = p[2] /\ m.fadeIn = Time(info.fadeIn)
                 /\ Len(Group(p[1]).list) = 1 => m.fadeOut = Time(info.fadeOut)
  <2>1. model.motions[NameAt(p)] = MotionOf(doc, p)
    BY <1>1, <1>2, <1>4 DEF MotionsTo, IsLast
  <2> DEFINE m == model.motions[NameAt(p)]
             info == Group(p[1]).list[p[2]]
  <2>2. /\ m.group = p[1] /\ m.index = p[2] /\ m.fadeIn = Time(info.fadeIn)
        /\ m.fadeOut = IF info.fadeOut = NoTime THEN 1
                       ELSE IF Len(Group(p[1]).list) > 1 THEN Time(info.fadeIn)
                       ELSE info.fadeOut
    BY <2>1 DEF MotionOf, Group, Time
  <2>3. ASSUME Len(Group(p[1]).list) = 1
        PROVE  m.fadeOut = Time(info.fadeOut)
    <3>1. ~(Len(Group(p[1]).list) > 1)
      BY <2>3
    <3>2. m.fadeOut = IF info.fadeOut = NoTime THEN 1 ELSE info.fadeOut
      BY <2>2, <3>1
    <3> QED
      BY <3>2 DEF Time
  <2> QED
    BY <2>2, <2>3
<1>5. IF \E p \in Places : IsFirstIdle(p)
      THEN \E p \in Places : IsFirstIdle(p) /\ model.motion = NameAt(p)
      ELSE model.motion = NoName
  <2>1. \A p : IdleAt(doc, p) <=> NameAt(p)[1] \in IdleNames
    BY <1>2 DEF IdleAt
  <2>2. IF \E p \in Places : IdleAt(doc, p)
        THEN \E p \in Places : /\ IdleAt(doc, p) /\ model.motion = NameOf(doc, p)
                               /\ \A q \in Places : IdleAt(doc, q) => ~Before(q, p)
        ELSE model.motion = NoName
    BY <1>1 DEF MotionsTo
  <2> QED
    BY <1>2, <2>1, <2>2 DEF IsFirstIdle
<1> QED
  BY <1>3, <1>4, <1>5 DEF MotionsComplete

\* A call that has returned has been through every section.
LEMMA LoadedComplete == ASSUME Place, LoadedInv PROVE Complete
<1> SUFFICES ASSUME object = "wrapped"
             PROVE  /\ ExpressionsComplete /\ MotionsComplete /\ EyesComplete
                    /\ model.textures = DOMAIN doc.textures
                    /\ model.physics = (doc.physics = "ok")
                    /\ model.pose = (doc.pose = "ok")
  BY DEF Complete
<1>1. stage = "idle" /\ Loaded /\ PlaceOK
  BY DEF Place, PlaceOK, Ownership, Stages, LoadedInv
<1>2. /\ stage \notin ToExpressions /\ stage \notin ToMotions /\ stage \notin ToPhysics
      /\ stage \notin ToPose /\ stage \notin ToGroups /\ stage # "groups"
  BY <1>1 DEF ToTextures, ToExpressions, ToMotions, ToPhysics, ToPose, ToGroups
<1>3. /\ TexturesDone = DOMAIN doc.textures /\ ExpressionsDone = Len(doc.expressions)
      /\ MotionsDone = PlacesOf(doc) /\ GroupsDone = Len(doc.groups)
  BY <1>2, HowFar
<1>4. model.expression = chosen.expression /\ model.motion = chosen.motion
  BY <1>1, <1>2 DEF Loaded
<1>5. /\ ExpressionsTo(doc, model.expressions, model.expression, Len(doc.expressions))
      /\ MotionsTo(doc, model.motions, model.motion, PlacesOf(doc))
      /\ EyesTo(doc, model.eyeBlink, Len(doc.groups))
      /\ model.textures = DOMAIN doc.textures
  BY <1>1, <1>3, <1>4 DEF Loaded
<1>6. model.physics = (doc.physics = "ok") /\ model.pose = (doc.pose = "ok")
  BY <1>1, <1>2 DEF Loaded
<1> QED
  BY <1>1, <1>5, <1>6, ExpressionsWhole, MotionsWhole, EyesWhole

\* A model that loadModel returns has the textures, expressions, motions and groups
\* its document names, whatever the document, with the last of a name in the maps,
\* the first default expression and the first idle motion started, and physics and
\* pose if their fields are strings.  Of the motions it says where each comes from
\* and how long it fades in, of one alone in its group also how long it fades out;
\* in a group of several the code reads the fade-in time for that of the fade-out.
THEOREM LoadsAll == Spec => []Complete
<1>1. Init => LoadedInv
  BY DEF Init, LoadedInv, Within
<1> QED
  BY <1>1, StartedNext, PlaceInit, PlaceNext, LoadedNext, LoadedComplete, PTL DEF Spec
=============================================================================
