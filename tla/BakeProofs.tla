----------------------------- MODULE BakeProofs -----------------------------
(***************************************************************************)
(* Proofs about Bake, for any lists of overlays, rotations and number of   *)
(* faults: what config.txt has in it when the scripts end well.            *)
(***************************************************************************)
EXTENDS Bake, Induction, SequenceTheorems

\* What a list of overlays asks config.txt to have, after the first n.
Asked(o, n) == ToSet(BaseDtos) \cup ({o[i] : i \in 1..n} \ {""})

\* The names that stand in config.txt.
Names == ToSet(BaseDtos) \cup UNION {ToSet(o) : o \in Overlays \cup Exported}

\* The records that Bake is about, with the types of their fields.
Image == [exists : BOOLEAN, dtos : Seq(Names), rots : Seq(Rotations),
          whole : BOOLEAN]

Records ==
  /\ bake \in [pc : BakePlaces \cup Ends, overlays : Overlays,
               rotation : Rotations, dto : Overlays \cup Exported]
  /\ easy \in [pc : EasyPlaces \cup Ends, overlays : Overlays,
               rotation : Rotations, at : Nat, copied : Image]
  /\ easy.at \in 1..(Len(easy.overlays) + 1)
  /\ out \in Image /\ base \in Image /\ final \in Image
  /\ faults \in 0..MaxFaults

\* An image of which config.txt is the one of the board.
CleanImage(i) == i.dtos = BaseDtos /\ i.rots = <<>>

\* Until bake.sh ends, its image has what it was asked for; and where it is
\* given no overlays the environment has none.
OutAsAsked ==
  /\ ~Given(bake.overlays) => bake.dto = <<>>
  /\ bake.pc \in {"save", "saving"} =>
       /\ out.exists
       /\ out.dtos = BakedDtos(bake.dto) /\ out.rots = BakedRots(bake.rotation)
  /\ bake.pc = "saving" => Saves

\* easy-bake.sh starts from a clean image and adds one overlay after the other.
FinalOnTheWay ==
  /\ easy.pc \in EasyPlaces \ {"overlay"} => easy.at = 1
  /\ easy.pc \in {"copy", "copying"} => base.exists
  /\ easy.pc \in {"copying", "mount", "rotate"} => CleanImage(final)
  /\ easy.pc = "overlay" =>
       /\ ToSet(final.dtos) = Asked(easy.overlays, easy.at - 1)
       /\ IsInjective(final.dtos)
       /\ final.rots = <<>>

IInv == Records /\ BaseClean /\ OutAsAsked /\ FinalOnTheWay /\ FinalAsAsked

-----------------------------------------------------------------------------
(* What post-image.sh writes                                               *)

\* The overlays of config.txt after n elements of the list, w after fewer.
Line(o, w, n) ==
  IF n = 0 THEN BaseDtos
  ELSE IF o[n] = "" THEN w[n - 1] ELSE Append(w[n - 1], o[n])

IsConfig(o, w, N) == w = [n \in 0..N |-> Line(o, w, n)]

(* The loop of post-image.sh computes something.                           *)
LEMMA ConfigExists ==
  ASSUME NEW o, NEW N \in Nat
  PROVE  \E w : IsConfig(o, w, N)
<1> DEFINE S == {n \in Nat : \E w : IsConfig(o, w, n)}
<1>1. 0 \in S
  <2>1. IsConfig(o, [n \in 0..0 |-> BaseDtos], 0)
    BY DEF IsConfig, Line
  <2>2. QED
    BY <2>1
<1>2. ASSUME NEW n \in Nat, n \in S
      PROVE  n + 1 \in S
  <2>1. PICK w : IsConfig(o, w, n)
    BY <1>2
  <2> DEFINE v == [k \in 0..(n + 1) |-> IF k \in 0..n THEN w[k] ELSE Line(o, w, k)]
  <2>2. \A k \in 0..n : w[k] = Line(o, w, k)
    BY <2>1 DEF IsConfig
  <2>3. \A k \in 0..(n + 1) : Line(o, v, k) = Line(o, w, k)
    <3>1. \A k \in 1..(n + 1) : v[k - 1] = w[k - 1]
      OBVIOUS
    <3>2. TAKE k \in 0..(n + 1)
    <3>3. CASE k = 0
      BY <3>3 DEF Line
    <3>4. CASE k \in 1..(n + 1)
      <4>1. k # 0 /\ v[k - 1] = w[k - 1]
        BY <3>1, <3>4
      <4> HIDE DEF v
      <4>2. QED
        BY <4>1 DEF Line
    <3>5. QED
      BY <3>3, <3>4
  <2>4. \A k \in 0..(n + 1) : v[k] = Line(o, v, k)
    BY <2>2, <2>3
  <2> HIDE DEF v
  <2>5. v = [k \in 0..(n + 1) |-> Line(o, v, k)]
    BY <2>4 DEF v
  <2>6. QED
    BY <2>5 DEF IsConfig
<1> HIDE DEF S
<1>3. Nat \subseteq S
  BY <1>1, <1>2, AllNaturals
<1>4. QED
  BY <1>3 DEF S

(* A line that is appended is one more element.                            *)
LEMMA ToSetAppend ==
  ASSUME NEW S, NEW s \in Seq(S), NEW e \in S
  PROVE  /\ Append(s, e) \in Seq(S)
         /\ ToSet(Append(s, e)) = ToSet(s) \cup {e}
<1> DEFINE t == Append(s, e)
<1>1. /\ t \in Seq(S)
      /\ \A i \in 1..Len(s) : t[i] = s[i]
      /\ t[Len(s) + 1] = e
      /\ DOMAIN s = 1..Len(s) /\ Len(s) \in Nat
  OBVIOUS
<1>4. Len(t) = Len(s) + 1 /\ DOMAIN t = 1..Len(t)
  OBVIOUS
<1> HIDE DEF t
<1>2. \A x : x \in ToSet(t) <=> x \in ToSet(s) \/ x = e
  <2>1. DOMAIN t = DOMAIN s \cup {Len(s) + 1}
    BY <1>1, <1>4
  <2>2. QED
    BY <1>1, <2>1 DEF ToSet
<1>3. QED
  BY <1>1, <1>2 DEF t

(* One element more asks for that element, if it is not empty.             *)
LEMMA AskedNext ==
  ASSUME NEW S, NEW o \in Seq(S), NEW n \in 1..Len(o)
  PROVE  Asked(o, n) = Asked(o, n - 1) \cup ({o[n]} \ {""})
<1>1. {o[i] : i \in 1..n} = {o[i] : i \in 1..(n - 1)} \cup {o[n]}
  <2>1. 1..n = (1..(n - 1)) \cup {n}
    OBVIOUS
  <2>2. QED
    BY <2>1
<1>2. QED
  BY <1>1 DEF Asked

(* config.txt has the overlays of the board and those that were asked for. *)
LEMMA BakedAsAsked ==
  ASSUME NEW T, ToSet(BaseDtos) \subseteq T, NEW o \in Seq(T)
  PROVE  /\ BakedDtos(o) \in Seq(T)
         /\ ToSet(BakedDtos(o)) = Asked(o, Len(o))
<1>1. PICK w : IsConfig(o, w, Len(o)) /\ BakedDtos(o) = w[Len(o)]
  <2> DEFINE W == CHOOSE w : IsConfig(o, w, Len(o))
  <2>1. BakedDtos(o) = W[Len(o)]
    BY Zenon DEF BakedDtos, IsConfig, Line
  <2>2. IsConfig(o, W, Len(o))
    BY ConfigExists
  <2>3. QED
    BY <2>1, <2>2
<1>2. \A n \in 0..Len(o) : w[n] = Line(o, w, n)
  BY <1>1 DEF IsConfig
<1>0. Len(o) \in Nat
  OBVIOUS
<1> DEFINE Right(n) == w[n] \in Seq(T) /\ ToSet(w[n]) = Asked(o, n)
           S == {n \in Nat : n <= Len(o) => Right(n)}
<1>3. 0 \in S
  <2>1. w[0] = BaseDtos
    <3>1. 0 \in 0..Len(o)
      BY <1>0
    <3>2. w[0] = Line(o, w, 0)
      BY <1>2, <3>1
    <3>3. QED
      BY <3>2 DEF Line
  <2>2. BaseDtos \in Seq(T)
    BY DEF BaseDtos, ToSet
  <2>3. Asked(o, 0) = ToSet(BaseDtos)
    BY DEF Asked
  <2>4. QED
    BY <2>1, <2>2, <2>3
<1>4. ASSUME NEW n \in Nat, n \in S
      PROVE  n + 1 \in S
  <2>1. SUFFICES ASSUME n + 1 <= Len(o)
                 PROVE  Right(n + 1)
    OBVIOUS
  <2>2. w[n] \in Seq(T) /\ ToSet(w[n]) = Asked(o, n)
    BY <1>4, <2>1
  <2>3. n + 1 \in 1..Len(o) /\ o[n + 1] \in T
    BY <1>0, <2>1
  <2>4. Asked(o, n + 1) = Asked(o, n) \cup ({o[n + 1]} \ {""})
    <3>1. Asked(o, n + 1) = Asked(o, (n + 1) - 1) \cup ({o[n + 1]} \ {""})
      BY <2>3, AskedNext
    <3>2. (n + 1) - 1 = n
      OBVIOUS
    <3>3. QED
      BY <3>1, <3>2
  <2>5. w[n + 1] = IF o[n + 1] = "" THEN w[n] ELSE Append(w[n], o[n + 1])
    <3>1. n + 1 \in 0..Len(o) /\ n + 1 # 0 /\ (n + 1) - 1 = n
      BY <1>0, <2>1
    <3>2. QED
      BY <1>2, <3>1 DEF Line
  <2>6. CASE o[n + 1] = ""
    BY <2>2, <2>4, <2>5, <2>6
  <2>7. CASE o[n + 1] # ""
    <3>1. /\ Append(w[n], o[n + 1]) \in Seq(T)
          /\ ToSet(Append(w[n], o[n + 1])) = ToSet(w[n]) \cup {o[n + 1]}
      BY <2>2, <2>3, ToSetAppend
    <3>2. QED
      BY <2>2, <2>4, <2>5, <2>7, <3>1
  <2>8. QED
    BY <2>6, <2>7
<1> HIDE DEF Right, S
<1>5. Nat \subseteq S
  BY <1>3, <1>4, AllNaturals
<1>6. Right(Len(o))
  BY <1>5 DEF S
<1>7. QED
  BY <1>1, <1>6 DEF Right

(* Without overlays config.txt is that of the board.                       *)
LEMMA BakedNone == BakedDtos(<<>>) = BaseDtos
<1> DEFINE o == <<>>
           W == CHOOSE w : IsConfig(o, w, Len(o))
<1>1. BakedDtos(o) = W[Len(o)]
  BY Zenon DEF BakedDtos, IsConfig, Line
<1>2. IsConfig(o, W, Len(o))
  <2>1. Len(o) \in Nat
    OBVIOUS
  <2>2. QED
    BY <2>1, ConfigExists
<1>3. W[0] = BaseDtos
  BY <1>2 DEF IsConfig, Line
<1>4. QED
  BY <1>1, <1>3
-----------------------------------------------------------------------------
(* The two scripts.  The environment that bake.sh starts in has no         *)
(* PITREZOR_DTO: it would go into an image that is saved as the clean one. *)

CleanEnvironment == Exported = {<<>>}

LEMMA MaxFaultsNat == MaxFaults \in Nat
BY ConstantsAssumption, Zenon

(* Lists of names, and images, have the types of the model.                *)
LEMMA ListsOfNames ==
  ASSUME NEW o \in Overlays \cup Exported
  PROVE  o \in Seq(Names)
<1>1. o \in Seq(STRING)
  BY ConstantsAssumption
<1>2. o \in Seq(ToSet(o))
  BY <1>1 DEF ToSet
<1>3. ToSet(o) \subseteq Names
  BY DEF Names
<1>4. QED
  BY <1>2, <1>3, SeqMonotonic

LEMMA ImagesAreImages ==
  ASSUME NEW i \in Image
  PROVE  IsImage(i)
<1>1. DOMAIN i = DOMAIN NoImage
  BY DEF Image, NoImage
<1>2. ToSet(i.dtos) \subseteq Names
  BY DEF Image, ToSet
<1>3. ToSet(i.rots) \subseteq Rotations
  BY DEF Image, ToSet
<1>4. QED
  BY <1>1, <1>2, <1>3 DEF IsImage, Image, Names

LEMMA RecordsAreTyped == Records => TypeOK
<1>1. SUFFICES ASSUME Records
               PROVE  TypeOK
  OBVIOUS
<1>2. easy.copied \in Image
  BY <1>1 DEF Records
<1>3. IsImage(out) /\ IsImage(base) /\ IsImage(final) /\ IsImage(easy.copied)
  BY <1>1, <1>2, ImagesAreImages DEF Records
<1>4. /\ {bake.overlays, easy.overlays} \subseteq Overlays
      /\ {bake.rotation, easy.rotation} \subseteq Rotations
  BY <1>1 DEF Records
<1>5. QED
  BY <1>1, <1>3, <1>4 DEF Records, TypeOK

(* The images that the scripts make out of others are images.              *)
LEMMA SomeImages ==
  /\ NoImage \in Image
  /\ BaseDtos \in Seq(Names) /\ IsInjective(BaseDtos)
  /\ \A r \in Rotations : BakedRots(r) \in Seq(Rotations)
<1>1. BaseDtos \in Seq(Names)
  BY DEF BaseDtos, Names, ToSet
<1>2. NoImage \in Image
  BY DEF NoImage, Image
<1>3. IsInjective(BaseDtos)
  BY DEF IsInjective, BaseDtos
<1>4. ASSUME NEW r \in Rotations
      PROVE  BakedRots(r) \in Seq(Rotations)
  <2>1. <<r>> \in Seq(Rotations) /\ <<>> \in Seq(Rotations)
    OBVIOUS
  <2>2. QED
    BY <2>1, Zenon DEF BakedRots
<1>5. QED
  BY <1>1, <1>2, <1>3, <1>4

LEMMA InitInv == Init => IInv
<1>1. SUFFICES ASSUME Init
               PROVE  IInv
  OBVIOUS
<1>2. Records
  <2>1. 1 \in 1..(Len(<<>>) + 1)
    OBVIOUS
  <2>2. NoImage \in Image /\ <<>> \in Overlays /\ "" \in Rotations
    BY SomeImages, ConstantsAssumption
  <2>3. 0 \in 0..MaxFaults
    BY MaxFaultsNat
  <2>4. QED
    BY <1>1, <2>1, <2>2, <2>3 DEF Init, Records, Ends
<1>3. BaseClean /\ FinalOnTheWay /\ FinalAsAsked
  BY <1>1 DEF Init, BaseClean, FinalOnTheWay, FinalAsAsked, NoImage, EasyPlaces
<1>4. OutAsAsked
  BY <1>1 DEF Init, OutAsAsked
<1>5. QED
  BY <1>2, <1>3, <1>4 DEF IInv

(* bake.sh leaves the final image alone, and saves none but a clean image. *)
LEMMA BakeInv ==
  ASSUME CleanEnvironment, IInv,
         \/ BakeProgress \/ StopBake
         \/ \E o \in Overlays, r \in Rotations, env \in Exported :
              StartBake(o, r, env)
  PROVE  IInv'
<1> USE MaxFaultsNat DEF IInv
<1>1. UNCHANGED <<easy, final>>
  BY DEF BakeProgress, StopBake, StartBake, RemoveOutput, Configure, Build,
     PostImage, PostImageFails, NotSaved, BeginSave, FinishSave
<1>2. FinalAsAsked'
  BY <1>1 DEF FinalAsAsked
<1>3. ASSUME UNCHANGED base
      PROVE  BaseClean' /\ FinalOnTheWay'
  BY <1>1, <1>3 DEF BaseClean, FinalOnTheWay, CleanImage
<1>4. ASSUME NEW o \in Overlays, NEW r \in Rotations, NEW env \in Exported,
             StartBake(o, r, env)
      PROVE  IInv'
  <2>1. Records'
    BY <1>4 DEF StartBake, Records, BakePlaces
  <2>2. OutAsAsked'
    BY <1>4 DEF StartBake, OutAsAsked, CleanEnvironment, Given
  <2>3. QED
    BY <1>2, <1>3, <1>4, <2>1, <2>2 DEF StartBake
<1>5. CASE RemoveOutput \/ Configure \/ Build \/ PostImageFails \/ NotSaved \/ StopBake
  <2>1. Records'
    <3>1. out' \in Image
      BY <1>5, SomeImages
         DEF RemoveOutput, Configure, Build, PostImageFails, NotSaved, StopBake,
             Records
    <3>2. \E to \in BakePlaces \cup Ends : bake' = [bake EXCEPT !.pc = to]
      BY <1>5
         DEF RemoveOutput, Configure, Build, PostImageFails, NotSaved, StopBake,
             Bakes, BakePlaces, Ends
    <3>3. faults' \in 0..MaxFaults
      BY <1>5
         DEF RemoveOutput, Configure, Build, PostImageFails, NotSaved, StopBake,
             Records
    <3>4. base' = base
      BY <1>5
         DEF RemoveOutput, Configure, Build, PostImageFails, NotSaved, StopBake
    <3>5. QED
      BY <1>1, <3>1, <3>2, <3>3, <3>4 DEF Records
  <2>2. OutAsAsked'
    BY <1>5
       DEF RemoveOutput, Configure, Build, PostImageFails, NotSaved, StopBake,
           Bakes, OutAsAsked, Records
  <2>3. UNCHANGED base
    BY <1>5
       DEF RemoveOutput, Configure, Build, PostImageFails, NotSaved, StopBake
  <2>4. QED
    BY <1>2, <1>3, <2>1, <2>2, <2>3
<1>6. CASE PostImage
  <2>1. BakedDtos(bake.dto) \in Seq(Names)
    <3>1. bake.dto \in Seq(Names) /\ ToSet(BaseDtos) \subseteq Names
      BY ListsOfNames DEF Records, Names
    <3>2. QED
      BY <3>1, BakedAsAsked
  <2>2. out' \in Image
    BY <1>6, <2>1, SomeImages DEF PostImage, Records, Image
  <2>3. Records'
    BY <1>6, <2>2 DEF PostImage, Bakes, Records, BakePlaces
  <2>4. OutAsAsked'
    BY <1>6 DEF PostImage, Bakes, OutAsAsked, Records
  <2>5. QED
    BY <1>2, <1>3, <1>6, <2>3, <2>4 DEF PostImage
<1>7. CASE BeginSave \/ FinishSave
  <2>1. Saves /\ bake.pc \in {"save", "saving"}
    BY <1>7 DEF BeginSave, FinishSave, Bakes, OutAsAsked
  <2>2. out.exists /\ CleanImage(out)
    BY <2>1, BakedNone DEF OutAsAsked, Saves, CleanImage, BakedRots
  <2>3. base' \in Image /\ base'.exists /\ CleanImage(base')
    BY <1>7, <2>2 DEF BeginSave, FinishSave, Records, Image, CleanImage
  <2>4. BaseClean' /\ FinalOnTheWay'
    BY <1>1, <2>3 DEF BaseClean, FinalOnTheWay, CleanImage
  <2>5. Records'
    BY <1>7, <2>3 DEF BeginSave, FinishSave, Bakes, Records, BakePlaces, Ends
  <2>6. OutAsAsked'
    BY <1>7 DEF BeginSave, FinishSave, Bakes, OutAsAsked, Records, Saves
  <2>7. QED
    BY <1>2, <2>4, <2>5, <2>6
<1>8. QED
  BY <1>4, <1>5, <1>6, <1>7 DEF BakeProgress
(* easy-bake.sh adds the next overlay, if it is new and not empty.         *)
LEMMA PatchedAsAsked ==
  ASSUME NEW S, NEW dtos \in Seq(S), NEW dto \in S, IsInjective(dtos)
  PROVE  /\ Patched(dtos, dto) \in Seq(S)
         /\ ToSet(Patched(dtos, dto)) = ToSet(dtos) \cup ({dto} \ {""})
         /\ IsInjective(Patched(dtos, dto))
<1>1. CASE dto = "" \/ dto \in ToSet(dtos)
  BY <1>1 DEF Patched
<1>2. CASE dto # "" /\ dto \notin ToSet(dtos)
  <2> DEFINE t == Append(dtos, dto)
  <2>1. Patched(dtos, dto) = t
    BY <1>2 DEF Patched
  <2>2. t \in Seq(S) /\ ToSet(t) = ToSet(dtos) \cup {dto}
    BY ToSetAppend
  <2>3. /\ \A i \in 1..Len(dtos) : t[i] = dtos[i]
        /\ t[Len(dtos) + 1] = dto
        /\ DOMAIN dtos = 1..Len(dtos) /\ Len(dtos) \in Nat
    OBVIOUS
  <2>4. Len(t) = Len(dtos) + 1 /\ DOMAIN t = 1..Len(t)
    OBVIOUS
  <2> HIDE DEF t
  <2>5. \A i \in 1..Len(dtos) : dtos[i] # dto
    BY <1>2, <2>3 DEF ToSet
  <2>6. DOMAIN t = 1..Len(dtos) \cup {Len(dtos) + 1}
    BY <2>3, <2>4
  <2>7. IsInjective(t)
    BY <2>3, <2>5, <2>6 DEF IsInjective
  <2>8. QED
    BY <1>2, <2>1, <2>2, <2>7
<1>3. QED
  BY <1>1, <1>2

(* easy-bake.sh does not touch the base image.                             *)
LEMMA EasyInv ==
  ASSUME CleanEnvironment, IInv,
         \/ EasyProgress \/ StopEasy
         \/ \E o \in Overlays, r \in Rotations : StartEasy(o, r)
  PROVE  IInv'
<1> USE MaxFaultsNat DEF IInv
<1>1. UNCHANGED <<bake, out, base>>
  BY DEF EasyProgress, StopEasy, StartEasy, Check, BeginCopy, FinishCopy, Mount,
     RemoveRotation, AddOverlay, AddRotation
<1>2. BaseClean' /\ OutAsAsked'
  BY <1>1 DEF BaseClean, OutAsAsked, Saves
<1>3. ASSUME NEW o \in Overlays, NEW r \in Rotations, StartEasy(o, r)
      PROVE  IInv'
  <2>1. Len(o) \in Nat
    <3>1. o \in Seq(Names)
      BY ListsOfNames
    <3>2. QED
      BY <3>1
  <2>2. Records'
    BY <1>3, <2>1, SomeImages DEF StartEasy, Records, EasyPlaces
  <2>3. FinalOnTheWay' /\ FinalAsAsked'
    BY <1>3 DEF StartEasy, FinalOnTheWay, FinalAsAsked
  <2>4. QED
    BY <1>2, <2>2, <2>3
<1>4. CASE Check \/ Mount \/ StopEasy
  <2>1. \E to \in (EasyPlaces \ {"overlay"}) \cup {"failed"} :
          easy' = [easy EXCEPT !.pc = to]
    BY <1>4 DEF Check, Mount, StopEasy, Eases, EasyPlaces
  <2>2. final' = final /\ faults' \in 0..MaxFaults
    BY <1>4 DEF Check, Mount, StopEasy, Records
  <2>3. Records'
    BY <1>1, <2>1, <2>2 DEF Records, Ends
  <2>4. FinalAsAsked'
    BY <2>1 DEF Records, FinalAsAsked, EasyPlaces
  <2>5. FinalOnTheWay'
    BY <1>1, <1>4, <2>2
       DEF Records, FinalOnTheWay, Check, Mount, StopEasy, Eases, EasyPlaces
  <2>6. QED
    BY <1>2, <2>3, <2>4, <2>5
<1>5. CASE BeginCopy \/ FinishCopy
  <2>1. base.exists /\ CleanImage(base)
    BY <1>5 DEF BeginCopy, FinishCopy, Eases, FinalOnTheWay, BaseClean, CleanImage
  <2>2. final' \in Image /\ CleanImage(final')
    BY <1>5, <2>1 DEF BeginCopy, FinishCopy, Records, Image, CleanImage
  <2>3. \E to \in {"copying", "mount"} : \E i \in Image :
          easy' = [easy EXCEPT !.pc = to, !.copied = i]
    <3>1. CASE BeginCopy
      BY <3>1 DEF BeginCopy, Records
    <3>2. CASE FinishCopy
      <4>1. easy' = [easy EXCEPT !.pc = "mount", !.copied = easy.copied]
        BY <3>2 DEF FinishCopy, Eases, Records
      <4>2. QED
        BY <4>1 DEF Records
    <3>3. QED
      BY <1>5, <3>1, <3>2
  <2>4. faults' = faults /\ easy.pc \in {"copy", "copying"}
    BY <1>5 DEF BeginCopy, FinishCopy, Eases
  <2>5. Records'
    BY <1>1, <2>2, <2>3, <2>4 DEF Records, EasyPlaces
  <2>6. FinalOnTheWay' /\ FinalAsAsked'
    BY <1>1, <2>1, <2>2, <2>3, <2>4
       DEF Records, FinalOnTheWay, FinalAsAsked, EasyPlaces
  <2>7. QED
    BY <1>2, <2>5, <2>6
<1>6. CASE RemoveRotation
  <2>1. final' \in Image
    <3>1. <<>> \in Seq(Rotations)
      OBVIOUS
    <3>2. QED
      BY <1>6, <3>1 DEF RemoveRotation, Records, Image
  <2>2. Records'
    BY <1>6, <2>1 DEF RemoveRotation, Eases, Records, EasyPlaces
  <2>3. /\ easy.at = 1 /\ CleanImage(final)
        /\ Asked(easy.overlays, 0) = ToSet(BaseDtos)
    BY <1>6 DEF RemoveRotation, Eases, FinalOnTheWay, EasyPlaces, Asked
  <2>4. final'.dtos = BaseDtos /\ final'.rots = <<>>
    BY <1>6, <2>3 DEF RemoveRotation, Records, Image, CleanImage
  <2>5. easy' = [easy EXCEPT !.pc = "overlay"]
    BY <1>6 DEF RemoveRotation, Eases
  <2>6. FinalOnTheWay' /\ FinalAsAsked'
    BY <2>3, <2>4, <2>5, SomeImages DEF Records, FinalOnTheWay, FinalAsAsked
  <2>7. QED
    BY <1>2, <2>2, <2>6
<1>7. CASE AddOverlay
  <2> DEFINE o == easy.overlays
             dto == o[easy.at]
  <2>1. o \in Seq(Names)
    BY ListsOfNames DEF Records
  <2>2. Len(o) \in Nat /\ easy.at \in 1..Len(o)
    BY <1>7, <2>1 DEF AddOverlay, Records
  <2>3. dto \in Names
    BY <2>1, <2>2, ElementOfSeq
  <2>4. /\ final.dtos \in Seq(Names) /\ IsInjective(final.dtos)
        /\ ToSet(final.dtos) = Asked(o, easy.at - 1) /\ final.rots = <<>>
    BY <1>7 DEF AddOverlay, Records, Image, FinalOnTheWay
  <2>5. /\ Patched(final.dtos, dto) \in Seq(Names)
        /\ ToSet(Patched(final.dtos, dto)) = ToSet(final.dtos) \cup ({dto} \ {""})
        /\ IsInjective(Patched(final.dtos, dto))
    BY <2>3, <2>4, PatchedAsAsked
  <2>6. Asked(o, easy.at) = Asked(o, easy.at - 1) \cup ({dto} \ {""})
    BY <2>1, <2>2, AskedNext
  <2>7. /\ easy'.pc = "overlay" /\ easy'.overlays = o /\ easy'.at = easy.at + 1
        /\ easy' \in [pc : EasyPlaces \cup Ends, overlays : Overlays,
                      rotation : Rotations, at : Nat, copied : Image]
    BY <1>7, <2>2 DEF AddOverlay, Records
  <2>8. /\ final'.dtos = Patched(final.dtos, dto) /\ final'.rots = <<>>
        /\ final' \in Image
    BY <1>7, <2>4, <2>5 DEF AddOverlay, Records, Image
  <2>9. Records'
    BY <1>1, <1>7, <2>2, <2>7, <2>8 DEF AddOverlay, Records
  <2>10. (easy.at + 1) - 1 = easy.at
    BY <2>2
  <2>11. FinalOnTheWay' /\ FinalAsAsked'
    BY <2>4, <2>5, <2>6, <2>7, <2>8, <2>10 DEF FinalOnTheWay, FinalAsAsked
  <2>12. QED
    BY <1>2, <2>9, <2>11
<1>8. CASE AddRotation
  <2> DEFINE o == easy.overlays
  <2>1. o \in Seq(Names)
    BY ListsOfNames DEF Records
  <2>2. Len(o) \in Nat /\ easy.at - 1 = Len(o)
    BY <1>8, <2>1 DEF AddRotation, Records
  <2>3. ToSet(BakedDtos(o)) = Asked(o, Len(o))
    <3>1. ToSet(BaseDtos) \subseteq Names
      BY DEF Names
    <3>2. QED
      BY <2>1, <3>1, BakedAsAsked
  <2>4. /\ ToSet(final.dtos) = ToSet(BakedDtos(o)) /\ IsInjective(final.dtos)
        /\ final.rots = <<>>
    BY <1>8, <2>2, <2>3 DEF AddRotation, Eases, FinalOnTheWay
  <2>5. BakedRots(easy.rotation) \in Seq(Rotations)
    BY SomeImages DEF Records
  <2>6. <<>> \o BakedRots(easy.rotation) = BakedRots(easy.rotation)
    BY <2>5, ConcatEmptySeq
  <2>7. easy' = [easy EXCEPT !.pc = "done"]
    BY <1>8 DEF AddRotation, Eases
  <2>8. /\ final' = [final EXCEPT !.rots = BakedRots(easy.rotation)]
        /\ final' \in Image
    BY <1>8, <2>4, <2>5, <2>6 DEF AddRotation, Records, Image
  <2>9. Records'
    BY <1>1, <1>8, <2>7, <2>8 DEF AddRotation, Records, Ends
  <2>10. FinalAsAsked'
    BY <2>4, <2>7, <2>8 DEF Records, Image, FinalAsAsked
  <2>11. FinalOnTheWay'
    BY <2>7 DEF Records, FinalOnTheWay, EasyPlaces
  <2>12. QED
    BY <1>2, <2>9, <2>10, <2>11
<1>9. QED
  BY <1>3, <1>4, <1>5, <1>6, <1>7, <1>8 DEF EasyProgress

(* Nothing but the scripts changes an image.                               *)
LEMMA StepInv ==
  ASSUME CleanEnvironment, IInv, [Next]_vars
  PROVE  IInv'
<1>1. CASE UNCHANGED vars
  BY <1>1
     DEF vars, IInv, Records, BaseClean, OutAsAsked, FinalOnTheWay, FinalAsAsked,
         CleanImage, Saves
<1>2. CASE Next
  BY <1>2, BakeInv, EasyInv DEF Next
<1>3. QED
  BY <1>1, <1>2

(* The strengthened invariant holds in every state.                        *)
THEOREM Invariance ==
  ASSUME CleanEnvironment
  PROVE  Spec => []IInv
<1>1. IInv /\ [Next]_vars => IInv'
  BY StepInv
<1>2. QED
  BY <1>1, InitInv, PTL DEF Spec, Safe

(* The base image, be it half copied, is never one that was customised,    *)
(* and all state has its type.                                             *)
THEOREM InvHolds ==
  ASSUME CleanEnvironment
  PROVE  Spec => []Inv
<1>1. IInv => Inv
  BY RecordsAreTyped DEF IInv, Inv
<1>2. QED
  BY <1>1, Invariance, PTL

(* easy-bake.sh, when it ends well, has made what bake.sh would have made: *)
(* any lists, with empty elements and elements that are there already, and *)
(* with a bake.sh at work at the same time.                                *)
THEOREM FinalIsAsAsked ==
  ASSUME CleanEnvironment
  PROVE  Spec => []FinalAsAsked
<1>1. IInv => FinalAsAsked
  BY DEF IInv
<1>2. QED
  BY <1>1, Invariance, PTL
=============================================================================
