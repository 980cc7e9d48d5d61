-------------------------------- MODULE Bake --------------------------------
(***************************************************************************)
(* bake.sh, post-image.sh and easy-bake.sh: the images of one deconfig.    *)
(* bake.sh builds output/<deconfig>/images/sdcard.img and, when it was     *)
(* given neither overlays nor rotation, copies it to the base image;       *)
(* easy-bake.sh copies the base image to the final image and patches       *)
(* config.txt there.  The two scripts may run at the same time; nobody     *)
(* runs either of them twice at once for one deconfig.                     *)
(***************************************************************************)
EXTENDS Integers, Sequences, SequencesExt

CONSTANTS
  Overlays,    \* the lists of overlays that users give; <<>> is no argument,
               \* and "" an empty element: "a," is <<"a", "">>
  Rotations,   \* the rotations that they give; "" is no argument
  Exported,    \* the PITREZOR_DTO of the environment bake.sh starts in
  MaxFaults    \* bound on the kills and failing commands

ASSUME ConstantsAssumption ==
  /\ <<>> \in Overlays /\ Overlays \subseteq Seq(STRING)
  /\ "" \in Rotations /\ Rotations \subseteq STRING
  /\ Exported # {} /\ Exported \subseteq Seq(STRING)
  /\ MaxFaults \in Nat

VARIABLES
  bake,    \* bake.sh: where it is, its arguments, its environment
  easy,    \* easy-bake.sh: the same, the base it began to copy, the overlay
           \* that it is at
  out,     \* sdcard.img of OUTPUT_DIR
  base,    \* the base image
  final,   \* the final image
  faults   \* how many faults there were

vars == <<bake, easy, out, base, final, faults>>

(***************************************************************************)
(* An image: the dtoverlay and display_rotate lines of its config.txt, and *)
(* whether the file is whole.                                              *)
(***************************************************************************)
NoImage == [exists |-> FALSE, dtos |-> <<>>, rots |-> <<>>, whole |-> FALSE]

\* The overlays that board/pitrezor/config.txt names itself.
BaseDtos == <<"disable-wifi", "disable-bt", "dwc2", "vc4-kms-v3d">>

IsImage(i) ==
  /\ DOMAIN i = DOMAIN NoImage
  /\ i.exists \in BOOLEAN /\ i.whole \in BOOLEAN
  /\ ToSet(i.dtos) \subseteq ToSet(BaseDtos) \cup UNION {ToSet(o) : o \in Overlays \cup Exported}
  /\ ToSet(i.rots) \subseteq Rotations

BakePlaces == {"rm", "configure", "make", "image", "save", "saving"}
EasyPlaces == {"check", "copy", "copying", "mount", "rotate", "overlay"}
Ends == {"idle", "done", "failed"}

TypeOK ==
  /\ bake.pc \in BakePlaces \cup Ends /\ easy.pc \in EasyPlaces \cup Ends
  /\ {bake.overlays, easy.overlays} \subseteq Overlays
  /\ {bake.rotation, easy.rotation} \subseteq Rotations
  /\ bake.dto \in Overlays \cup Exported
  /\ easy.at \in 1..(Len(easy.overlays) + 1)
  /\ IsImage(out) /\ IsImage(base) /\ IsImage(final) /\ IsImage(easy.copied)
  /\ faults \in 0..MaxFaults

Init ==
  /\ bake = [pc |-> "idle", overlays |-> <<>>, rotation |-> "", dto |-> <<>>]
  /\ easy = [pc |-> "idle", overlays |-> <<>>, rotation |-> "", at |-> 1,
             copied |-> NoImage]
  /\ out = NoImage /\ base = NoImage /\ final = NoImage
  /\ faults = 0

Given(list) == list # <<>>

(***************************************************************************)
(* bake.sh                                                                 *)
(***************************************************************************)
StartBake(o, r, env) ==
  /\ bake.pc \in Ends
  /\ bake' = [pc |-> "rm", overlays |-> o, rotation |-> r,
              dto |-> IF Given(o) THEN o ELSE env]
  /\ UNCHANGED <<easy, out, base, final, faults>>

Bakes(from, to) == bake.pc = from /\ bake' = [bake EXCEPT !.pc = to]

\* rm -rf "${OUTPUT_DIR}"
RemoveOutput ==
  /\ Bakes("rm", "configure")
  /\ out' = NoImage
  /\ UNCHANGED <<easy, base, final, faults>>

\* The defconfig, the patch directories, the options of the debug mode.
Configure ==
  /\ Bakes("configure", "make")
  /\ UNCHANGED <<easy, out, base, final, faults>>

\* make, up to the post-image script.
Build ==
  /\ Bakes("make", "image")
  /\ UNCHANGED <<easy, out, base, final, faults>>

\* config.txt as post-image.sh writes it, after n of the overlays.
BakedDtos(o) ==
  LET config[n \in 0..Len(o)] ==
        IF n = 0 THEN BaseDtos
        ELSE IF o[n] = "" THEN config[n - 1] ELSE Append(config[n - 1], o[n])
  IN  config[Len(o)]
BakedRots(r) == IF r = "" THEN <<>> ELSE <<r>>

\* The status of the loop over the overlays is that of "[ -n ... ] && echo" for
\* the last one, and the shell has -e.
LoopFails(o) == Given(o) /\ Last(o) = ""

\* post-image.sh, genimage.
PostImage ==
  /\ ~LoopFails(bake.dto)
  /\ Bakes("image", "save")
  /\ out' = [exists |-> TRUE, dtos |-> BakedDtos(bake.dto),
             rots |-> BakedRots(bake.rotation), whole |-> TRUE]
  /\ UNCHANGED <<easy, base, final, faults>>

PostImageFails ==
  /\ LoopFails(bake.dto)
  /\ Bakes("image", "failed")
  /\ UNCHANGED <<easy, out, base, final, faults>>

\* Mutants: the rotation is not asked for; cp -n keeps a base that is there.
SavesAny == ~Given(bake.overlays)
SavesNew == ~Given(bake.overlays) /\ bake.rotation = "" /\ ~base.exists

Saves == ~Given(bake.overlays) /\ bake.rotation = ""

NotSaved ==
  /\ ~Saves
  /\ Bakes("save", "done")
  /\ UNCHANGED <<easy, out, base, final, faults>>

\* cp truncates the base image and fills it again.
BeginSave ==
  /\ Saves
  /\ Bakes("save", "saving")
  /\ base' = [out EXCEPT !.whole = FALSE]
  /\ UNCHANGED <<easy, out, final, faults>>

FinishSave ==
  /\ Bakes("saving", "done")
  /\ base' = out
  /\ UNCHANGED <<easy, out, final, faults>>

\* A command fails, or the script is killed.
StopBake ==
  /\ bake.pc \in BakePlaces /\ faults < MaxFaults
  /\ faults' = faults + 1
  /\ bake' = [bake EXCEPT !.pc = "failed"]
  /\ UNCHANGED <<easy, out, base, final>>

(***************************************************************************)
(* easy-bake.sh                                                            *)
(***************************************************************************)
StartEasy(o, r) ==
  /\ easy.pc \in Ends
  /\ easy' = [pc |-> "check", overlays |-> o, rotation |-> r, at |-> 1,
              copied |-> NoImage]
  /\ UNCHANGED <<bake, out, base, final, faults>>

Eases(from, to) == easy.pc = from /\ easy' = [easy EXCEPT !.pc = to]

\* [[ ! -f "${BASE_IMG}" ]]; scripts/verify-base.sh looks at no more.
Check ==
  /\ Eases("check", IF base.exists THEN "copy" ELSE "failed")
  /\ UNCHANGED <<bake, out, base, final, faults>>

BeginCopy ==
  /\ easy.pc = "copy"
  /\ easy' = [easy EXCEPT !.pc = "copying", !.copied = base]
  /\ final' = [base EXCEPT !.whole = FALSE]
  /\ UNCHANGED <<bake, out, base, faults>>

FinishCopy ==
  /\ Eases("copying", "mount")
  /\ final' = [base EXCEPT !.whole = @ /\ base = easy.copied]
  /\ UNCHANGED <<bake, out, base, faults>>

\* The boot partition comes first: it may be there in a file that is not whole.
Mount ==
  /\ \/ Eases("mount", "rotate")
     \/ ~final.whole /\ Eases("mount", "failed")
  /\ UNCHANGED <<bake, out, base, final, faults>>

\* sed -i '/^display_rotate=/d'
RemoveRotation ==
  /\ Eases("rotate", "overlay")
  /\ final' = [final EXCEPT !.rots = <<>>]
  /\ UNCHANGED <<bake, out, base, faults>>

\* Mutant: a line that is there already is added again.
PatchedAlways(dtos, dto) == IF dto = "" THEN dtos ELSE Append(dtos, dto)

\* Empty elements are skipped, and so are lines that are there already.
Patched(dtos, dto) ==
  IF dto = "" \/ dto \in ToSet(dtos) THEN dtos ELSE Append(dtos, dto)

AddOverlay ==
  /\ easy.pc = "overlay" /\ easy.at <= Len(easy.overlays)
  /\ easy' = [easy EXCEPT !.at = @ + 1]
  /\ final' = [final EXCEPT !.dtos = Patched(@, easy.overlays[easy.at])]
  /\ UNCHANGED <<bake, out, base, faults>>

AddRotation ==
  /\ easy.at > Len(easy.overlays)
  /\ Eases("overlay", "done")
  /\ final' = [final EXCEPT !.rots = @ \o BakedRots(easy.rotation)]
  /\ UNCHANGED <<bake, out, base, faults>>

StopEasy ==
  /\ easy.pc \in EasyPlaces /\ faults < MaxFaults
  /\ faults' = faults + 1
  /\ easy' = [easy EXCEPT !.pc = "failed"]
  /\ UNCHANGED <<bake, out, base, final>>

BakeProgress ==
  \/ RemoveOutput \/ Configure \/ Build \/ PostImage \/ PostImageFails
  \/ NotSaved \/ BeginSave \/ FinishSave

EasyProgress ==
  \/ Check \/ BeginCopy \/ FinishCopy \/ Mount \/ RemoveRotation \/ AddOverlay
  \/ AddRotation

Next ==
  \/ \E o \in Overlays, r \in Rotations :
       \/ \E env \in Exported : StartBake(o, r, env)
       \/ StartEasy(o, r)
  \/ BakeProgress \/ EasyProgress \/ StopBake \/ StopEasy

Safe == Init /\ [][Next]_vars

StartClean == \E env \in Exported : StartBake(<<>>, "", env)

\* A script that was started goes on, and a base image is baked now and then.
Spec ==
  /\ Safe
  /\ WF_vars(BakeProgress) /\ WF_vars(EasyProgress) /\ SF_vars(StartClean)

(***************************************************************************)
(* Properties.                                                             *)
(***************************************************************************)
\* The base image, be it half copied, is never one that was customised
\* (bake.sh:116, "Saved clean base image").
BaseClean == base.exists => base.dtos = BaseDtos /\ base.rots = <<>>

\* When easy-bake.sh ends well the image has the config.txt that bake.sh would
\* have given it, without double lines, whatever an earlier run of it or a
\* bake.sh meanwhile did: DEVELOPERS.md:22-24 offers the one for the other.
FinalAsAsked ==
  easy.pc = "done" =>
    /\ ToSet(final.dtos) = ToSet(BakedDtos(easy.overlays))
    /\ IsInjective(final.dtos)
    /\ final.rots = BakedRots(easy.rotation)

\* Whatever was interrupted, baking again gives a whole base image.
BaseRecovers == []<>base.whole

\* The invariant of the two scripts: images are images, and the one that the
\* next run of bake.sh starts from is clean.
Inv == TypeOK /\ BaseClean
=============================================================================
