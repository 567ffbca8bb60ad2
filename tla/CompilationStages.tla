--------------------------- MODULE CompilationStages ---------------------------
(***************************************************************************)
(* The way of a program through the stages of the compiler, in one go or   *)
(* in several: the script stops after a stage, leaves a file, and picks    *)
(* files up again.  Where it goes on is not written in the file: the       *)
(* compiler tells it from what the file holds (QuantumCompilerLinkage).    *)
(*                                                                         *)
(* Of a file the model has what is asked of it, which is also all that the *)
(* stages change; what the passes do to gates is modelled by the other     *)
(* modules.  A program that is compiled is valid and fits the platform.    *)
(***************************************************************************)
EXTENDS Integers

CONSTANT Sources      \* what the programs hold as the frontend leaves them

Kinds == {"canonical", "native", "immediate"}

(* Angles of rotations, or bits that results go to: known and below pi, pi *)
(* itself, known and beyond the range, or not known before the program     *)
(* runs.                                                                   *)
Angles == {"inside", "half", "beyond", "unknown"}

(* The numbers of the stages in the driver; "synthesize" is 5 and has no   *)
(* passes of its own.                                                      *)
Intrinsics == 1
Flatten    == 2
Unroll     == 3
ValidateQBB   == 4
Synthesize == 5
Lower      == 6
Schedule   == 7
Separate   == 8
Split      == 9
Write      == 10      \* the printing of the module, after all stages

Stages == {Intrinsics, Flatten, Unroll, ValidateQBB, Lower, Schedule, Separate, Split}

FileContents ==
  [kernels : BOOLEAN,            \* there are functions in the section of kernels
   conditioned : BOOLEAN,        \* blocks with gates are named as quantum blocks
   gates : SUBSET Kinds,
   ids : BOOLEAN,                \* operands are places instead of program qubits
   angles : SUBSET Angles,
   table : BOOLEAN,              \* the array shared with the backend exists
   calls : {"none", "defined", "declared"},   \* what calls of the runtime are given
   applied : SUBSET Stages]      \* whose passes have been over the file

IsSource(f) ==
  /\ f \in FileContents
  /\ ~f.kernels => f.gates = {}
  /\ "immediate" \notin f.gates
  /\ f.gates = {} => f.angles = {}
  /\ ~f.conditioned /\ ~f.ids /\ ~f.table /\ f.calls = "none" /\ f.applied = {}

ASSUME SourcesAreSources == \A f \in Sources : IsSource(f)

VARIABLES
  file,                   \* the file that is there, and
  extension,              \* its name: of a program or of IR
  module,                 \* what the driver works on
  NextStage,              \* whose passes come next; 0 when no driver runs
  StartStage, EndStage,   \* of the driver
  outcome                 \* of the last call of the script

stageVars == <<file, extension, module, NextStage, StartStage, EndStage, outcome>>

-----------------------------------------------------------------------------
(***************************************************************************)
(* The position in the compilation: checks that raise it, in their order.  *)
(* Each counts the gates of quantum blocks only, and is content when there *)
(* is no kernel.                                                           *)
(***************************************************************************)
kBegin == 0
kConditioned == 2
kNative == 3
kMapped == 4
kAnglesInRange == 5
kAllIMM == 9
kSimpleQBBSplit == 10
kReadyForModSplit == 11
kModSplit == 12

Found(f) == IF f.conditioned THEN f.gates ELSE {}

Raised(pos, higher, condition) == IF pos < higher /\ condition THEN higher ELSE pos

checkForConditioning(f, pos) ==
  Raised(pos, kConditioned, ~f.kernels \/ Found(f) # {})

checkForNative(f, pos) ==
  Raised(pos, kNative, ~f.kernels \/ (Found(f) # {} /\ "canonical" \notin Found(f)))

checkForMapped(f, pos) ==
  Raised(pos, kMapped, ~f.kernels \/ (Found(f) # {} /\ f.ids))

checkForInRangeOfAll(f, pos) ==                                   \* a variant
  Raised(pos, kAnglesInRange, ~f.kernels \/ (Found(f) # {} /\ f.angles \subseteq {"inside"}))

(* An angle of pi is out of range for this check, unlike for the pass.     *)
checkForInRange(f, pos) ==
  Raised(pos, kAnglesInRange,
         pos >= kMapped /\ (~f.kernels \/ (Found(f) # {} /\ f.angles \subseteq {"inside"})))

checkForIMMOrNative(f, pos) ==                                    \* a variant
  Raised(pos, kAllIMM, ~f.kernels \/ (Found(f) # {} /\ "canonical" \notin Found(f)))

checkForIMM(f, pos) ==
  Raised(pos, kAllIMM, ~f.kernels \/ (Found(f) # {} /\ Found(f) \subseteq {"immediate"}))

checkForSeparation(f, pos) ==
  IF f.calls = "declared" THEN kModSplit
  ELSE Raised(pos, kSimpleQBBSplit, f.calls = "defined" \/ ~f.kernels)

Position(f) ==
  checkForSeparation(f, checkForIMM(f, checkForInRange(f,
    checkForMapped(f, checkForNative(f, checkForConditioning(f, kBegin))))))

(* Where the script lets the driver start: the stage it has been given, if *)
(* any, for a program and where the position says nothing.                 *)
StageAt(pos, given) ==
  CASE pos \in {1, kConditioned} -> Synthesize
    [] pos = kNative -> Lower
    [] pos \in kMapped .. 8 -> Schedule
    [] pos = kAllIMM -> Separate
    [] pos = kSimpleQBBSplit -> Split
    [] OTHER -> given

-----------------------------------------------------------------------------
StagesInit ==
  /\ file \in Sources
  /\ extension \in {"cpp", "ll"}      \* IR of the frontend is kept on demand
  /\ module = file
  /\ NextStage = 0 /\ StartStage = 0 /\ EndStage = 0
  /\ outcome = "none"

(* The script is called, to stop after a stage.  What is complete is not   *)
(* compiled again.                                                         *)
Compile ==
  /\ NextStage = 0 /\ Split \notin file.applied
  /\ \E last \in Intrinsics .. Write :
       /\ EndStage' = last
       /\ IF extension = "ll" /\ Position(file) = kReadyForModSplit
          THEN outcome' = "refused" /\ UNCHANGED <<module, NextStage, StartStage>>
          ELSE /\ StartStage' = IF extension = "cpp" THEN 0 ELSE StageAt(Position(file), 0)
               /\ NextStage' = Intrinsics
               /\ module' = file
               /\ outcome' = "running"
  /\ UNCHANGED <<file, extension>>

(* The passes of a stage: with what they need, without it the compiler     *)
(* exits, and what they leave.  Other stages than those between the first  *)
(* and the last are left out.                                              *)
Passes(s, need, treated) ==
  /\ NextStage = s
  /\ IF StartStage <= s /\ s <= EndStage
     THEN IF need
          THEN /\ module' = [treated EXCEPT !.applied = @ \cup {s}]
               /\ NextStage' = s + 1 /\ UNCHANGED outcome
          ELSE NextStage' = 0 /\ outcome' = "failed" /\ UNCHANGED module
     ELSE NextStage' = s + 1 /\ UNCHANGED <<module, outcome>>
  /\ UNCHANGED <<file, extension, StartStage, EndStage>>

InsertIntrinsics == Passes(Intrinsics, TRUE, module)
FlattenKernels   == Passes(Flatten, TRUE, module)
UnrollLoops      == Passes(Unroll, TRUE, module)

(* The block that the gates are moved into is named; without gates none is.*)
Condition == Passes(ValidateQBB, TRUE, [module EXCEPT !.conditioned = module.gates # {}])

NoPasses ==
  /\ NextStage = Synthesize
  /\ NextStage' = NextStage + 1
  /\ UNCHANGED <<file, extension, module, StartStage, EndStage, outcome>>

LowerGates ==
  Passes(Lower, TRUE,
         [module EXCEPT !.gates = IF "canonical" \in Found(module)
                                  THEN (@ \ {"canonical"}) \cup {"native"} ELSE @])

(* The scheduler looks up where program qubits are: a place is none, and   *)
(* no gate is available there.  Canonical gates are on no platform.        *)
Schedulable == "canonical" \notin Found(module) /\ (Found(module) # {} => ~module.ids)

ScheduleGates ==
  Passes(Schedule, Schedulable,
         [module EXCEPT !.ids = Found(module) # {},
                        !.angles = (@ \ {"beyond"}) \cup (IF "beyond" \in @ THEN {"inside"} ELSE {})])

(* Gates get immediate operands and entries of the table, then blocks are  *)
(* replaced by calls, and what is left of a kernel is none.                *)
SeparateBlocks ==
  Passes(Separate, "canonical" \notin Found(module) /\ Found(module) = module.gates,
         [module EXCEPT !.gates = IF Found(module) = {} THEN @ ELSE {"immediate"},
                        !.angles = IF Found(module) = {} THEN @ ELSE {},
                        !.table = TRUE,
                        !.calls = IF Found(module) = {} THEN @ ELSE "defined",
                        !.kernels = Found(module) # {}])

(* Blocks are moved into a file of their own, and declared in this one.    *)
SplitModule ==
  Passes(Split, module.table,
         [module EXCEPT !.calls = IF @ = "none" THEN @ ELSE "declared"])

PrintModule ==
  /\ NextStage = Write
  /\ NextStage' = 0
  /\ outcome' = "written"
  /\ file' = module /\ extension' = "ll"
  /\ UNCHANGED <<module, StartStage, EndStage>>

StagesNext ==
  \/ Compile
  \/ InsertIntrinsics \/ FlattenKernels \/ UnrollLoops \/ Condition \/ NoPasses
  \/ LowerGates \/ ScheduleGates \/ SeparateBlocks \/ SplitModule \/ PrintModule

StagesSpec == StagesInit /\ [][StagesNext]_stageVars

-----------------------------------------------------------------------------
(***************************************************************************)
(* Properties.                                                             *)
(***************************************************************************)

(* Whatever points a compilation is stopped at and picked up from, no pass *)
(* works on a file that an earlier stage has not been over, and a file has *)
(* been through all stages up to the one it was to stop after: the         *)
(* position that is told from a file is never beyond what was done to it.  *)
(* Programs without kernels have nothing to be skipped in.                 *)
InOrder(f) == \A s \in f.applied, t \in Stages : t < s => t \in f.applied

NoStageSkipped ==
  /\ InOrder(file) /\ InOrder(module)
  /\ outcome = "written" /\ (file.kernels \/ Separate \in file.applied)
       => \A s \in Stages : s <= EndStage => s \in file.applied

(* A compilation fails only when it continues one that was stopped after   *)
(* scheduling, or in a program without kernels: stopping anywhere else     *)
(* does no harm.                                                           *)
OthersContinue ==
  outcome = "failed" =>
    /\ extension = "ll"
    /\ Separate \notin file.applied
    /\ file.kernels => Schedule \in file.applied

(* README.md:80: the script can "pick up a generated IR file               *)
(* mid-compilation, detect the stage of compilation and continue".  Here   *)
(* of files in which there is something to compile.                        *)
PickedUpFilesContinue == extension = "ll" /\ file.kernels => outcome # "failed"

=============================================================================
