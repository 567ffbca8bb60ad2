------------------------ MODULE CompilationStagesProofs ------------------------
(***************************************************************************)
(* Proofs about stopping and going on, for every set of programs.          *)
(***************************************************************************)
EXTENDS CompilationStages, TLAPS

(* The numbers of the stages and of the positions.                         *)
USE DEF Stages, Intrinsics, Flatten, Unroll, ValidateQBB, Synthesize, Lower, Schedule, Separate,
        Split, Write

-----------------------------------------------------------------------------
(***************************************************************************)
(* What is seen in a file tells what has been done to it.                  *)
(***************************************************************************)
Shape(f) ==
  /\ f \in FileContents
  /\ InOrder(f)
  /\ f.conditioned => ValidateQBB \in f.applied
  /\ ValidateQBB \in f.applied => Found(f) = f.gates
  /\ Lower \in f.applied => "canonical" \notin f.gates
  /\ f.ids => Schedule \in f.applied
  /\ "immediate" \in f.gates => Separate \in f.applied
  /\ f.table <=> Separate \in f.applied
  /\ f.calls # "none" => Separate \in f.applied
  /\ f.calls = "declared" => Split \in f.applied
  /\ Separate \in f.applied => ~f.kernels \/ f.calls # "none"
  /\ ~f.kernels => Separate \in f.applied \/ f.gates = {}

(* A program without kernels is taken to be complete.                      *)
Excused(f) == ~f.kernels /\ Separate \notin f.applied

(* A driver at work: stages it does not start with have been applied, and  *)
(* so have those between the first and the one that comes next.  Places    *)
(* stand where they did in the file until gates are scheduled.             *)
Running ==
  /\ NextStage # 0 =>
       /\ outcome = "running"
       /\ Split \notin file.applied
       /\ Excused(file) => Excused(module) \/ Separate \in module.applied
       /\ \A s \in Stages : s < StartStage => s \in module.applied \/ (Excused(module) /\ StartStage = Split)
       /\ \A s \in Stages : StartStage <= s /\ s < NextStage /\ s <= EndStage => s \in module.applied
       /\ NextStage <= Schedule => module.ids = file.ids
       /\ NextStage <= Separate => module.applied \cap {Separate} = file.applied \cap {Separate}
       /\ Separate \in file.applied => StartStage = Split
       /\ extension = "cpp" => StartStage = 0
       /\ StartStage = Split /\ NextStage <= Split => module = file
  /\ outcome = "running" => NextStage # 0

StagesInv ==
  /\ Shape(file) /\ Shape(module)
  /\ extension \in {"cpp", "ll"}
  /\ extension = "cpp" => file.applied = {}
  /\ NextStage \in 0 .. Write /\ StartStage \in 0 .. Split /\ EndStage \in 0 .. Write
  /\ Running
  /\ NoStageSkipped
  /\ OthersContinue

-----------------------------------------------------------------------------
LEMMA StartsInShape == StagesInit => StagesInv
<1> SUFFICES ASSUME StagesInit
             PROVE  StagesInv
  OBVIOUS
<1>1. IsSource(file)
  BY SourcesAreSources DEF StagesInit
<1>2. Shape(file)
  BY <1>1 DEF IsSource, Shape, FileContents, InOrder, Found, Kinds
<1> QED
  BY <1>1, <1>2 DEF StagesInit, StagesInv, Running, NoStageSkipped, OthersContinue, Shape, IsSource, InOrder

-----------------------------------------------------------------------------
(* The stage a file is picked up at is not beyond what it has been         *)
(* through, unless it has no kernels.                                      *)
LEMMA PickedUpInTime ==
  ASSUME NEW f, Shape(f), Split \notin f.applied
  PROVE  /\ StageAt(Position(f), 0) \in 0 .. Split
         /\ \A s \in Stages : s < StageAt(Position(f), 0) =>
              s \in f.applied \/ (Excused(f) /\ StageAt(Position(f), 0) = Split)
         /\ Separate \in f.applied => StageAt(Position(f), 0) = Split
<1> DEFINE p1 == checkForConditioning(f, kBegin)
           p2 == checkForNative(f, p1)
           p3 == checkForMapped(f, p2)
           p4 == checkForInRange(f, p3)
           p5 == checkForIMM(f, p4)
           p6 == checkForSeparation(f, p5)
<1> USE DEF Raised, kBegin, kConditioned, kNative, kMapped, kAnglesInRange, kAllIMM,
            kSimpleQBBSplit, kReadyForModSplit, kModSplit
<1>0. f \in FileContents /\ f.calls # "declared"
  BY DEF Shape
<1>1. CASE ~f.kernels
  <2>1. Position(f) = kSimpleQBBSplit
    BY <1>0, <1>1 DEF Position, checkForConditioning, checkForNative, checkForMapped, checkForInRange,
                 checkForIMM, checkForSeparation
  <2>2. StageAt(Position(f), 0) = Split
    BY <2>1 DEF StageAt
  <2>3. Separate \in f.applied => \A s \in Stages : s < Split => s \in f.applied
    BY DEF Shape, InOrder
  <2> QED
    BY <1>1, <2>2, <2>3 DEF Excused
<1>2. CASE f.kernels /\ f.calls = "defined"
  <2>1. p5 \in 0 .. kAllIMM
    BY <1>2 DEF checkForConditioning, checkForNative, checkForMapped, checkForInRange, checkForIMM
  <2>2. p6 = kSimpleQBBSplit
    BY <1>0, <1>2, <2>1 DEF checkForSeparation
  <2>3. StageAt(Position(f), 0) = Split
    BY <2>2 DEF StageAt, Position
  <2>4. Separate \in f.applied
    BY <1>2 DEF Shape
  <2>5. \A s \in Stages : s < Split => s \in f.applied
    BY <2>4 DEF Shape, InOrder
  <2> QED
    BY <2>3, <2>5
<1>3. CASE f.kernels /\ f.calls = "none"
  <2>1. Separate \notin f.applied
    BY <1>3 DEF Shape
  <2>2. CASE Found(f) = {}
    <3>1. Position(f) = kBegin
      BY <1>3, <2>2 DEF Position, checkForConditioning, checkForNative, checkForMapped,
                        checkForInRange, checkForIMM, checkForSeparation
    <3> QED
      BY <2>1, <3>1 DEF StageAt
  <2>3. CASE Found(f) # {}
    <3>1. ValidateQBB \in f.applied
      BY <2>3 DEF Found, Shape
    <3>2. "immediate" \notin Found(f) /\ ~(Found(f) \subseteq {"immediate"})
      BY <2>1, <2>3 DEF Shape, Found
    <3>3. p1 = kConditioned /\ p2 \in {kConditioned, kNative}
      BY <1>3, <2>3 DEF checkForConditioning, checkForNative
    <3>4. CASE f.ids
      <4>1. p3 = kMapped /\ p4 \in {kMapped, kAnglesInRange} /\ p5 = p4 /\ p6 = p4
        BY <1>3, <2>3, <3>2, <3>3, <3>4 DEF checkForMapped, checkForInRange, checkForIMM, checkForSeparation
      <4>2. StageAt(Position(f), 0) = Schedule
        BY <4>1 DEF StageAt, Position
      <4>3. Schedule \in f.applied
        BY <3>4 DEF Shape
      <4> QED
        BY <2>1, <4>2, <4>3 DEF Shape, InOrder
    <3>5. CASE ~f.ids
      <4>1. p3 = p2 /\ p4 = p2 /\ p5 = p2 /\ p6 = p2
        BY <1>3, <2>3, <3>2, <3>3, <3>5 DEF checkForMapped, checkForInRange, checkForIMM, checkForSeparation
      <4>2. StageAt(Position(f), 0) \in {Synthesize, Lower}
        BY <3>3, <4>1 DEF StageAt, Position
      <4> QED
        BY <2>1, <3>1, <4>2 DEF Shape, InOrder
    <3> QED
      BY <3>4, <3>5, <1>0 DEF FileContents
  <2> QED
    BY <2>2, <2>3
<1> QED
  BY <1>0, <1>1, <1>2, <1>3 DEF FileContents

LEMMA CompileInv ==
  ASSUME StagesInv, Compile
  PROVE  StagesInv'
<1>1. PICK last \in Intrinsics .. Write :
        /\ EndStage' = last
        /\ IF extension = "ll" /\ Position(file) = kReadyForModSplit
           THEN outcome' = "refused" /\ UNCHANGED <<module, NextStage, StartStage>>
           ELSE /\ StartStage' = IF extension = "cpp" THEN 0 ELSE StageAt(Position(file), 0)
                /\ NextStage' = Intrinsics
                /\ module' = file
                /\ outcome' = "running"
  BY DEF Compile
<1>2. NextStage = 0 /\ Split \notin file.applied /\ UNCHANGED <<file, extension>>
  BY DEF Compile
<1>3. CASE extension = "ll" /\ Position(file) = kReadyForModSplit
  BY <1>1, <1>2, <1>3 DEF StagesInv, Running, NoStageSkipped, OthersContinue, Shape, InOrder
<1>4. CASE ~(extension = "ll" /\ Position(file) = kReadyForModSplit)
  <2>1. /\ StartStage' = IF extension = "cpp" THEN 0 ELSE StageAt(Position(file), 0)
        /\ NextStage' = Intrinsics /\ module' = file /\ outcome' = "running"
    BY <1>1, <1>4
  <2>2. /\ StartStage' \in 0 .. Split
        /\ \A s \in Stages : s < StartStage' => s \in file.applied \/ (Excused(file) /\ StartStage' = Split)
        /\ Separate \in file.applied => StartStage' = Split
    BY <1>2, <2>1, PickedUpInTime DEF StagesInv
  <2>3. Running'
    BY <1>2, <2>1, <2>2 DEF Running, StagesInv, Excused
  <2> QED
    BY <1>1, <1>2, <2>1, <2>2, <2>3 DEF StagesInv, NoStageSkipped, OthersContinue, Shape, InOrder
<1> QED
  BY <1>3, <1>4

-----------------------------------------------------------------------------
(* What an applied stage adds to, given the stages before.                 *)
LEMMA StagesBelow ==
  ASSUME StagesInv, NEW s \in Stages, NextStage = s, StartStage <= s, s <= EndStage,
         s = Split => module.table
  PROVE  \A t \in Stages : t < s => t \in module.applied
<1> SUFFICES ASSUME NEW t \in Stages, t < s
             PROVE  t \in module.applied
  OBVIOUS
<1>1. NextStage # 0 /\ StartStage \in 0 .. Split /\ EndStage \in 0 .. Write
  BY DEF StagesInv
<1>2. CASE t < StartStage
  <2>1. t \in module.applied \/ (Excused(module) /\ StartStage = Split)
    BY <1>1, <1>2 DEF StagesInv, Running
  <2>2. Excused(module) /\ StartStage = Split => ~module.table /\ s = Split
    BY <1>1 DEF Excused, StagesInv, Shape
  <2> QED
    BY <2>1, <2>2
<1>3. CASE StartStage <= t
  BY <1>1, <1>3 DEF StagesInv, Running
<1> QED
  BY <1>1, <1>2, <1>3

LEMMA LeftOutInv ==
  ASSUME StagesInv, NextStage \in Intrinsics .. Split,
         ~(StartStage <= NextStage /\ NextStage <= EndStage) \/ NextStage = Synthesize,
         NextStage' = NextStage + 1, UNCHANGED <<file, extension, module, StartStage, EndStage, outcome>>
  PROVE  StagesInv'
<1>1. Running'
  BY DEF StagesInv, Running, Excused
<1> QED
  BY <1>1 DEF StagesInv, Running, NoStageSkipped, OthersContinue, Shape, InOrder, Found

LEMMA AppliedInv ==
  ASSUME StagesInv, NEW s \in Stages, NextStage = s, StartStage <= s, s <= EndStage,
         s = Split => module.table,
         NextStage' = s + 1, UNCHANGED <<file, extension, StartStage, EndStage, outcome>>,
         module' \in FileContents,
         module'.applied = module.applied \cup {s},
         InOrder(module') => Shape(module'),
         s = Separate \/ module'.kernels = module.kernels,
         s < Schedule => module'.ids = module.ids
  PROVE  StagesInv'
<1>1. \A t \in Stages : t < s => t \in module.applied
  BY StagesBelow
<1>2. InOrder(module')
  BY <1>1 DEF StagesInv, Shape, InOrder
<1>3. /\ NextStage # 0 /\ StartStage \in 0 .. Split /\ EndStage \in 0 .. Write
      /\ module.kernels \in BOOLEAN /\ module'.kernels \in BOOLEAN
  BY DEF StagesInv, Shape, FileContents
<1>4. Excused(module) => Excused(module') \/ Separate \in module'.applied
  BY <1>3 DEF Excused
<1>5. Running'
  <2>1. \A t \in Stages : t < StartStage => t \in module'.applied \/ (Excused(module') /\ StartStage = Split)
    BY <1>1, <1>3
  <2>2. \A t \in Stages : StartStage <= t /\ t < NextStage' /\ t <= EndStage => t \in module'.applied
    BY <1>1, <1>3
  <2>3. Excused(file) => Excused(module') \/ Separate \in module'.applied
    BY <1>3, <1>4 DEF StagesInv, Running
  <2>4. NextStage' <= Separate => module'.applied \cap {Separate} = file.applied \cap {Separate}
    BY <1>3 DEF StagesInv, Running
  <2>5. NextStage' <= Schedule => module'.ids = file.ids
    BY <1>3 DEF StagesInv, Running
  <2>6. StartStage = Split /\ NextStage' <= Split => module' = file
    BY <1>3
  <2> QED
    BY <1>3, <2>1, <2>2, <2>3, <2>4, <2>5, <2>6 DEF StagesInv, Running, Excused
<1>6. NoStageSkipped'
  BY <1>2, <1>3 DEF StagesInv, Running, NoStageSkipped, InOrder
<1>7. Shape(file)' /\ Shape(module)'
  BY <1>2 DEF StagesInv, Shape, InOrder, Found
<1> QED
  BY <1>3, <1>5, <1>6, <1>7 DEF StagesInv, Running, OthersContinue

LEMMA FailedInv ==
  ASSUME StagesInv, NextStage \in Stages, NextStage' = 0, outcome' = "failed",
         UNCHANGED <<file, extension, module, StartStage, EndStage>>,
         OthersContinue'
  PROVE  StagesInv'
BY DEF StagesInv, Running, NoStageSkipped, Shape, InOrder, Found

(* Before any stage but the last a module has been through all that come   *)
(* before.                                                                 *)
LEMMA ReadyFor ==
  ASSUME StagesInv, NEW s \in {Schedule, Separate}, NextStage = s, StartStage <= s, s <= EndStage
  PROVE  /\ Found(module) = module.gates
         /\ "canonical" \notin module.gates
<1>1. ValidateQBB \in module.applied /\ Lower \in module.applied
  BY StagesBelow
<1> QED
  BY <1>1 DEF StagesInv, Shape

(* Each stage: what it leaves is in shape again, and where it gives up is  *)
(* where it may.                                                           *)
LEMMA FirstStagesInv ==
  ASSUME StagesInv, InsertIntrinsics \/ FlattenKernels \/ UnrollLoops
  PROVE  StagesInv'
<1>1. PICK s \in {Intrinsics, Flatten, Unroll} : Passes(s, TRUE, module)
  BY DEF InsertIntrinsics, FlattenKernels, UnrollLoops
<1>2. CASE StartStage <= s /\ s <= EndStage
  <2>1. /\ NextStage = s /\ NextStage' = s + 1 /\ UNCHANGED <<file, extension, StartStage, EndStage, outcome>>
        /\ module' = [module EXCEPT !.applied = @ \cup {s}]
    BY <1>1, <1>2 DEF Passes
  <2>2. module \in FileContents /\ Shape(module)
    BY DEF StagesInv, Shape
  <2>3. InOrder(module') => Shape(module')
    BY <2>1, <2>2 DEF Shape, FileContents, Found
  <2> QED
    BY <1>2, <2>1, <2>2, <2>3, AppliedInv DEF FileContents
<1>3. CASE ~(StartStage <= s /\ s <= EndStage)
  BY <1>1, <1>3, LeftOutInv DEF Passes
<1> QED
  BY <1>2, <1>3

LEMMA ConditionInv ==
  ASSUME StagesInv, Condition
  PROVE  StagesInv'
<1>1. Passes(ValidateQBB, TRUE, [module EXCEPT !.conditioned = module.gates # {}])
  BY DEF Condition
<1>2. CASE StartStage <= ValidateQBB /\ ValidateQBB <= EndStage
  <2>1. /\ NextStage = ValidateQBB /\ NextStage' = ValidateQBB + 1 /\ UNCHANGED <<file, extension, StartStage, EndStage, outcome>>
        /\ module' = [[module EXCEPT !.conditioned = module.gates # {}] EXCEPT !.applied = @ \cup {ValidateQBB}]
    BY <1>1, <1>2 DEF Passes
  <2>2. module \in FileContents /\ Shape(module)
    BY DEF StagesInv, Shape
  <2>3. /\ module' \in FileContents
        /\ module'.conditioned = (module.gates # {})
        /\ module'.applied = module.applied \cup {ValidateQBB}
        /\ module'.kernels = module.kernels /\ module'.gates = module.gates
        /\ module'.ids = module.ids /\ module'.table = module.table /\ module'.calls = module.calls
    BY <2>1, <2>2 DEF FileContents
  <2>4. Found(module') = module'.gates
    BY <2>3 DEF Found
  <2>5. InOrder(module') => Shape(module')
    BY <2>2, <2>3, <2>4 DEF Shape
  <2> QED
    BY <1>2, <2>1, <2>3, <2>5, AppliedInv
<1>3. CASE ~(StartStage <= ValidateQBB /\ ValidateQBB <= EndStage)
  BY <1>1, <1>3, LeftOutInv DEF Passes
<1> QED
  BY <1>2, <1>3

LEMMA LowerInv ==
  ASSUME StagesInv, LowerGates
  PROVE  StagesInv'
<1> DEFINE lowered == IF "canonical" \in Found(module)
                      THEN (module.gates \ {"canonical"}) \cup {"native"} ELSE module.gates
<1>1. Passes(Lower, TRUE, [module EXCEPT !.gates = lowered])
  BY DEF LowerGates
<1>2. CASE StartStage <= Lower /\ Lower <= EndStage
  <2>1. /\ NextStage = Lower /\ NextStage' = Lower + 1 /\ UNCHANGED <<file, extension, StartStage, EndStage, outcome>>
        /\ module' = [[module EXCEPT !.gates = lowered] EXCEPT !.applied = @ \cup {Lower}]
    BY <1>1, <1>2 DEF Passes
  <2>2. module \in FileContents /\ Shape(module)
    BY DEF StagesInv, Shape
  <2>3. ValidateQBB \in module.applied
    BY <1>2, <2>1, StagesBelow
  <2>4. Found(module) = module.gates
    BY <2>2, <2>3 DEF Shape
  <2>5. lowered \in SUBSET Kinds /\ "canonical" \notin lowered
    BY <2>2, <2>4 DEF FileContents, Kinds
  <2>6. "immediate" \in lowered => "immediate" \in module.gates
    OBVIOUS
  <2>7. lowered = {} <=> module.gates = {}
    BY <2>4
  <2> HIDE DEF lowered
  <2>8. /\ module' \in FileContents
        /\ module'.gates = lowered
        /\ module'.applied = module.applied \cup {Lower}
        /\ module'.kernels = module.kernels /\ module'.conditioned = module.conditioned
        /\ module'.ids = module.ids /\ module'.table = module.table /\ module'.calls = module.calls
    BY <2>1, <2>2, <2>5 DEF FileContents
  <2>9. Found(module') = module'.gates
    BY <2>4, <2>7, <2>8 DEF Found
  <2>10. InOrder(module') => Shape(module')
    BY <2>2, <2>3, <2>5, <2>6, <2>7, <2>8, <2>9 DEF Shape
  <2> QED
    BY <1>2, <2>1, <2>8, <2>10, AppliedInv
<1>3. CASE ~(StartStage <= Lower /\ Lower <= EndStage)
  BY <1>1, <1>3, LeftOutInv DEF Passes
<1> QED
  BY <1>2, <1>3

LEMMA ScheduleInv ==
  ASSUME StagesInv, ScheduleGates
  PROVE  StagesInv'
<1> DEFINE turned == (module.angles \ {"beyond"}) \cup (IF "beyond" \in module.angles THEN {"inside"} ELSE {})
           scheduled == [module EXCEPT !.ids = Found(module) # {}, !.angles = turned]
<1>1. Passes(Schedule, Schedulable, scheduled)
  BY DEF ScheduleGates
<1>2. CASE StartStage <= Schedule /\ Schedule <= EndStage /\ Schedulable
  <2>1. /\ NextStage = Schedule /\ NextStage' = Schedule + 1 /\ UNCHANGED <<file, extension, StartStage, EndStage, outcome>>
        /\ module' = [scheduled EXCEPT !.applied = @ \cup {Schedule}]
    BY <1>1, <1>2 DEF Passes
  <2>2. module \in FileContents /\ Shape(module)
    BY DEF StagesInv, Shape
  <2>3. turned \in SUBSET Angles
    BY <2>2 DEF FileContents, Angles
  <2> HIDE DEF turned
  <2>4. /\ module' \in FileContents
        /\ module'.applied = module.applied \cup {Schedule}
        /\ module'.kernels = module.kernels /\ module'.conditioned = module.conditioned
        /\ module'.gates = module.gates /\ module'.table = module.table /\ module'.calls = module.calls
    BY <2>1, <2>2, <2>3 DEF FileContents
  <2>5. Found(module') = Found(module)
    BY <2>4 DEF Found
  <2>6. InOrder(module') => Shape(module')
    BY <2>2, <2>4, <2>5 DEF Shape
  <2> QED
    BY <1>2, <2>1, <2>4, <2>6, AppliedInv
<1>3. CASE StartStage <= Schedule /\ Schedule <= EndStage /\ ~Schedulable
  <2>1. /\ NextStage = Schedule /\ NextStage' = 0 /\ outcome' = "failed"
        /\ UNCHANGED <<file, extension, module, StartStage, EndStage>>
    BY <1>1, <1>3 DEF Passes
  <2>2. module.ids /\ module.ids = file.ids
    BY <1>3, <2>1, ReadyFor DEF Schedulable, StagesInv, Running
  <2>3. Schedule \in file.applied
    BY <2>2 DEF StagesInv, Shape
  <2>4. extension = "ll" /\ Separate \notin file.applied
    BY <1>3, <2>1, <2>3 DEF StagesInv, Running
  <2> QED
    BY <2>1, <2>3, <2>4, FailedInv DEF OthersContinue
<1>4. CASE ~(StartStage <= Schedule /\ Schedule <= EndStage)
  BY <1>1, <1>4, LeftOutInv DEF Passes
<1> QED
  BY <1>2, <1>3, <1>4

LEMMA SeparateInv ==
  ASSUME StagesInv, SeparateBlocks
  PROVE  StagesInv'
<1> DEFINE need == "canonical" \notin Found(module) /\ Found(module) = module.gates
           separated == [module EXCEPT !.gates = IF Found(module) = {} THEN @ ELSE {"immediate"},
                                       !.angles = IF Found(module) = {} THEN @ ELSE {},
                                       !.table = TRUE,
                                       !.calls = IF Found(module) = {} THEN @ ELSE "defined",
                                       !.kernels = Found(module) # {}]
<1>1. Passes(Separate, need, separated)
  BY DEF SeparateBlocks
<1>2. CASE StartStage <= Separate /\ Separate <= EndStage
  <2>1. NextStage = Separate
    BY <1>1 DEF Passes
  <2>2. Found(module) = module.gates /\ "canonical" \notin module.gates
    BY <1>2, <2>1, ReadyFor
  <2>3. /\ NextStage' = Separate + 1 /\ UNCHANGED <<file, extension, StartStage, EndStage, outcome>>
        /\ module' = [separated EXCEPT !.applied = @ \cup {Separate}]
    BY <1>1, <1>2, <2>2 DEF Passes
  <2>4. module \in FileContents /\ Shape(module)
    BY DEF StagesInv, Shape
  <2>5. module' \in FileContents /\ module'.applied = module.applied \cup {Separate}
    BY <2>3, <2>4 DEF FileContents, Kinds
  <2>6. InOrder(module') => Shape(module')
    <3>1. CASE module.gates = {}
      BY <2>2, <2>3, <2>4, <2>5, <3>1 DEF Shape, FileContents, Found
    <3>2. CASE module.gates # {}
      BY <2>2, <2>3, <2>4, <2>5, <3>2 DEF Shape, FileContents, Found
    <3> QED
      BY <3>1, <3>2
  <2> QED
    BY <1>2, <2>1, <2>3, <2>5, <2>6, AppliedInv
<1>3. CASE ~(StartStage <= Separate /\ Separate <= EndStage)
  BY <1>1, <1>3, LeftOutInv DEF Passes
<1> QED
  BY <1>2, <1>3

LEMMA SplitInv ==
  ASSUME StagesInv, SplitModule
  PROVE  StagesInv'
<1> DEFINE divided == [module EXCEPT !.calls = IF @ = "none" THEN @ ELSE "declared"]
<1>1. Passes(Split, module.table, divided)
  BY DEF SplitModule
<1>2. CASE StartStage <= Split /\ Split <= EndStage /\ module.table
  <2>1. /\ NextStage = Split /\ NextStage' = Split + 1 /\ UNCHANGED <<file, extension, StartStage, EndStage, outcome>>
        /\ module' = [divided EXCEPT !.applied = @ \cup {Split}]
    BY <1>1, <1>2 DEF Passes
  <2>2. module \in FileContents /\ Shape(module)
    BY DEF StagesInv, Shape
  <2>3. /\ module' \in FileContents
        /\ module'.applied = module.applied \cup {Split}
        /\ module'.kernels = module.kernels /\ module'.conditioned = module.conditioned
        /\ module'.gates = module.gates /\ module'.ids = module.ids /\ module'.table = module.table
        /\ module'.calls = IF module.calls = "none" THEN "none" ELSE "declared"
    BY <2>1, <2>2 DEF FileContents
  <2>4. Found(module') = Found(module)
    BY <2>3 DEF Found
  <2>5. InOrder(module') => Shape(module')
    BY <2>2, <2>3, <2>4 DEF Shape
  <2> QED
    BY <1>2, <2>1, <2>3, <2>5, AppliedInv
<1>3. CASE StartStage <= Split /\ Split <= EndStage /\ ~module.table
  <2>1. /\ NextStage = Split /\ NextStage' = 0 /\ outcome' = "failed"
        /\ UNCHANGED <<file, extension, module, StartStage, EndStage>>
    BY <1>1, <1>3 DEF Passes
  <2>2. Separate \notin module.applied
    BY <1>3 DEF StagesInv, Shape
  <2>3. StartStage = Split /\ Excused(module)
    BY <1>3, <2>1, <2>2 DEF StagesInv, Running
  <2>4. module = file /\ extension = "ll"
    BY <2>1, <2>3 DEF StagesInv, Running
  <2> QED
    BY <2>1, <2>2, <2>3, <2>4, FailedInv DEF OthersContinue, Excused
<1>4. CASE ~(StartStage <= Split /\ Split <= EndStage)
  BY <1>1, <1>4, LeftOutInv DEF Passes
<1> QED
  BY <1>2, <1>3, <1>4

LEMMA PrintInv ==
  ASSUME StagesInv, PrintModule
  PROVE  StagesInv'
<1>1. /\ NextStage = Write /\ NextStage' = 0 /\ outcome' = "written"
      /\ file' = module /\ extension' = "ll" /\ UNCHANGED <<module, StartStage, EndStage>>
  BY DEF PrintModule
<1>2. Shape(file)' /\ Shape(module)'
  BY <1>1 DEF StagesInv, Shape, InOrder, Found
<1>3. module.kernels \/ Separate \in module.applied => \A s \in Stages : s <= EndStage => s \in module.applied
  BY <1>1 DEF StagesInv, Running, Excused
<1>4. NoStageSkipped'
  BY <1>1, <1>2, <1>3 DEF NoStageSkipped, Shape
<1> QED
  BY <1>1, <1>2, <1>4 DEF StagesInv, Running, OthersContinue

LEMMA StagesInvKept == StagesInv /\ [StagesNext]_stageVars => StagesInv'
<1> SUFFICES ASSUME StagesInv, [StagesNext]_stageVars
             PROVE  StagesInv'
  OBVIOUS
<1>1. CASE UNCHANGED stageVars
  BY <1>1 DEF stageVars, StagesInv, Running, NoStageSkipped, OthersContinue, Shape, InOrder, Found, Excused
<1>2. CASE Compile
  BY <1>2, CompileInv
<1>3. CASE InsertIntrinsics \/ FlattenKernels \/ UnrollLoops
  BY <1>3, FirstStagesInv
<1>4. CASE Condition
  BY <1>4, ConditionInv
<1>5. CASE NoPasses
  BY <1>5, LeftOutInv DEF NoPasses
<1>6. CASE LowerGates
  BY <1>6, LowerInv
<1>7. CASE ScheduleGates
  BY <1>7, ScheduleInv
<1>8. CASE SeparateBlocks
  BY <1>8, SeparateInv
<1>9. CASE SplitModule
  BY <1>9, SplitInv
<1>10. CASE PrintModule
  BY <1>10, PrintInv
<1> QED
  BY <1>1, <1>2, <1>3, <1>4, <1>5, <1>6, <1>7, <1>8, <1>9, <1>10 DEF StagesNext

-----------------------------------------------------------------------------
(* No stage is skipped, wherever a compilation is stopped and picked up.   *)
THEOREM StagesStayInOrder == StagesSpec => []NoStageSkipped
<1>1. StagesInv => NoStageSkipped
  BY DEF StagesInv
<1> QED
  BY <1>1, StartsInShape, StagesInvKept, PTL DEF StagesSpec

(* Stopping does no harm but after scheduling and to programs without      *)
(* kernels.                                                                *)
THEOREM OtherFilesContinue == StagesSpec => []OthersContinue
<1>1. StagesInv => OthersContinue
  BY DEF StagesInv
<1> QED
  BY <1>1, StartsInShape, StagesInvKept, PTL DEF StagesSpec
=============================================================================
