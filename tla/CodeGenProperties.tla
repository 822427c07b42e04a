------------------------- MODULE CodeGenProperties -------------------------
(***************************************************************************)
(* What the interpreter counts on in the modules CodeGen makes.            *)
(***************************************************************************)
EXTENDS CodeGen

(* The types of the builder's fields: labels number what they are given to, *)
(* and nothing is filed under an address the bytecode has not reached.      *)
TypeOK ==
  /\ module.status \in {"building", "crashed", "made"}
  /\ bytecode \in Seq(0..ByteSize + Len(INSTRUCTIONS) - 1)
  /\ constants \in Seq(Strings)
  /\ srcLoc \in Seq([index : 0..Address, location : Nat])
  /\ nextLabel \in Nat
  /\ \A l \in {labels[n] : n \in DOMAIN labels} \cup {globalFuncs[n] : n \in DOMAIN globalFuncs} :
       l < nextLabel
  /\ \A c \in DOMAIN labelDefs : /\ Low(labelDefs[c].key) = c
                                 /\ labelDefs[c].value \in 0..Address
  /\ \A c \in DOMAIN labelRefs : /\ Low(labelRefs[c].key) = c
                                 /\ labelRefs[c].value \in Seq(1..Address - 4)

-----------------------------------------------------------------------------
(* Reading a module, as executeCode does (readU32Module, readConstantModule *)
(* and createFrameCall).                                                    *)

Made == module.status = "made"

ByteAt(a) == module.bytecode[a + 1]
readU32Module(a) ==
  ((ByteAt(a) * ByteSize + ByteAt(a + 1)) * ByteSize + ByteAt(a + 2)) * ByteSize + ByteAt(a + 3)
readConstantModule(a) == module.constants[readU32Module(a) + 1]

Size(e) == CASE e.op \in ConstantOps \cup NumberOps \cup LabelOps -> 5
             [] e.op = "ARG_NAME" -> 4
             [] e.op = "DEF_FUNC" -> 2
             [] OTHER -> 1
End(e) == e.address + Size(e)

(* The operand of a jump is an address where its label was put down; the    *)
(* names of a function's arguments follow their count.                      *)
ReadsAs(i) ==
  LET e == emitted[i]
  IN /\ e.op # "ARG_NAME" => ByteAt(e.address) = Op(e.op)
     /\ e.op \in ConstantOps => readConstantModule(e.address + 1) = e.arg
     /\ e.op \in NumberOps => readU32Module(e.address + 1) = e.arg
     /\ e.op \in LabelOps => <<e.arg, readU32Module(e.address + 1)>> \in placed
     /\ e.op = "ARG_NAME" => readConstantModule(e.address) = e.arg
     /\ e.op = "DEF_FUNC" =>
          /\ ByteAt(e.address + 1) = Len(e.arg)
          /\ \A k \in 1..Len(e.arg) : /\ i + k \in DOMAIN emitted
                                      /\ emitted[i + k].op = "ARG_NAME"
                                      /\ emitted[i + k].arg = e.arg[k]

(* The limits inside which the builder works: no sequence ends with a full  *)
(* segment, the constants fit in one, labels and counts of arguments fit in *)
(* a byte, addresses in four.                                               *)
SegmentsEndEarly == ~Full(bytecode) /\ ~Full(constants) /\ ~Full(srcLoc)
OneConstantSegment == Len(constants) <= SEGMENT_SIZE
LabelsFitByte == nextLabel <= ByteSize
CountsFitByte ==
  \A i \in DOMAIN emitted : emitted[i].op = "DEF_FUNC" => Len(emitted[i].arg) < ByteSize
WithinLimits == /\ SegmentsEndEarly /\ OneConstantSegment /\ LabelsFitByte /\ CountsFitByte
                /\ Len(bytecode) < Word

(* Names that uniqueName has not given twice.                               *)
NamesDistinct ==
  /\ \A i, j \in DOMAIN tree : tree[i].arg = tree[j].arg => i = j
  /\ \A f \in DOMAIN tree : \A i, j \in LabelsIn(tree[f]) :
       tree[f].children[i].arg = tree[f].children[j].arg => i = j

(* A module reads back, from its first byte to its last, as the             *)
(* instructions that were emitted: segments put together, constants shared, *)
(* forward and backward jumps patched.  Making it does not fail, and it     *)
(* begins where the code of the module itself was put down.                 *)
ReadsBack ==
  WithinLimits => module # Crashed /\ (Made =>
    /\ \A i \in DOMAIN emitted : emitted[i].address = IF i = 1 THEN 0 ELSE End(emitted[i - 1])
    /\ Len(module.bytecode) = End(emitted[Len(emitted)])
    /\ \A i \in DOMAIN emitted : ReadsAs(i)
    /\ <<globalFuncs["$init"], module.entryIndex>> \in placed
    /\ module.srcLoc = srcLoc)

(* Where names are distinct no label is put down twice, in its function or  *)
(* in another: every jump has one target.                                   *)
PlacedOnce == NamesDistinct => \A p, q \in placed : p[1] = q[1] => p = q

-----------------------------------------------------------------------------
(* Where executeCode may raise an error, createErrorThing finds a source    *)
(* location, and locations are in the order of the bytecode.                *)
Raising == {"LOAD", "PUSH_BUILTIN", "CALL", "COND_JUMP_FALSE", "CHECK_NONE"}
ErrorsLocated ==
  Made /\ WithinLimits =>
    /\ \A i \in DOMAIN emitted :
         emitted[i].op \in Raising =>
           \E k \in DOMAIN module.srcLoc : module.srcLoc[k].index = emitted[i].address
    /\ \A j, k \in DOMAIN module.srcLoc : j < k => module.srcLoc[j].index <= module.srcLoc[k].index

-----------------------------------------------------------------------------
(* What the comments of codegen.cpp and codegen.h say without limits.       *)

(* compactSegments "copies them to a single array" (codegen.cpp:242-251).   *)
SegmentsCopied == Made => Garbage \notin {module.bytecode[i] : i \in DOMAIN module.bytecode}

(* internConstant "returns the index of the given string in the constant    *)
(* table" (codegen.cpp:76-81), however many segments the table has.         *)
ConstantsIndexed ==
  Made /\ SegmentsEndEarly =>
    \A i \in DOMAIN emitted : emitted[i].op \in ConstantOps => ReadsAs(i)

(* labelDefs "maps labels (ints) to bytecode positions (ints)"              *)
(* (codegen.h:54-55): a jump goes where its label is, however many there    *)
(* are.                                                                     *)
JumpsArrive ==
  Made /\ SegmentsEndEarly =>
    \A i \in DOMAIN emitted : emitted[i].op \in LabelOps => ReadsAs(i)
=============================================================================
