------------------------------ MODULE StackLayout ------------------------------
(***************************************************************************)
(* Where a slot of a stack frame lies: next_aligned_offset of stack.c and  *)
(* the rounding of frame_size in codegen.c.  An offset from rbp is a       *)
(* negative number in the code and its absolute value here.                *)
(***************************************************************************)
EXTENDS Naturals

(* Mutant: the size of the slot itself is forgotten. *)
OffsetOnlyAligned(offset, size) == ((offset + size - 1) \div size) * size

NextAlignedOffset(offset, size) == ((offset + size + size - 1) \div size) * size

(* Mutant: the frame is not rounded to the alignment of the stack. *)
FrameUnrounded(deepest) == deepest

FrameRounded(deepest) == ((deepest + 15) \div 16) * 16

=============================================================================
