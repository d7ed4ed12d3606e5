------------------------------- MODULE HwWord -------------------------------
(***************************************************************************)
(* The 32-bit words the two cores of the Pico exchange through the SIO     *)
(* FIFOs.  A word is a pair <<hi, lo>> of 16-bit halves, so that every     *)
(* field the C code extracts by shift and mask is an arithmetic expression *)
(* on integers TLC can represent.                                          *)
(*                                                                         *)
(*   bits 31..30   operation     (ConfigOpType, config.h)                  *)
(*   bits 28..24   control type  (low five bits; 0x20 is put back)         *)
(*   bits 23..8    element id    (source id in a control action)           *)
(*   bits  7..0    value, or GPIO number                                   *)
(***************************************************************************)
EXTENDS Integers

Byte == 0..255
MaxHalf == 65535
Half == 0..MaxHalf
Word == Half \X Half

\* ConfigOpType and PayloadType.
ActionOp == 1
SetupOp  == 2
CleanOp  == 3
LED == 32
GPO == 33

\* The word core 0 builds for a set-up or control message.
OpWord(op, ty, id, val) ==
    <<op * 16384 + (ty % 32) * 256 + id \div 256, (id % 256) * 256 + val>>

\* The second word of a set-up: the source element id in the upper half.
RefWord(src) == <<src, 0>>

\* What core 1 reads back.  The source id is filled in later, by decode_hwrf.
decode_hwel(w) ==
    [operation    |-> w[1] \div 16384,
     control_type |-> ((w[1] \div 256) % 32) + 32,
     id           |-> (w[1] % 256) * 256 + w[2] \div 256,
     value        |-> w[2] % 256]

\* Mutant: the source id is read from the lower half.
decode_hwrf_Low(w) == w[2]

decode_hwrf(w) == w[1]
=============================================================================
