------------------------------- MODULE X86Word -------------------------------
(***************************************************************************)
(* Machine words of sys_x86.c, represented by the set of their 1-bits.     *)
(*                                                                         *)
(* A uint64_t is a subset of 0..63 and a uint32_t a subset of 0..31: the   *)
(* C operators the translator and the init routines use are then set       *)
(* operators (x & m is x \cap m, x | m is x \cup m, x & ~m is x \ m), exact *)
(* for every value, and the bit masks of the source are written as the     *)
(* set of positions of their 1-bits, with the hex literal in a comment.    *)
(***************************************************************************)
EXTENDS Naturals

Word   == SUBSET (0..63)          \* uint64_t
Word32 == SUBSET (0..31)          \* uint32_t

\* (x & mask) != 0, the test of every "if (x & MASK)" of the source.
Test(x, mask) == x \cap mask # {}

\* "if (cond) x |= w": the bits w when cond holds, none otherwise.
SetIf(cond, w) == IF cond THEN w ELSE {}

\* x >> n for an unsigned word.
ShiftRight(x, n) == {b - n : b \in {c \in x : c >= n}}

\* (uint64_t)x << n, truncated to 64 bits.
ShiftLeft64(x, n) == {b + n : b \in {c \in x : c + n <= 63}}

\* The 32-bit halves that wrmsr/rdmsr move through EAX and EDX, and the
\* value rdmsr rebuilds as ((uint64_t)high << 32) | low (lines 62-72).
Low32(x)  == x \cap 0..31
High32(x) == ShiftRight(x, 32)
Join64(high, low) == ShiftLeft64(high, 32) \cup low

(* Page-table entry flags, sys_x86.c lines 35-43. *)
X86_MMU_PG_P  == {0}              \* 0x001 Present
X86_MMU_PG_RW == {1}              \* 0x002 Read/Write
X86_MMU_PG_U  == {2}              \* 0x004 User
X86_MMU_PG_WT == {3}              \* 0x008 Write-Through
X86_MMU_PG_CD == {4}              \* 0x010 Cache Disable
X86_MMU_PG_A  == {5}              \* 0x020 Accessed
X86_MMU_PG_D  == {6}              \* 0x040 Dirty
X86_MMU_PG_PS == {7}              \* 0x080 Page Size
X86_MMU_PG_G  == {8}              \* 0x100 Global

\* X86_PG_FRAME, 0x000ffffffffff000 (line 46).
X86_PG_FRAME == 12..51

\* X86_PAT_DEFAULT_VALUE, 0x0007010600070106 (line 103).
X86_PAT_DEFAULT_VALUE == {1, 2, 8, 16, 17, 18, 33, 34, 40, 48, 49, 50}
=============================================================================
