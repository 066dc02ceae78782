------------------------------ MODULE MCDumbVM ------------------------------
(***************************************************************************)
(* DumbVM for TLC: pages of two bytes, a word of 32 pages, memory of seven *)
(* pages of which the kernel has one, and programs for every way through   *)
(* as_define_region.                                                       *)
(***************************************************************************)
EXTENDS DumbVM, TLC

At(v, s) == [vaddr |-> v, sz |-> s]

\* A segment of one page, and one that is not page-aligned and takes two.
Plain == <<At(2, 2), At(5, 2)>>
\* One segment: the second region is never set up.
Single == <<At(2, 6)>>
\* The first segment starts in page 0 and is overwritten by the second.
AtZero == <<At(1, 2), At(2, 2), At(6, 2)>>
\* A third region is not available: EUNIMP.
Many == <<At(2, 2), At(4, 2), At(6, 2)>>
\* A segment nearly as large as the word: the request for it wraps.
Huge == <<At(2, 62), At(4, 2)>>

MCImage == {Plain, Single, AtZero, Many, Huge}
\* Nothing is promised of a system whose allocator has wrapped around: what it
\* does after that is not followed.
BeforeWrap == ~wrapped

MCSymmetry == Permutations(Thread \ {boot})
=============================================================================
