------------------------------- MODULE MCImages -------------------------------
(* Images with a surface of an odd size, and images of an even one too.    *)
EXTENDS Images, TLC

EvenAndOdd == {<<2, 2>>, <<3, 3>>}
OddSurface == {<<"s1", <<3, 3>>>>}
Symmetric == Permutations(BufferIDs) \cup Permutations(ImageIDs)
=============================================================================
