---------------------------- MODULE MCFileWriter ----------------------------
(* Five bytes in pieces of three: the second piece is short.                  *)
EXTENDS FileWriter

\* Every way to cut five bytes into at most three files, empty ones included.
AllLayouts == {l \in BoundedSeq(0 .. TotalLength, 3) :
                 FoldFunction(+, 0, l) = TotalLength}
=============================================================================
