----------------------------- MODULE MCDownload -----------------------------
(* Five bytes in pieces of two, over files of three, none and two bytes: the  *)
(* second piece spans two files and the last piece is short.                  *)
EXTENDS Download

CONSTANTS s1, s2

SpanningLayout == {<<3, 0, 2>>}
=============================================================================
