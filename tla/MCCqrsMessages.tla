--------------------------- MODULE MCCqrsMessages ---------------------------
(* An instance of CqrsMessages for TLC.                                    *)
EXTENDS CqrsMessages

CONSTANTS a, b

(* 0, the first number of two bytes, and the largest of each width.        *)
MCUInt32s == {<<>>, <<0, 1>>, <<127, 127, 127, 127, 15>>}
MCUInt64s == {<<>>, <<0, 1>>, <<127, 127, 127, 127, 127, 127, 127, 127, 127, 1>>}

(* "", a letter of one byte and one of two, and one that is cut.           *)
MCStrings == {<<>>, <<65, 195, 169>>, <<195>>}

Symmetry == Permutations({a, b})
=============================================================================
