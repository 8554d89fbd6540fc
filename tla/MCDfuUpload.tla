---------------------------- MODULE MCDfuUpload ----------------------------
(* Two sectors: the header fills the first and starts the second, where the *)
(* payload takes two blocks of two cells.                                    *)
EXTENDS DfuUpload

MCByte == {0, 1}

MCSizes == 0 .. 5

MCSectors == << [offset |-> 0, size |-> 2], [offset |-> 2, size |-> 6] >>
=============================================================================
