--------------------------- MODULE MCStagedUpdate ---------------------------
(* The header shares the first staged sector with the start of the payload; *)
(* the application slot has two sectors; one image needs padding.           *)
EXTENDS StagedUpdate

MCByte == {0, 1}

MCSizes == {0, 2, 3, 5}

MCStagedSectors == << [offset |-> 0, size |-> 6], [offset |-> 6, size |-> 2] >>

MCSlotSectors == << [offset |-> 0, size |-> 2], [offset |-> 2, size |-> 2] >>

MCSigned == { <<0, 1, 1>>, <<1, 0, 1>> }

MCFactory == { <<0, 1, 1>> }

MCPayloads == { <<1, 0, 1>> }
=============================================================================
