------------------------------ MODULE MCPacker ------------------------------
(* A small instance of Packer for TLC.                                     *)
EXTENDS Packer

(* 0xaa, whose FCS ends with five ones, and 0xf0 0xff, where two zeros are *)
(* put into the second byte.                                               *)
MCFrames == {<< <<0, 1, 0, 1, 0, 1, 0, 1>> >>,
             << <<0, 0, 0, 0, 1, 1, 1, 1>>, <<1, 1, 1, 1, 1, 1, 1, 1>> >>}

(* All zeros, all ones, and a character like a start bit and a mark.       *)
MCChars == {<<0, 0, 0, 0, 0, 0, 0, 0>>, <<1, 1, 1, 1, 1, 1, 1, 1>>,
            <<0, 1, 1, 1, 1, 1, 1, 1>>}

=============================================================================
