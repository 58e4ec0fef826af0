------------------------- MODULE MCPasswordRotation -------------------------
(* Two clients rotate the password of one switch; one password can be set in *)
(* the web UI only, and one fits nowhere.                                    *)
EXTENDS PasswordRotation

CONSTANTS first, second, wide, long

MCPassword == {first, second, wide, long}
MCSendable == {first, second, wide}
MCWritable == {first, second}
=============================================================================
