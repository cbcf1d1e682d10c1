-------------------------------- MODULE MCArm -------------------------------
(* Small instance of ArmLink for TLC.                                        *)
EXTENDS ArmLink

MCCommands == {"PUT_CUBE_SMART", "TAKE_CUBE_SMART", "SET_ARM_POSITION"}
=============================================================================
