------------------------------- MODULE MCDevices ------------------------------
(***************************************************************************)
(* Small instances of Devices: which devices there are.                    *)
(***************************************************************************)
EXTENDS Devices

ClockAndDisk == {<<"clock", 0>>, <<"disk", 0>>}

===============================================================================
