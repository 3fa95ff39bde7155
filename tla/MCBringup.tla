------------------------------ MODULE MCBringup ------------------------------
EXTENDS Bringup
MCBytes == [stage |-> 2, ring |-> 4, segments |-> 5, aux |-> 6, cursor |-> 1]
MCInstalled == {12, 16, 26}
MCFirmware == {[command |-> "target", cntl |-> "disabled"], [command |-> "master", cntl |-> "disabled"]}
=============================================================================
