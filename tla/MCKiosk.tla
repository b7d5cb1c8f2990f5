------------------------------ MODULE MCKiosk ------------------------------
EXTENDS Kiosk, TLC
CONSTANTS ama, kofi, esi, tag1
MCDevices ==
  {[shell |-> "android", mode |-> "tag", hardware |-> TRUE, start |-> "check-in"],
   [shell |-> "android", mode |-> "tag", hardware |-> FALSE, start |-> "check-out"],
   [shell |-> "electron", mode |-> "tag", hardware |-> FALSE, start |-> "check-in"],
   [shell |-> "android", mode |-> "tag", hardware |-> FALSE, start |-> "front-desk"],
   [shell |-> "browser", mode |-> "tag", hardware |-> FALSE, start |-> "front-desk"],
   [shell |-> "browser", mode |-> "printed", hardware |-> FALSE, start |-> "checkpoint"]}
MCSymmetry == Permutations(Visits)
=============================================================================
