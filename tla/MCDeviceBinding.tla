---------------------------- MODULE MCDeviceBinding ----------------------------
(* DeviceBinding on one computer: the processes, ids and keys are given by   *)
(* the configurations.                                                       *)
EXTENDS DeviceBinding, TLC

\* Ids and keys are made fresh, and processes and slots are alike.
Symmetry == Permutations(Process) \cup Permutations(Id) \cup Permutations(Key)
              \cup Permutations(Slot)
================================================================================
