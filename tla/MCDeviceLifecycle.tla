-------------------------- MODULE MCDeviceLifecycle --------------------------
(* Instances of DeviceLifecycle for TLC.                                    *)
EXTENDS DeviceLifecycle, TLC

Symmetry ==
    Permutations(Devices) \cup Permutations(Pairers) \cup Permutations(Grants)
        \cup Permutations(Revokers) \cup Permutations(PhoneRevokers)
=============================================================================
