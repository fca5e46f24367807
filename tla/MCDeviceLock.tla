---------------------------- MODULE MCDeviceLock ----------------------------
(* Model-checking instances of DeviceLock: two threads, two devices.       *)
EXTENDS DeviceLock, TLC

CONSTANTS t1, t2, o1, o2

\* Every call except those the run leaves out.
AllBut(S) == AllCalls \ S

MCCalls == AllCalls
MCNoHandBack == AllBut({"unlock_lock_chain", "close_other"})
MCChainCalls == {"lock_chain", "unlock_chain", "command", "open", "client", "refresh", "close"}

Symmetry == Permutations(Threads) \cup Permutations(Opens)

=============================================================================
