--------------------------- MODULE MCDaemonStart ----------------------------
(* The model-checking instance of DaemonStart. *)
EXTENDS DaemonStart, TLC

Symmetric == Permutations(Client) \cup Permutations(Daemon) \cup Permutations(Token)
=============================================================================
