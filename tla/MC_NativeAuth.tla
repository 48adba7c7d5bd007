---------------------------- MODULE MC_NativeAuth ----------------------------
(* An instance of NativeAuth for TLC.                                      *)
EXTENDS NativeAuth, TLC

(* Every property is a safety property, so interchangeable values may be   *)
(* permuted.                                                               *)
Symmetric ==
    Permutations(Users) \union Permutations(Passwords)
      \union Permutations(Requests) \union Permutations(Operators)
=============================================================================
