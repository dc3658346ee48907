--------------------------- MODULE ProviderSandboxMC ---------------------------
(***************************************************************************)
(* An instance of ProviderSandbox: a profile that protects what it may     *)
(* write from removal, and a later one that reads where that wrote.        *)
(***************************************************************************)
EXTENDS ProviderSandbox, TLC

TwoProfiles ==
  << [include |-> {"unlink_protection", "codex_macos", "newer"}, allow |-> {"caches"},
      read |-> {"node"}, workdir |-> "readwrite"],
     [include |-> {"unlink_protection", "node_runtime"}, allow |-> {"provider"},
      read |-> {}, workdir |-> "read"] >>

SymmetricRuns == Permutations(Runs)
================================================================================
