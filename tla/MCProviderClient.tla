-------------------------- MODULE MCProviderClient --------------------------
(* Constants of ProviderClient for TLC.  Processes are alike, and so are the *)
(* batches the allowlist covers.                                            *)
EXTENDS ProviderClient, TLC

(* The deployments that differ for the choice of a provider: no live calls   *)
(* with or without a key, and live calls over either transport.             *)
MCSettings ==
    {[live |-> FALSE, key |-> FALSE, sdk |-> TRUE],
     [live |-> FALSE, key |-> TRUE,  sdk |-> TRUE],
     [live |-> TRUE,  key |-> TRUE,  sdk |-> TRUE],
     [live |-> TRUE,  key |-> TRUE,  sdk |-> FALSE]}

LiveSettings == {s \in MCSettings : s.live}

Interchangeable == Permutations(Processes) \union Permutations(Listed)
=============================================================================
