------------------------------ MODULE MCDeploy ------------------------------
(* The pair Sepolia and COTI for TLC.                                      *)
EXTENDS Deploy

S(name, chain, env) == [name |-> name, chain |-> chain, env |-> env]

MCScripts ==
  {S("inbox", "sepolia", {}), S("executor", CotiTestnet, {}),
   S("full", "sepolia", {}),
   S("oracle", "sepolia", {"INBOX_ADDRESS", "FACTORY_ADDRESS"}),
   S("oracle", "sepolia", {"USE_PLAIN_ORACLE"}),
   S("migrate", CotiTestnet, {"FACTORY_ADDRESS"})}

MCRacing ==
  {S("inbox", "sepolia", {}), S("migrate", CotiTestnet, {"FACTORY_ADDRESS"})}

Cheap == [FEE_CONFIG_COTI_SIDE EXCEPT !.constantFee = 12000000]
Wordy == [FEE_CONFIG_SEPOLIA_SIDE EXCEPT !.errorLength = 1024]
Tall  == [FEE_CONFIG_COTI_SIDE EXCEPT !.maxExecutionGas = 20000000]
Own   == [FEE_CONFIG_COTI_SIDE EXCEPT !.constantFee = 20000000]

Pair(local, remote) == {[local |-> local, remote |-> remote]}

\* Of no use, fine, below the floor, with long errors, and refused by the inbox.
MCFeeEntries ==
  {{}, Pair(Own, FEE_CONFIG_SEPOLIA_SIDE), Pair(FEE_CONFIG_SEPOLIA_SIDE, Cheap),
   Pair(Wordy, FEE_CONFIG_COTI_SIDE), Pair(FEE_CONFIG_SEPOLIA_SIDE, Tall)}

=============================================================================
