------------------------- MODULE MCOperatorScheduler ------------------------
(* decode (0, cpu) and tokenize (1, cpu) feed vision (2, gpu) and language     *)
(* (3, gpu), which feed the action expert (4, cpu): two operators compete for  *)
(* the one gpu worker, and the second of two cpu workers finds nothing to do.  *)
EXTENDS OperatorScheduler, TLC

MCNodes == 0..4
MCDependencies == 0 :> {} @@ 1 :> {} @@ 2 :> {0} @@ 3 :> {0, 1} @@ 4 :> {2, 3}
MCDevice == 0 :> "cpu" @@ 1 :> "cpu" @@ 2 :> "gpu" @@ 3 :> "gpu" @@ 4 :> "cpu"
MCPriority == 0 :> 1 @@ 1 :> 0 @@ 2 :> 0 @@ 3 :> 5 @@ 4 :> 1
MCLimits == "cpu" :> 2 @@ "gpu" :> 1
=============================================================================
