---------------------------- MODULE MCKeyedPool ----------------------------
(***************************************************************************)
(* Model checking of KeyedPool.  One key of the persistence pool (drains,  *)
(* no hook) next to one key of the delivery pool (does not drain, hook).   *)
(***************************************************************************)
EXTENDS KeyedPool

MCKey == {"persist", "delivery"}
MCWorker == MCKey \X {1, 2}
MCKeyOf == [w \in MCWorker |-> w[1]]
MCCaller == {"c1", "c2"}
MCMaxJobs == [c1 |-> 2, c2 |-> 1]
MCDrains == {"persist"}
MCHooked == {"delivery"}
=============================================================================
