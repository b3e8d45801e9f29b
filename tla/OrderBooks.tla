------------------------------ MODULE OrderBooks ------------------------------
(***************************************************************************)
(* The programs around an order book that is indexed twice: phase_5's with *)
(* OrderBook or with PooledOrderBook, and hw_5's.  A behaviour is one of   *)
(* them; the books do not interact.                                        *)
(***************************************************************************)
EXTENDS LevelBook, PooledBook, HybridBook

VARIABLE program    \* the one that runs
vars == <<program, levelVars, poolVars, hybridVars>>

Init ==
  /\ program \in {"OrderBook", "PooledOrderBook", "hw_5"}
  /\ LevelInit
  /\ PoolInit
  /\ HybridInit

RunLevel == program = "OrderBook" /\ LevelNext /\ UNCHANGED <<program, poolVars, hybridVars>>
RunPool == program = "PooledOrderBook" /\ PoolNext /\ UNCHANGED <<program, levelVars, hybridVars>>
RunHybrid == program = "hw_5" /\ HybridNext /\ UNCHANGED <<program, levelVars, poolVars>>

Next == RunLevel \/ RunPool \/ RunHybrid

Spec == Init /\ [][Next]_vars
=============================================================================
