------------------------ MODULE MCProcurementBroker ------------------------
(* Small instances of ProcurementBroker.  Amounts are scaled down: the real *)
(* maxima are 10000, 10000, 11000, 2000 and 2000 atomic units.              *)
EXTENDS ProcurementBroker, TLC

CONSTANTS p1, p2, profile1, python1, t1, t2, t3

MCProduct == [r \in Requests |-> IF r = profile1 THEN "profile" ELSE "python"]
MCMaxAmount == [tavily |-> 2, blockrun |-> 2, create |-> 3, exec |-> 1, terminate |-> 1]

\* Symmetric sets of the safety runs.
Symmetry == Permutations(Payments) \cup Permutations(Tasks)

\* The unary sum is the sum of the amounts (reference: five rows added up).
ASSUME \A a, b \in 0..4 :
    Total(("x" :> a @@ "y" :> b @@ "z" :> 9), {"x", "y"}) = a + b
=============================================================================
