------------------------------ MODULE MCSubmission ------------------------------
(* Three GPU types, one of them on a small and a large instance; four regions, the    *)
(* first two without an image.                                                      *)
EXTENDS Submission

FourTypes == [a4 |-> [gpu |-> "A", gpus |-> 4, vcpus |-> 1],
               a8 |-> [gpu |-> "A", gpus |-> 8, vcpus |-> 2],
               b8 |-> [gpu |-> "B", gpus |-> 8, vcpus |-> 3],
               d8 |-> [gpu |-> "D", gpus |-> 8, vcpus |-> 3]]

FourRegions == 1 .. 4
LastTwo == {3, 4}

\* The regions without an image may have more quota than those that have one.
SomeQuotas ==
    LET first == [spot : {0, 4}, on_demand : {4}]
        second == [spot : {0, 3, 4}, on_demand : {0, 4}]
        little == [spot : {0, 3}, on_demand : {0, 3}]
    IN {[r \in 1 .. 4 |-> CASE r = 1 -> a [] r = 2 -> b [] r = 3 -> c [] r = 4 -> d] :
            a \in first, b \in second, c \in little, d \in little}

\* The second has too few nodes and the third does not fit the pool.
SomeSolutions ==
    {Config("a8", 8, 2, 2, "none"), Config("a4", 4, 2, 1, "none"), Config("b8", 8, 2, 2, "none")}

\* The context of type b8 is short; d8 is infeasible.
SomeContext == [a4 |-> 2, a8 |-> 2, b8 |-> 1, d8 |-> 0]
SomeAllowed == {"a8", "b8"}
SomeSupported == {"a4", "a8"}

User(gpu, tp, pp, planned, preferred, spot, chunked, alternatives) ==
    [solver |-> "user_specified", gpu |-> gpu, tp |-> tp, pp |-> pp, planned |-> planned,
     preferred |-> preferred, preferSpot |-> spot, chunked |-> chunked,
     alternatives |-> alternatives, need |-> 1, counts |-> TRUE, force |-> FALSE]

Alternative(gpu, tp, pp, planned) == [gpu |-> gpu, tp |-> tp, pp |-> pp, planned |-> planned]

SomeRequests ==
    {User("A", 4, 3, "none", "none", "spot", TRUE, <<Alternative("B", 4, 3, "none")>>),
     User("A", 2, 2, "spot", "on_demand", "spot", TRUE,
          <<Alternative("C", 1, 1, "none"), Alternative("A", 8, 1, "on_demand")>>),
     User("A", 8, 2, "none", "on_demand", "spot", TRUE, <<>>),
     [User("B", 8, 1, "none", "none", "none", TRUE, <<>>) EXCEPT !.need = 2, !.counts = FALSE],
     [User("B", 8, 1, "none", "none", "none", TRUE, <<>>) EXCEPT !.need = 2],
     [User("D", 8, 1, "spot", "none", "none", TRUE, <<>>) EXCEPT !.force = TRUE],
     User("D", 8, 1, "spot", "none", "none", TRUE, <<>>),
     User("C", 8, 1, "none", "none", "none", TRUE, <<>>),
     [User("A", 1, 1, "none", "none", "none", TRUE, <<>>) EXCEPT !.solver = "llm"],
     User("B", 2, 4, "none", "on_demand", "spot", FALSE, <<Alternative("A", 4, 2, "spot")>>),
     [User("A", 1, 1, "none", "spot", "on_demand", TRUE, <<>>) EXCEPT !.solver = "roofline"],
     [User("A", 1, 1, "none", "none", "on_demand", FALSE, <<>>) EXCEPT !.solver = "roofline"]}

SomeScales ==
    {[gpu |-> "none", tp |-> 0, pp |-> 0, planned |-> "none", on_demand |-> "none"],
     [gpu |-> "none", tp |-> 4, pp |-> 0, planned |-> "none", on_demand |-> "yes"],
     [gpu |-> "B", tp |-> 4, pp |-> 3, planned |-> "spot", on_demand |-> "yes"]}
================================================================================
