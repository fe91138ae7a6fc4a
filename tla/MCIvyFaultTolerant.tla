------------------------- MODULE MCIvyFaultTolerant -------------------------
EXTENDS IvyFaultTolerant

MCNodes == 1..3
MCCMs == {-1, -2}

Round(S, op) == [n \in MCNodes |-> IF n \in S THEN op ELSE "none"]

\* First writes at the same time; one operation at a time, with a second read and a write by
\* a node that has a copy while another one has one, too; a second write by the owner.
MCWorkloads ==
    {<<Round({1, 2}, "write")>>,
     <<Round({1}, "write"), Round({2}, "read"), Round({3}, "read"), Round({3}, "write")>>,
     <<Round({1}, "write"), Round({2}, "read"), Round({1}, "write")>>}
=============================================================================
