----------------------------- MODULE MCCampaign -----------------------------
(***************************************************************************)
(* Campaigns of two jobs under the supervisor: distinct jobs of both kinds  *)
(* in both orders, and one id used twice; and campaigns of one job, and of a *)
(* manifest with a malformed last entry, that are also started by hand.     *)
(***************************************************************************)
EXTENDS Campaign

MCJob(id, kind, complete) == [id |-> id, kind |-> kind, complete |-> complete]
MCCase(jobs, faulty, byHand) == [manifest |-> jobs, faults |-> faulty, hands |-> byHand]

A == MCJob("a", "disaster", TRUE)
B == MCJob("b", "linear", TRUE)

MCCases ==
    {MCCase(<<A, B>>, 2, 0), MCCase(<<B, A>>, 1, 0), MCCase(<<A, A>>, 1, 0),
     MCCase(<<A>>, 1, 1), MCCase(<<B>>, 1, 1),
     MCCase(<<A, MCJob("b", "disaster", FALSE)>>, 1, 1)}
=============================================================================
