----------------------------- MODULE MCJudgment ------------------------------
(***************************************************************************)
(* Small instances of Judgment.  Scripts of up to three operations: the    *)
(* same get twice; a prefetch before a get; two subscriptions, of one URI, *)
(* of two URIs with one label, and around a publication; compute calls,    *)
(* alone and beside a get; and single ccninfo queries with and without     *)
(* expectations, over every text of up to three lines and some longer      *)
(* ones.                                                                   *)
(***************************************************************************)
EXTENDS Judgment

Op(kind, host, uri, label) ==
    [kind |-> kind, phase |-> "eval", host |-> host, uri |-> uri, label |-> label,
     responder |-> <<>>, route |-> <<>>]

(* "a/b" and "a_b" have the label a_b.                                      *)
Get == Op("get", 1, "a/b", "a_b")
Prefetch == [Get EXCEPT !.phase = "warmup"]
GetTwin == Op("get", 1, "a_b", "a_b")
Sub == Op("sub", 1, "a/b", "a_b")
SubTwin == Op("sub", 1, "a_b", "a_b")
Pub == Op("pub", 2, "a/b", "a_b")
Put == Op("put", 2, "a/b", "a_b")
Call == Op("compute", 1, "a/b", "out")
CallOnly == Op("compute", 1, "", "out")

Asks(responder, route) ==
    [Op("ccninfo", 1, "a/b", "a_b") EXCEPT !.responder = responder, !.route = route]

MCScripts ==
    {<<Put, Get, GetTwin>>, <<Prefetch, Get>>, <<Sub, Sub>>, <<Sub, SubTwin>>, <<Sub, Pub, Sub>>,
     <<Call, Call>>, <<CallOnly, Get>>,
     <<Asks(<<>>, <<>>)>>, <<Asks(<<"h1">>, <<>>)>>, <<Asks(<<>>, << <<"h1", "h2">> >>)>>,
     <<Asks(<<"h2">>, << <<"h1", "h1">> >>)>>}

Lines == {Blank, RouteHeader, CacheHeader, Response("h1", "number"), Response("h2", "nan"),
          Hop("h1", "number"), Hop("h2", "cut"), Unknown}

(* A whole reply around any two lines, and any three lines.                *)
MCTexts ==
    UNION {[1..n -> Lines] : n \in 0..3}
    \union {<<Response("h1", "number"), Blank, RouteHeader, a, Hop("h1", "number"), b,
              Hop("h2", "number")>> : a, b \in Lines}
==============================================================================
