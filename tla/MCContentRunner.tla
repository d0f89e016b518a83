-------------------------- MODULE MCContentRunner --------------------------
(* Instances of ContentRunner for TLC. *)
EXTENDS ContentRunner

Operation(kind, uri) == [kind |-> kind, uri |-> uri]

\* Two subscribers and the publication of one URI, a download and a ccninfo
\* query.
MCScript == << Operation("sub", 1), Operation("sub", 1), Operation("pub", 1),
               Operation("get", 1), Operation("ccninfo", 1) >>
=============================================================================
