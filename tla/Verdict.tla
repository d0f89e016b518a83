------------------------------- MODULE Verdict -------------------------------
(***************************************************************************)
(* Judging an operation from what it left behind: src/core/verdict.py, the *)
(* text parser of ccninfo (src/core/ccninfo_parse.py), the log-only parser *)
(* (src/log/parser.py), the classification of stored records               *)
(* (tools/autotest/analyze.py) and the outcome of a monitor probe          *)
(* (src/runtime/monitoring.py).  Everything here is a function of its      *)
(* arguments; Judgment produces the arguments.                             *)
(*                                                                         *)
(* A Factor is "yes", "no" or "none" (unknown or not applicable).  An exit *)
(* code is "zero", "nonzero" or "none" (no process).  The log of cefput-,  *)
(* cefget-, cefpub- and cefsubfile is the set of the kinds of line it      *)
(* holds; the log of ccninfo is the sequence of its lines, because the     *)
(* parser depends on their order.                                          *)
(***************************************************************************)
EXTENDS Integers, Sequences, FiniteSets, SequencesExt

Factor == {"yes", "no", "none"}
Tri(b) == IF b THEN "yes" ELSE "no"

-----------------------------------------------------------------------------
(* Every detector returns the same record; artifact is the subscription    *)
(* whose file was found, 0 without one.                                    *)
Judged(success, completed, output, rc, artifact) ==
    [success |-> success, has_completed_log |-> completed, has_output_file |-> output,
     exit_code |-> rc, artifact |-> artifact]

(* What a log can say: the marker of a completed get, the marker of a      *)
(* delivered publication, the two failure sentences, the result fields of  *)
(* a put, and any other text.                                              *)
COMPLETED_MARKER == "completed"
PUB_DELIVERED_MARKER == "trigger"
FAILURE_PATTERNS == {"nothing", "ng"}
FIELD == "field"

from_runtime_get(rc, log, out) ==
    LET completed == COMPLETED_MARKER \in log
    IN  Judged(Tri(rc = "zero" /\ completed /\ out), Tri(completed), Tri(out), rc, 0)

from_runtime_put(rc) == Judged(Tri(rc = "zero"), "none", "none", rc, 0)

(* A subscriber that was terminated still succeeds once content is there.  *)
from_runtime_sub(rc, timed, cancelled, artifact) ==
    Judged(Tri(artifact # 0 /\ (rc = "zero" \/ timed \/ cancelled)),
           "none", Tri(artifact # 0), rc, artifact)

from_runtime_pub(rc, timed) == Judged(Tri(rc = "zero" /\ ~timed), "none", "none", rc, 0)

(* Success from the text alone: an empty log and a failure sentence are    *)
(* definitive failures, the marker of the operation a definitive success.  *)
from_log(kind, log, fields) ==
    CASE log = {} -> "no"
      [] log # {} /\ log \cap FAILURE_PATTERNS # {} -> "no"
      [] OTHER -> CASE kind = "get" -> Tri(COMPLETED_MARKER \in log)
                    [] kind = "put" -> Tri(fields)
                    [] kind = "pub" -> IF PUB_DELIVERED_MARKER \in log THEN "yes" ELSE "none"
                    [] OTHER        -> "none"

(* The parser of one log: a put has fields when any of its labels matched. *)
ParsedSuccess(kind, log) == from_log(kind, log, FIELD \in log)

(* The reasons a stored record gives, counted only for a failed record.    *)
failure_reasons(rec) ==
    {x \in {"exit_code_nonzero", "missing_completed_log", "missing_output_file"} :
        CASE x = "exit_code_nonzero"     -> rec.exit_code = "nonzero"
          [] x = "missing_completed_log" -> rec.has_completed_log = "no"
          [] x = "missing_output_file"   -> rec.has_output_file = "no"}

classify(rec) ==
    [ok |-> rec.success = "yes",
     reasons |-> IF rec.success = "yes" THEN {} ELSE failure_reasons(rec)]

-----------------------------------------------------------------------------
(* ccninfo.  A line is blank, a header, a recognised response or hop with  *)
(* the node and the shape of its time, or anything else (a response        *)
(* without a responder, a hop without an index).                           *)
Blank == [is |-> "blank", node |-> "", ms |-> ""]
RouteHeader == [is |-> "route", node |-> "", ms |-> ""]
CacheHeader == [is |-> "cache", node |-> "", ms |-> ""]
Response(n, ms) == [is |-> "response", node |-> n, ms |-> ms]
Hop(n, ms) == [is |-> "hop", node |-> n, ms |-> ms]
Unknown == [is |-> "unknown", node |-> "", ms |-> ""]

(* Only a finite number followed by "ms" is a time; a hop without one      *)
(* keeps its node, and a response without one is still a reply.            *)
parse_ms_value(ms) == IF ms = "number" THEN "number" ELSE "none"
split_response_rest(ms) == IF ms = "number" THEN "number" ELSE "none"

NoReply == [reply_received |-> FALSE, responder |-> "none", rtt |-> "none",
            route |-> <<>>, cache_lines |-> <<>>]

try_parse_route_line(line) ==
    IF line.is = "hop" THEN <<[node |-> line.node, delay |-> parse_ms_value(line.ms)]>>
    ELSE <<>>

(* One line in the mode the previous lines left.  A block ends at a blank  *)
(* line only; a response is recognised outside the blocks only, and the    *)
(* last one replaces the responder and its time together.                  *)
ParseLine_HeaderEndsBlock(line, st) ==
    LET r == st.reply
    IN  CASE line.is = "blank" -> [st EXCEPT !.mode = "default"]
          [] line.is \in {"route", "cache"} -> [st EXCEPT !.mode = line.is]
          [] line.is \notin {"blank", "route", "cache"} /\ st.mode = "route" ->
                 [st EXCEPT !.reply.route = @ \o try_parse_route_line(line)]
          [] line.is \notin {"blank", "route", "cache"} /\ st.mode = "cache" ->
                 [st EXCEPT !.reply.cache_lines = Append(@, line)]
          [] line.is = "response" /\ st.mode = "default" ->
                 [st EXCEPT !.reply = [r EXCEPT !.reply_received = TRUE,
                                                !.responder = line.node,
                                                !.rtt = split_response_rest(line.ms)]]
          [] OTHER -> st

ParseLine(line, st) ==
    CASE line.is = "blank" -> [st EXCEPT !.mode = "default"]
      [] line.is # "blank" /\ st.mode = "route" ->
             [st EXCEPT !.reply.route = @ \o try_parse_route_line(line)]
      [] line.is # "blank" /\ st.mode = "cache" ->
             [st EXCEPT !.reply.cache_lines = Append(@, line)]
      [] st.mode = "default" /\ line.is \in {"route", "cache"} -> [st EXCEPT !.mode = line.is]
      [] st.mode = "default" /\ line.is = "response" ->
             [st EXCEPT !.reply.reply_received = TRUE, !.reply.responder = line.node,
                        !.reply.rtt = split_response_rest(line.ms)]
      [] OTHER -> st

parse_ccninfo(text) ==
    FoldLeft(LAMBDA st, line : ParseLine(line, st),
             [mode |-> "default", reply |-> NoReply], text).reply

(* The greedy two-pointer scan: the state is how many expected hops have   *)
(* been found when the observed ones are read from the left.               *)
route_is_ordered_subsequence(expected, observed) ==
    FoldLeft(LAMBDA found, hop :
                 IF found < Len(expected) /\ expected[found + 1] = hop THEN found + 1 ELSE found,
             0, observed) = Len(expected)

(* An expectation is << >> when none is set, << value >> otherwise.        *)
from_runtime_ccninfo(rc, timed, cancelled, reply, wantResponder, wantRoute) ==
    LET nodes == [i \in DOMAIN reply.route |-> reply.route[i].node]
        responder == IF wantResponder = <<>> THEN "none"
                     ELSE Tri(reply.responder = wantResponder[1])
        route == IF wantRoute = <<>> THEN "none"
                 ELSE Tri(route_is_ordered_subsequence(wantRoute[1], nodes))
    IN  [success |-> Tri(rc = "zero" /\ ~timed /\ ~cancelled /\ reply.reply_received
                         /\ responder # "no" /\ route # "no"),
         responder_matched |-> responder, route_matched |-> route,
         exit_code |-> rc, timed_out |-> timed, cancelled |-> cancelled,
         reply_received |-> reply.reply_received]

ccninfo_failure_reasons(v) ==
    {x \in {"exit_code_nonzero", "timed_out", "cancelled", "no_reply",
            "responder_mismatch", "route_mismatch"} :
        CASE x = "exit_code_nonzero"  -> v.exit_code = "nonzero"
          [] x = "timed_out"          -> v.timed_out
          [] x = "cancelled"          -> v.cancelled
          [] x = "no_reply"           -> ~v.reply_received
          [] x = "responder_mismatch" -> v.responder_matched = "no"
          [] x = "route_mismatch"     -> v.route_matched = "no"}

-----------------------------------------------------------------------------
(* The outcome the monitor gives to a ccninfo probe: its own rule, kept    *)
(* beside from_runtime_ccninfo.                                            *)
ccninfo_outcome(rc, timed, cancelled, reply) ==
    IF reply.reply_received /\ ~timed /\ ~cancelled /\ rc = "zero" THEN "ok" ELSE "not-ok"

-----------------------------------------------------------------------------
(* References: what the parser and the scan are for, said without a state. *)

(* The lines before i in the same paragraph (no blank line in between).    *)
SameParagraph(text, i) ==
    {j \in 1..(i - 1) : \A k \in j..i : text[k].is # "blank"}

(* The block line i is in: the one its paragraph's first header opened.    *)
BlockOf(text, i) ==
    LET headers == {j \in SameParagraph(text, i) : text[j].is \in {"route", "cache"}}
    IN  IF headers = {} THEN "none"
        ELSE text[CHOOSE j \in headers : \A k \in headers : j <= k].is

(* The responses outside every block.                                      *)
Responses(text) == {i \in DOMAIN text : text[i].is = "response" /\ BlockOf(text, i) = "none"}

(* The hops of the route blocks, in the order they were printed.           *)
RouteNodes(text) ==
    LET hops == {i \in DOMAIN text : text[i].is = "hop" /\ BlockOf(text, i) = "route"}
    IN  [n \in 1..Cardinality(hops) |->
            text[CHOOSE i \in hops : Cardinality({j \in hops : j <= i}) = n].node]

(* Some increasing choice of positions reads the expected hops.            *)
IsSubsequence(expected, observed) ==
    \E f \in [DOMAIN expected -> DOMAIN observed] :
        /\ \A i \in DOMAIN expected : observed[f[i]] = expected[i]
        /\ \A i, j \in DOMAIN expected : i < j => f[i] < f[j]
==============================================================================
