------------------------------ MODULE Judgment -------------------------------
(***************************************************************************)
(* From a command to a number in a summary: processes are started with a   *)
(* log and an output place, write, exit or are terminated                  *)
(* (src/runtime/command_runner.py, cefore.py, compute_client.py); their    *)
(* evidence is read back (result_detect.py), judged (module Verdict) and   *)
(* recorded (results_sink.py); the dashboard follows the records           *)
(* (src/webui/state.py); the CSV summary joins the logs that survive with  *)
(* the records (src/log/summarizer.py), and the analysis counts them       *)
(* (tools/autotest/analyze.py).                                            *)
(*                                                                         *)
(* Three threads judge: the content worker, the main thread, which settles *)
(* the subscriptions nobody waited for, and the scheduler, which makes the *)
(* compute calls.  Operations on one host under one URI label share their  *)
(* log file and their output place, and subscriptions run side by side:    *)
(* the evidence one operation is judged by may be another's.               *)
(***************************************************************************)
EXTENDS Verdict, FiniteSetsExt, Functions

CONSTANTS Scripts,        \* the sequences of operations to consider
          Texts,          \* what a ccninfo process may print, as line sequences
          MAX_OPERATIONS, \* how many operations the dashboard keeps
          MAX_HISTORY     \* how many points its success history keeps

Kinds == {"get", "put", "sub", "pub", "ccninfo", "compute"}
ASSUME ScriptsAssumption ==
    \A s \in Scripts : /\ Len(s) \in Nat /\ DOMAIN s = 1..Len(s)
                       /\ \A i \in DOMAIN s : s[i].kind \in Kinds
ASSUME BoundsAssumption == MAX_OPERATIONS \in Nat \ {0} /\ MAX_HISTORY \in Nat \ {0}

VARIABLES
  script,     \* the operations of this behaviour, in the order they are dispatched
  begun,      \* those that were dispatched
  proc,       \* the process of each
  log,        \* log file -> who opened it last and what it holds
  outs,       \* the output files of cefgetfile that are not empty
  arts,       \* the RNP0x*.out files of cefsubfile
  resp,       \* compute output file -> the call whose body it holds, and its status
  pending,    \* subscriptions waiting for a publication
  act,        \* thread -> what it does, for which operation, and what comes after
  result,     \* the flags CommandRunner.wait returned for each operation
  cancel,     \* the cancel event
  recs,       \* ResultsSink._records
  dash,       \* the dashboard's operations and success history
  published,  \* what compute calls published: whose body
  seen,       \* ghost: whose content arrived in its directory since it was emptied for it
  emptied,    \* subscriptions that have emptied their directory
  lost        \* ghost: subscriptions whose content was removed or went to a removed file

judgeVars == <<script, begun, proc, log, outs, arts, resp, pending, act, result, cancel,
               recs, dash, published, seen, lost, emptied>>

Threads == {"worker", "main", "sched"}
Ops == DOMAIN script
Kind(o) == script[o].kind
Names == UNION {{<<s[i].kind, s[i].phase, s[i].host, s[i].label>> : i \in DOMAIN s} : s \in Scripts}

(* The log file of an operation, and the place its output goes to: both are *)
(* named by the phase and the label of the URI, not by the URI.  The        *)
(* prefetches of autotest are gets of the phase "warmup": another runner    *)
(* makes them, into the same sink, before the first of the others is taken. *)
content_log_name(o) == <<Kind(o), script[o].phase, script[o].host, script[o].label>>
OutputOf(o) == <<script[o].phase, script[o].host, script[o].label>>

NoProc == [st |-> "none", rc |-> "none", got |-> FALSE, done |-> FALSE, status |-> "none"]
Idle == [ph |-> "idle", op |-> 0, rest |-> {}]
EmptyLog(o) == [by |-> o, lines |-> {}, text |-> <<>>]

JudgeInit ==
    /\ script \in Scripts
    /\ begun = {}
    /\ proc = [o \in Ops |-> NoProc]
    /\ log = [f \in Names |-> EmptyLog(0)]
    /\ outs = {} /\ arts = {} /\ pending = {} /\ recs = <<>> /\ published = {}
    /\ lost = {} /\ emptied = {}
    /\ resp = [o \in {OutputOf(p) : p \in Ops} |-> [by |-> 0, ok |-> FALSE]]
    /\ act = [t \in Threads |-> Idle]
    /\ result = [o \in Ops |-> [timed |-> FALSE, cancelled |-> FALSE]]
    /\ cancel = FALSE
    /\ dash = [ops |-> <<>>, hist |-> <<>>]
    /\ seen = [o \in Ops |-> {}]

-----------------------------------------------------------------------------
(* Starting a command.  The log is opened for writing, and so emptied,     *)
(* before the process exists; a spawn that fails leaves it empty.          *)
Opened(o) == [log EXCEPT ![content_log_name(o)] = EmptyLog(o)]
Running(o) == [proc EXCEPT ![o].st = "run"]
Next1(kinds) ==
    {o \in Ops \ begun : Kind(o) \in kinds /\ \A p \in Ops \ begun : Kind(p) \in kinds => o <= p}

ContentKinds == {"get", "put", "sub", "pub", "ccninfo"}

Turns(t, ph, o, rest) == [act EXCEPT ![t] = [ph |-> ph, op |-> o, rest |-> rest]]
Waits(t, o, rest) == Turns(t, "poll", o, rest)

(* The worker takes the next operation unless it was cancelled; it may be  *)
(* cancelled between that and the start.                                   *)
Take(o) ==
    /\ act["worker"].ph = "idle" /\ ~cancel
    /\ o \in Next1(ContentKinds)
    /\ begun' = begun \union {o}
    /\ act' = Turns("worker", "taken", o, {})
    /\ UNCHANGED <<script, proc, log, outs, arts, resp, pending, result, cancel, recs, dash,
                   published, seen, lost, emptied>>

Taken(o, kinds) == act["worker"].ph = "taken" /\ act["worker"].op = o /\ Kind(o) \in kinds

(* The commands: argv, a log and a process.  An output file an earlier get *)
(* left may or may not be emptied by the process that reopens it.          *)
run_cefputfile(o) == log' = Opened(o) /\ proc' = Running(o) /\ outs' = outs
run_cefgetfile(o) ==
    log' = Opened(o) /\ proc' = Running(o) /\ outs' \in {outs, outs \ {OutputOf(o)}}
run_ccninfo(o) == log' = Opened(o) /\ proc' = Running(o) /\ outs' = outs
start_cefsubfile(o) == log' = Opened(o) /\ proc' = Running(o)
run_cefpubfile(o) == log' = Opened(o) /\ proc' = Running(o)

(* put, get and ccninfo: run and wait.                                     *)
RunStart(o) ==
    /\ Taken(o, {"get", "put", "ccninfo"})
    /\ \/ Kind(o) = "put" /\ run_cefputfile(o)
       \/ Kind(o) = "get" /\ run_cefgetfile(o)
       \/ Kind(o) = "ccninfo" /\ run_ccninfo(o)
    /\ act' = Waits("worker", o, {})
    /\ UNCHANGED <<script, begun, arts, resp, pending, result, cancel, recs, dash, published, seen,
                   lost, emptied>>

(* A spawn that raises leaves no record of a put or get; a ccninfo is      *)
(* judged all the same, as a failure without a reply.                      *)
RunRaises(o) ==
    /\ Taken(o, {"get", "put", "ccninfo"})
    /\ log' = Opened(o)
    /\ act' = IF Kind(o) = "ccninfo" THEN Turns("worker", "judge", o, {})
              ELSE [act EXCEPT !["worker"] = Idle]
    /\ UNCHANGED <<script, begun, proc, outs, arts, resp, pending, result, cancel, recs, dash,
                   published, seen, lost, emptied>>

InDir(o) == {a \in arts : a.dir = OutputOf(o)}

(* A subscription removes what its directory holds,                       *)
SubClears_Nothing(o) ==
    /\ Taken(o, {"sub"}) /\ o \notin emptied
    /\ emptied' = emptied \union {o}
    /\ UNCHANGED <<script, begun, proc, log, outs, arts, resp, pending, act, result, cancel, recs,
                   dash, published, seen, lost>>

SubClears(o) ==
    /\ Taken(o, {"sub"}) /\ o \notin emptied
    /\ arts' = arts \ InDir(o)
    /\ lost' = lost \union {a.by : a \in InDir(o)}
    /\ emptied' = emptied \union {o}
    /\ UNCHANGED <<script, begun, proc, log, outs, resp, pending, act, result, cancel, recs, dash,
                   published, seen>>

(* ... starts its process, or the start raises,                           *)
SubSpawns(o) ==
    /\ Taken(o, {"sub"}) /\ o \in emptied
    /\ \/ start_cefsubfile(o) /\ act' = Turns("worker", "spawned", o, {})
       \/ log' = Opened(o) /\ proc' = proc /\ act' = [act EXCEPT !["worker"] = Idle]
    /\ UNCHANGED <<script, begun, outs, arts, resp, pending, result, cancel, recs, dash, published,
                   seen, lost, emptied>>

(* ... and waits for a publication.  Subscriptions of the same directory  *)
(* that still run may create and write their files between these steps.   *)
SubPends ==
    /\ act["worker"].ph = "spawned"
    /\ pending' = pending \union {act["worker"].op}
    /\ act' = [act EXCEPT !["worker"] = Idle]
    /\ UNCHANGED <<script, begun, proc, log, outs, arts, resp, result, cancel, recs, dash,
                   published, seen, lost, emptied>>

(* The subscriptions of a URI are listed in the order of their dispatch,   *)
(* which is that of their numbers, and the URIs in the order of the first  *)
(* subscription each has: sets say as much.                                *)
SubsOf(o) == {p \in pending : script[p].uri = script[o].uri}
Following(o, rest) ==
    LET same == {p \in rest : script[p].uri = script[o].uri}
    IN  Min(IF same = {} THEN rest ELSE same)

(* A publication waits out the startup grace, takes the pending            *)
(* subscriptions of its URI and starts; or the start raises, and the       *)
(* subscriptions it took belong to nobody.                                 *)
PubStart ==
    LET o == act["worker"].op
    IN  /\ Taken(o, {"pub"})
        /\ pending' = pending \ SubsOf(o)
        /\ \/ run_cefpubfile(o) /\ act' = Waits("worker", o, SubsOf(o))
           \/ log' = Opened(o) /\ proc' = proc /\ act' = [act EXCEPT !["worker"] = Idle]
        /\ UNCHANGED <<script, begun, outs, arts, resp, result, cancel, recs, dash, published,
                       seen, lost, emptied>>

(* ... or the grace is cancelled.                                          *)
PubCancelled ==
    /\ Taken(act["worker"].op, {"pub"}) /\ cancel
    /\ act' = [act EXCEPT !["worker"] = Idle]
    /\ UNCHANGED <<script, begun, proc, log, outs, arts, resp, pending, result, cancel, recs,
                   dash, published, seen, lost, emptied>>

(* A compute call: curl, run by the scheduler's thread.                    *)
ComputeStart(o) ==
    /\ act["sched"].ph = "idle" /\ o \in Next1({"compute"})
    /\ begun' = begun \union {o}
    /\ proc' = Running(o)
    /\ act' = Waits("sched", o, {})
    /\ UNCHANGED <<script, log, outs, arts, resp, pending, result, cancel, recs, dash,
                   published, seen, lost, emptied>>

-----------------------------------------------------------------------------
(* What the processes do.                                                  *)
IsRunning(p, kind) == proc[p].st = "run" /\ Kind(p) = kind

(* cefgetfile writes what it receives, and has the marker to print once    *)
(* every chunk is there.                                                   *)
GetReceives(p) ==
    /\ IsRunning(p, "get") /\ ~proc[p].got
    /\ outs' = outs \union {OutputOf(p)}
    /\ proc' = [proc EXCEPT ![p].got = TRUE]
    /\ UNCHANGED <<script, begun, log, arts, resp, pending, act, result, cancel, recs, dash,
                   published, seen, lost, emptied>>

GetCompletes(p) ==
    /\ IsRunning(p, "get") /\ proc[p].got /\ ~proc[p].done
    /\ proc' = [proc EXCEPT ![p].done = TRUE]
    /\ UNCHANGED <<script, begun, log, outs, arts, resp, pending, act, result, cancel, recs,
                   dash, published, seen, lost, emptied>>

(* cefsubfile creates its file and later writes the content into it; the   *)
(* write is lost when the file was removed in between.                     *)
SubCreates(p) ==
    /\ IsRunning(p, "sub") /\ ~proc[p].got
    /\ arts' = arts \union {[dir |-> OutputOf(p), by |-> p, full |-> FALSE]}
    /\ proc' = [proc EXCEPT ![p].got = TRUE]
    /\ UNCHANGED <<script, begun, log, outs, resp, pending, act, result, cancel, recs, dash,
                   published, seen, lost, emptied>>

SubWrites(p) ==
    /\ IsRunning(p, "sub") /\ proc[p].got /\ ~proc[p].done
    /\ proc' = [proc EXCEPT ![p].done = TRUE]
    /\ arts' = {IF a.by = p THEN [a EXCEPT !.full = TRUE] ELSE a : a \in arts}
    /\ seen' = [o \in Ops |->
                   IF o \in emptied /\ OutputOf(o) = OutputOf(p) /\ p \notin lost
                   THEN seen[o] \union {p} ELSE seen[o]]
    /\ UNCHANGED <<script, begun, log, outs, resp, pending, act, result, cancel, recs, dash,
                   published, lost, emptied>>

(* What a process prints besides the marker of a completed get.            *)
Chatter(kind) ==
    CASE kind = "get" -> {{}, {"other"}, {"nothing"}, {"other", "ng"}}
      [] kind = "put" -> {{}, {"other"}, {"other", FIELD}}
      [] kind = "pub" -> {{}, {"other", PUB_DELIVERED_MARKER}}
      [] OTHER        -> {{"other"}}
Marker(p) == IF Kind(p) = "get" /\ proc[p].done THEN {COMPLETED_MARKER} ELSE {}

(* The log once p is gone: everything it printed, or, when it is killed or *)
(* when a later operation has emptied the file, perhaps none of it.        *)
LogAfter(p, killed) ==
    LET f == content_log_name(p)
        whole == IF Kind(p) = "ccninfo"
                 THEN {[log[f] EXCEPT !.text = t] : t \in
                          IF killed THEN UNION {Prefixes(x) : x \in Texts} ELSE Texts}
                 ELSE {[log[f] EXCEPT !.lines = @ \union Marker(p) \union c] : c \in Chatter(Kind(p))}
    IN  {[log EXCEPT ![f] = l] :
            l \in whole \union (IF killed \/ log[f].by # p THEN {log[f]} ELSE {})}

(* A process ends by itself, with any exit code.                           *)
Exits(p) ==
    /\ proc[p].st = "run" /\ Kind(p) # "compute"
    /\ \E rc \in {"zero", "nonzero"} : proc' = [proc EXCEPT ![p].st = "exited", ![p].rc = rc]
    /\ log' \in LogAfter(p, FALSE)
    /\ UNCHANGED <<script, begun, outs, arts, resp, pending, act, result, cancel, recs, dash,
                   published, seen, lost, emptied>>

(* curl ends: with an answer, whose body replaces the output file, or      *)
(* without one (the endpoint out of reach, or another failure).            *)
CurlExits(p) ==
    /\ IsRunning(p, "compute")
    /\ \E st \in {"2xx", "other", "unreachable", "failed"} :
         /\ proc' = [proc EXCEPT ![p].st = "exited", ![p].status = st,
                        ![p].rc = IF st \in {"2xx", "other"} THEN "zero" ELSE "nonzero"]
         /\ resp' = IF st \in {"2xx", "other"}
                    THEN [resp EXCEPT ![OutputOf(p)] = [by |-> p, ok |-> st = "2xx"]] ELSE resp
    /\ UNCHANGED <<script, begun, log, outs, arts, pending, act, result, cancel, recs, dash,
                   published, seen, lost, emptied>>

-----------------------------------------------------------------------------
(* Waiting.  A natural exit is observed first; then cancellation, then the *)
(* deadline.  The process may still end by itself between being seen       *)
(* running and being terminated.                                           *)
HasDeadline(o) == Kind(o) \in {"ccninfo", "sub", "pub", "compute"}
Cancellable(o) == Kind(o) # "compute"

WaitEnds(t) ==
    /\ act[t].ph = "poll" /\ proc[act[t].op].st # "run"
    /\ act' = [act EXCEPT ![t].ph = "judge"]
    /\ UNCHANGED <<script, begun, proc, log, outs, arts, resp, pending, result, cancel, recs,
                   dash, published, seen, lost, emptied>>

SeesRunning(t) ==
    LET o == act[t].op
    IN  /\ act[t].ph = "poll" /\ proc[o].st = "run"
        /\ HasDeadline(o) \/ (Cancellable(o) /\ cancel)
        /\ act' = [act EXCEPT ![t].ph = "check"]
        /\ UNCHANGED <<script, begun, proc, log, outs, arts, resp, pending, result, cancel, recs,
                       dash, published, seen, lost, emptied>>

(* _terminate_proc: SIGTERM, which the process may answer with any exit    *)
(* code, then SIGKILL; nothing happens to a process that is gone.          *)
Terminated(o) ==
    IF proc[o].st # "run" THEN proc' = proc /\ log' = log
    ELSE /\ \E rc \in {"zero", "nonzero"} : proc' = [proc EXCEPT ![o].st = "killed", ![o].rc = rc]
         /\ log' \in IF Kind(o) = "compute" THEN {log} ELSE LogAfter(o, TRUE)

Interrupts(t) ==
    LET o == act[t].op
    IN  /\ act[t].ph = "check" /\ Cancellable(o)
        /\ \/ cancel /\ result' = [result EXCEPT ![o].cancelled = TRUE]
           \/ HasDeadline(o) /\ result' = [result EXCEPT ![o].timed = TRUE]
        /\ Terminated(o)
        /\ act' = [act EXCEPT ![t].ph = "judge"]
        /\ UNCHANGED <<script, begun, outs, arts, resp, pending, cancel, recs, dash, published,
                       seen, lost, emptied>>

(* The captured run of a compute call has a deadline and no cancellation.  *)
CaptureTimesOut ==
    LET o == act["sched"].op
    IN  /\ act["sched"].ph = "check"
        /\ result' = [result EXCEPT ![o].timed = TRUE]
        /\ Terminated(o)
        /\ act' = [act EXCEPT !["sched"].ph = "judge"]
        /\ UNCHANGED <<script, begun, outs, arts, resp, pending, cancel, recs, dash, published,
                       seen, lost, emptied>>

-----------------------------------------------------------------------------
(* Judging.  Each detector reads the evidence as it is now.                *)
detect_get_success(o) ==
    from_runtime_get(proc[o].rc, log[content_log_name(o)].lines, OutputOf(o) \in outs)

(* glob("RNP0x*.out"): the first file that is not empty, by a name nobody  *)
(* can predict.                                                            *)
detect_sub_success(o) ==
    LET full == {a.by : a \in {b \in InDir(o) : b.full}}
    IN  {from_runtime_sub(proc[o].rc, result[o].timed, result[o].cancelled, a) :
            a \in IF full = {} THEN {0} ELSE full}

detect_pub_success(o) == from_runtime_pub(proc[o].rc, result[o].timed \/ result[o].cancelled)

detect_ccninfo_success(o) ==
    LET reply == IF proc[o].st = "none" THEN NoReply
                 ELSE parse_ccninfo(log[content_log_name(o)].text)
    IN  from_runtime_ccninfo(proc[o].rc, result[o].timed, result[o].cancelled, reply,
                             script[o].responder, script[o].route)

VerdictsOf(o) ==
    CASE Kind(o) = "get"     -> {detect_get_success(o)}
      [] Kind(o) = "put"     -> {from_runtime_put(proc[o].rc)}
      [] Kind(o) = "pub"     -> {detect_pub_success(o)}
      [] Kind(o) = "sub"     -> detect_sub_success(o)
      [] Kind(o) = "ccninfo" -> {detect_ccninfo_success(o)}

(* ResultsSink: the record is appended under the lock; the subscribers are *)
(* called after the lock is released.                                      *)
Recorded(t, v) ==
    /\ recs' = Append(recs, [op |-> act[t].op, kind |-> Kind(act[t].op), v |-> v])
    /\ act' = [act EXCEPT ![t].ph = "notify"]

Judge(t) ==
    /\ act[t].ph = "judge" /\ Kind(act[t].op) # "compute"
    /\ \E v \in VerdictsOf(act[t].op) : Recorded(t, v)
    /\ UNCHANGED <<script, begun, proc, log, outs, arts, resp, pending, result, cancel, dash,
                   published, seen, lost, emptied>>

(* compute_call: unreachable or interrupted is skipped; anything but a 2xx *)
(* answer fails; a 2xx answer whose publication was requested goes on.     *)
EnvFailure(o) == result[o].timed \/ proc[o].status = "unreachable"
HttpOk(o) == ~result[o].timed /\ proc[o].rc = "zero" /\ proc[o].status = "2xx"
Outcome(success, outcome) ==
    [success |-> success, outcome |-> outcome, exit_code |-> "none"]

ComputeJudge ==
    LET o == act["sched"].op
    IN  /\ act["sched"].ph = "judge"
        /\ IF HttpOk(o) /\ script[o].uri # "" THEN
              /\ act' = [act EXCEPT !["sched"].ph = "publish"]
              /\ UNCHANGED recs
            ELSE Recorded("sched", CASE EnvFailure(o)                -> Outcome("no", "skipped")
                                     [] HttpOk(o)                    -> Outcome("yes", "ok")
                                     [] ~EnvFailure(o) /\ ~HttpOk(o) -> Outcome("no", "not-ok"))
        /\ UNCHANGED <<script, begun, proc, log, outs, arts, resp, pending, result, cancel, dash,
                       published, seen, lost, emptied>>

(* cefputfile publishes what the output file holds; it may fail or hang    *)
(* until its own deadline.                                                 *)
ComputePublish ==
    LET o == act["sched"].op
    IN  /\ act["sched"].ph = "publish"
        /\ published' = published \union {[call |-> o, body |-> resp[OutputOf(o)]]}
        /\ \E ok \in BOOLEAN : Recorded("sched", Outcome(Tri(ok), IF ok THEN "ok" ELSE "not-ok"))
        /\ UNCHANGED <<script, begun, proc, log, outs, arts, resp, pending, result, cancel, dash,
                       seen, lost, emptied>>

-----------------------------------------------------------------------------
(* The dashboard's subscriber: keeps the last operations, and adds a point *)
(* to the success history from the operations it keeps.                    *)
Bounded(s, x, max) == Append(IF Len(s) >= max THEN Tail(s) ELSE s, x)
Counted(ops) == {i \in DOMAIN ops : ops[i].kind \in {"get", "sub"}}
Point(ops) == [total |-> Cardinality(Counted(ops)),
               success |-> Cardinality({i \in Counted(ops) : ops[i].v.success = "yes"})]

record_operation_CountsBefore(rec) ==
    [ops |-> Bounded(dash.ops, rec, MAX_OPERATIONS),
     hist |-> Bounded(dash.hist, Point(dash.ops), MAX_HISTORY)]

record_operation(rec) ==
    LET ops == Bounded(dash.ops, rec, MAX_OPERATIONS)
    IN  [ops |-> ops, hist |-> Bounded(dash.hist, Point(ops), MAX_HISTORY)]

RecordOf(o) == recs[CHOOSE i \in DOMAIN recs : recs[i].op = o]

(* The callback returns; a publication goes on to the subscriptions it     *)
(* took, one after the other, and so does the main thread.                 *)
Notify(t) ==
    /\ act[t].ph = "notify"
    /\ dash' = record_operation(RecordOf(act[t].op))
    /\ act' = IF act[t].rest = {} THEN [act EXCEPT ![t] = Idle]
              ELSE LET next == Following(act[t].op, act[t].rest)
                   IN  Waits(t, next, act[t].rest \ {next})
    /\ UNCHANGED <<script, begun, proc, log, outs, arts, resp, pending, result, cancel, recs,
                   published, seen, lost, emptied>>

-----------------------------------------------------------------------------
(* The main thread: it cancels at a deadline or at shutdown, and settles   *)
(* the subscriptions that are still pending then or when the queue is done.*)
Cancel ==
    /\ ~cancel
    /\ cancel' = TRUE
    /\ UNCHANGED <<script, begun, proc, log, outs, arts, resp, pending, act, result, recs, dash,
                   published, seen, lost, emptied>>

MainSettles ==
    /\ act["main"].ph = "idle" /\ pending # {}
    /\ cancel \/ (act["worker"].ph = "idle" /\ Next1(ContentKinds) = {})
    /\ act' = Waits("main", Min(pending), pending \ {Min(pending)})
    /\ pending' = {}
    /\ UNCHANGED <<script, begun, proc, log, outs, arts, resp, result, cancel, recs, dash,
                   published, seen, lost, emptied>>

Processes ==
    \E p \in Ops : \/ GetReceives(p) \/ GetCompletes(p) \/ SubCreates(p) \/ SubWrites(p)
                   \/ Exits(p) \/ CurlExits(p)
Dispatch ==
    \/ \E o \in Ops : Take(o) \/ RunStart(o) \/ RunRaises(o) \/ ComputeStart(o)
                   \/ SubClears(o) \/ SubSpawns(o)
    \/ SubPends \/ PubStart \/ PubCancelled
Settle ==
    \/ \E t \in Threads : WaitEnds(t) \/ SeesRunning(t) \/ Interrupts(t) \/ Judge(t) \/ Notify(t)
    \/ CaptureTimesOut \/ ComputeJudge \/ ComputePublish

JudgeNext == Processes \/ Dispatch \/ Settle \/ Cancel \/ MainSettles

JudgeSpec == JudgeInit /\ [][JudgeNext]_judgeVars

-----------------------------------------------------------------------------
(* After the run: the CSV summary and the analysis.                        *)

(* The record a log file is joined with: the last one that names it.       *)
RecordsOf(f) == {i \in DOMAIN recs : content_log_name(recs[i].op) = f}
results_by_log_name_First(f) ==
    recs[CHOOSE i \in RecordsOf(f) : \A j \in RecordsOf(f) : i <= j]
results_by_log_name(f) ==
    recs[CHOOSE i \in RecordsOf(f) : \A j \in RecordsOf(f) : i >= j]

(* The success column: the log decides, the record fills in what it leaves *)
(* open.                                                                   *)
RowSuccess(f) ==
    LET parsed == ParsedSuccess(f[1], log[f].lines)
    IN  IF parsed = "none" /\ RecordsOf(f) # {} THEN results_by_log_name(f).v.success ELSE parsed

(* summarize: consumer operations counted per URI, with their reasons; the *)
(* prefetches are skipped.                                                 *)
Consumed == {i \in DOMAIN recs : recs[i].kind \in {"get", "sub"}}
Prefetched == {i \in Consumed : script[recs[i].op].phase = "warmup"}
Evaluated(u) == {i \in Consumed \ Prefetched : script[recs[i].op].uri = u}
Classified(i) == classify(recs[i].v)
summarize(u) ==
    [total   |-> Cardinality(Evaluated(u)),
     success |-> Cardinality({i \in Evaluated(u) : Classified(i).ok}),
     reasons |-> [x \in {"exit_code_nonzero", "missing_completed_log", "missing_output_file"} |->
                     Cardinality({i \in Evaluated(u) : x \in Classified(i).reasons})]]

-----------------------------------------------------------------------------
(* Properties.                                                             *)

Successes(kind) == {r \in {recs[i] : i \in DOMAIN recs} : r.kind = kind /\ r.v.success = "yes"}

(* Whose delivery a recorded success rests on.  A get succeeds only when   *)
(* that very cefgetfile received every chunk: the output file and the log  *)
(* an earlier get of the same name left never count.  A subscription       *)
(* succeeds only on content that arrived in its directory after it emptied *)
(* it: what an earlier one left never counts.  That content is its own or  *)
(* that of a subscription of the same host and label whose cefsubfile was  *)
(* still running then or was started since; the code does not tell them    *)
(* apart, and it may even have arrived before this cefsubfile was started  *)
(* or entered as pending.  A compute call publishes only the body of its   *)
(* own 2xx answer.                                                         *)
SuccessIsDelivery ==
    /\ \A r \in Successes("get") : proc[r.op].done
    /\ \A r \in Successes("sub") : r.v.artifact \in seen[r.op]
    /\ \A r \in Successes("compute") :
          script[r.op].uri # "" => \E p \in published : p.call = r.op
    /\ \A p \in published : p.body = [by |-> p.call, ok |-> TRUE]

(* What was delivered is recorded as a success, however the wait ended: a  *)
(* get that received everything and exited with 0, even when it was being  *)
(* cancelled at that moment; a subscription whose content is in place and  *)
(* that exited with 0, timed out or was cancelled.  The one way to lose it *)
(* is another subscription of the same host and label that starts before   *)
(* the record and empties the shared directory.                            *)
DeliveryIsSuccess ==
    \A i \in DOMAIN recs :
        LET r == recs[i]  o == r.op
        IN  /\ (r.kind = "get" /\ proc[o].done /\ proc[o].st = "exited" /\ proc[o].rc = "zero")
                  => r.v.success = "yes"
            /\ (r.kind = "sub" /\ proc[o].done /\ r.v.success = "no")
                  => \/ \E q \in begun : q > o /\ Kind(q) = "sub" /\ OutputOf(q) = OutputOf(o)
                     \/ proc[o].rc = "nonzero" /\ ~result[o].timed /\ ~result[o].cancelled

(* The files the CSV summary reads, once no process writes to them any     *)
(* more.                                                                   *)
Settled(f) == \A o \in begun : content_log_name(o) = f => proc[o].st # "run"
OneUri(f) == \A o, p \in Ops : content_log_name(o) = f /\ content_log_name(p) = f
                => script[o].uri = script[p].uri

(* The join of logs and records.  When the operation that opened a log     *)
(* last has a record, that record is the one the summary joins with the    *)
(* log, however the threads interleaved (for logs of a single URI).  And   *)
(* the success column never invents a delivery: it says yes for a get only *)
(* if the process that owns the log received everything, and for a         *)
(* subscription only if content arrived.                                   *)
CsvFollows ==
    \A f \in Names :
        /\ OneUri(f) /\ log[f].by \in {recs[i].op : i \in RecordsOf(f)}
             => results_by_log_name(f).op = log[f].by
        /\ Settled(f) /\ RowSuccess(f) = "yes"
             => /\ f[1] = "get" => proc[log[f].by].done
                /\ f[1] = "sub" => \E o \in begun : content_log_name(o) = f /\ seen[o] # {}

(* Every ccninfo record agrees with a reading of the printed text by       *)
(* paragraphs: the reply is the last response outside the blocks, with its *)
(* own time; the route is the hops of the route blocks in order; success   *)
(* means exit code 0, no interruption, a reply, and both expectations met, *)
(* and exactly the failures have a reason.  The monitor, which judges the  *)
(* same text by its own rule, says ok exactly when a ccninfo without       *)
(* expectations succeeds.                                                  *)
CcninfoSound ==
    \A i \in DOMAIN recs : recs[i].kind = "ccninfo" =>
        LET o == recs[i].op
            v == recs[i].v
            text == IF proc[o].st = "none" THEN <<>> ELSE log[content_log_name(o)].text
            reply == parse_ccninfo(text)
            nodes == RouteNodes(text)
            last == CHOOSE n \in Responses(text) : \A m \in Responses(text) : m <= n
            clean == proc[o].rc = "zero" /\ ~result[o].timed /\ ~result[o].cancelled
        IN  /\ v.reply_received = (Responses(text) # {})
            /\ v.reply_received => /\ reply.responder = text[last].node
                                   /\ reply.rtt = split_response_rest(text[last].ms)
            /\ [n \in DOMAIN reply.route |-> reply.route[n].node] = nodes
            /\ (v.success = "yes") =
                  (/\ clean /\ v.reply_received
                   /\ script[o].responder # <<>> => text[last].node = script[o].responder[1]
                   /\ script[o].route # <<>> => IsSubsequence(script[o].route[1], nodes))
            /\ (v.success = "yes") = (ccninfo_failure_reasons(v) = {})
            /\ (ccninfo_outcome(proc[o].rc, result[o].timed, result[o].cancelled, reply) = "ok")
                  = (from_runtime_ccninfo(proc[o].rc, result[o].timed, result[o].cancelled,
                                          reply, <<>>, <<>>).success = "yes")

Quiet == \A t \in Threads : act[t].ph # "notify"
Uris == {script[o].uri : o \in Ops}

(* The two readers of the records differ by the prefetches only.  Whenever *)
(* no callback is under way, the dashboard holds as many records as its    *)
(* bound allows (all of them up to it), its last history point is computed *)
(* from what it holds, and while nothing was dropped it equals the totals  *)
(* of the analysis and the prefetches, which the dashboard counts and the  *)
(* analysis skips.  In the analysis every failure has at least one reason  *)
(* and no success has one.                                                 *)
CountsAgree ==
    /\ (Quiet /\ recs # <<>>) =>
         LET point == dash.hist[Len(dash.hist)]
         IN  /\ Len(dash.ops) = IF Len(recs) < MAX_OPERATIONS THEN Len(recs) ELSE MAX_OPERATIONS
             /\ point = Point(dash.ops)
             /\ Len(recs) <= MAX_OPERATIONS =>
                  /\ {dash.ops[i] : i \in DOMAIN dash.ops} = {recs[i] : i \in DOMAIN recs}
                  /\ point.total = Cardinality(Prefetched)
                       + FoldSet(LAMBDA u, n : n + summarize(u).total, 0, Uris)
                  /\ point.success = Cardinality({i \in Prefetched : Classified(i).ok})
                       + FoldSet(LAMBDA u, n : n + summarize(u).success, 0, Uris)
    /\ \A u \in Uris : LET row == summarize(u) failed == row.total - row.success
                       IN  /\ FoldFunction(+, 0, row.reasons) >= failed
                           /\ \A x \in DOMAIN row.reasons : row.reasons[x] <= failed

(* A record says success exactly when content was delivered, as far as the *)
(* files an operation is judged by can tell whose it was.                  *)
SuccessIffDelivery == SuccessIsDelivery /\ DeliveryIsSuccess
==============================================================================
