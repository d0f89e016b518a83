------------------------------ MODULE Campaign ------------------------------
(***************************************************************************)
(* The overnight measurement campaign: tools/workshop/supervise.sh keeps    *)
(* tools/workshop/campaign.py running until its manifest is processed; each *)
(* disaster job is one tools/autotest/run.py process, each linear job one   *)
(* scenario under timeout(1).  What survives a death of the campaign is the *)
(* journal campaign_state.jsonl, the results.json of each job's directory,  *)
(* the jobs still running (they own their session) and what the jobs left   *)
(* of their Mininet networks.  tools/workshop/plots.py and report.py read   *)
(* the journal and the results at any time.                                 *)
(*                                                                          *)
(* A campaign is resumed by the supervisor or by hand, with the same --out.  *)
(* Only the supervisor looks for another live one first, and only before it  *)
(* judges the journal: two can run at once, the supervisor's child and one   *)
(* started by hand.                                                          *)
(*                                                                          *)
(* A job attempt is named by a serial number n, which the code does not     *)
(* have: it says which attempt wrote a file or left a network.              *)
(***************************************************************************)
EXTENDS Naturals, Sequences, SequencesExt

\* The cases to consider: a manifest, and two bounds: "faults" on the deaths of
\* campaign.py (SIGKILL, OOM), deaths of the machine and attempts that hit their
\* hard timeout; "hands" on the campaigns started by hand.
CONSTANT Cases

\* "complete": the entry has every key its kind requires.
JobEntry == [id : STRING, kind : STRING, complete : BOOLEAN]

ASSUME CampaignBounds ==
    Cases \subseteq [manifest : Seq(JobEntry), faults : Nat, hands : Nat]

Manifests == {k.manifest : k \in Cases}

\* Who started a campaign: the supervisor or somebody at a terminal.
Starters == {"child", "hand"}

VARIABLES manifest,  \* sequence of [id, kind, complete]
          sup,       \* the supervisor's place in its loop
          camp,      \* starter -> its campaign process
          journal,   \* campaign_state.jsonl: [id, attempt, status, n]
          torn,      \* the last line was cut by a machine crash
          live,      \* job processes: [n, id, kind, wrote]
          mn,        \* attempts whose Mininet state is still in the kernel
          results,   \* job id -> the attempt that wrote its results.json, or 0
          n,         \* attempts started so far
          orphans,   \* history: attempts no campaign looked after to their end
          overlap,   \* history: two campaigns ran at once
          hands,     \* how many campaigns may still be started by hand
          faults     \* how many kills, crashes and timeouts may still happen

files == <<manifest, journal, torn, results>>
bounds == <<overlap, hands, faults>>
vars == <<files, sup, camp, live, mn, n, orphans, bounds>>

\* _validate_job, _load_manifest: a non-empty list whose entries have an id, a
\* known kind and every key the kind requires.
validate_job(job) == job.kind \in {"disaster", "linear"} /\ job.complete

load_manifest(m) == m # <<>> /\ \A i \in DOMAIN m : validate_job(m[i])

Ids(m) == {m[i].id : i \in DOMAIN m}

AllIds == UNION {Ids(m) : m \in Manifests}

\* _load_completed_job_ids: only an ok line counts as done.
load_completed_job_ids(lines) ==
    {lines[k].id : k \in {k \in DOMAIN lines : lines[k].status = "ok"}}

\* The supervisor's inline script: timeout is not among its terminal statuses.
Terminal(lines) ==
    {lines[k].id : k \in {k \in DOMAIN lines :
        lines[k].status \in {"ok", "failed", "skipped_memory"}}}

SupervisorDone_Proper(m, lines) ==
    Ids(m) \subseteq Terminal(lines) /\ Ids(m) # Terminal(lines)

SupervisorDone(m, lines) == Ids(m) \subseteq Terminal(lines)

\* "n" is the attempt in hand, "clean" --clean-between.
Off == [pc |-> "off", i |-> 1, attempt |-> 1, completed |-> {}, status |-> "ok",
        n |-> 0, clean |-> FALSE]

Init ==
    /\ \E k \in Cases :
           manifest = k.manifest /\ faults = k.faults /\ hands = k.hands
    /\ sup = "poll"
    /\ camp = [c \in Starters |-> Off]
    /\ journal = <<>>
    /\ torn = FALSE
    /\ live = {}
    /\ mn = {}
    /\ results = [id \in AllIds |-> 0]
    /\ n = 0
    /\ orphans = {}
    /\ overlap = FALSE

Job(c) == manifest[camp[c].i]

\* Campaign c waits for the process of j.
WaitsFor(c, j) == camp[c].pc = "running" /\ j.n = camp[c].n

-----------------------------------------------------------------------------
(***************************************************************************)
(* The processes start.  A campaign that cannot read its manifest or its    *)
(* journal raises before it runs anything.                                  *)
(***************************************************************************)
Launched_NoResume(clean) ==
    IF load_manifest(manifest) /\ ~torn
    THEN [Off EXCEPT !.pc = "next", !.clean = clean]
    ELSE Off

Launched(clean) ==
    IF load_manifest(manifest) /\ ~torn
    THEN [Off EXCEPT !.pc = "next", !.completed = load_completed_job_ids(journal),
                     !.clean = clean]
    ELSE Off

\* Campaign c begins, perhaps beside the other one.
Launch(c, clean) ==
    /\ camp' = [camp EXCEPT ![c] = Launched(clean)]
    /\ overlap' = (overlap \/ \A d \in Starters : camp'[d].pc # "off")

\* main() by hand: the first campaign, or a resume with the same --out.  Nothing
\* is cleaned and nobody looks for another campaign.
LaunchByHand ==
    /\ camp["hand"].pc = "off" /\ hands > 0
    /\ hands' = hands - 1
    /\ \E clean \in BOOLEAN : Launch("hand", clean)
    /\ UNCHANGED <<files, sup, live, mn, n, orphans, faults>>

\* pgrep: a live campaign owns the run, wait for it.
SupervisorPoll ==
    /\ sup = "poll" /\ \A c \in Starters : camp[c].pc = "off"
    /\ sup' = "judge"
    /\ UNCHANGED <<files, camp, live, mn, n, orphans, bounds>>

\* The done test; json.loads of a torn line fails it.  Otherwise mn -c, and a
\* campaign without --clean-between.
SupervisorJudge ==
    /\ sup = "judge"
    /\ IF ~torn /\ SupervisorDone(manifest, journal)
       THEN sup' = "done" /\ UNCHANGED <<camp, mn, overlap>>
       ELSE /\ sup' = "child"
            /\ mn' = {}
            /\ Launch("child", FALSE)
    /\ UNCHANGED <<files, live, n, orphans, hands, faults>>

\* The campaign it launched has exited: sleep, and look again.
SupervisorChild ==
    /\ sup = "child" /\ camp["child"].pc = "off"
    /\ sup' = "poll"
    /\ UNCHANGED <<files, camp, live, mn, n, orphans, bounds>>

-----------------------------------------------------------------------------
(***************************************************************************)
(* _run_manifest and _run_job_attempts of campaign c.                       *)
(***************************************************************************)
\* The loop over the jobs: the end, a job that is already ok, or a first
\* attempt.  completed is what the journal said at the start.
NextJob(c) ==
    /\ camp[c].pc = "next"
    /\ camp' = [camp EXCEPT ![c] =
                  IF camp[c].i > Len(manifest) THEN Off
                  ELSE IF Job(c).id \in camp[c].completed THEN [camp[c] EXCEPT !.i = @ + 1]
                  ELSE [camp[c] EXCEPT !.pc = "attempt", !.attempt = 1]]
    /\ UNCHANGED <<files, sup, live, mn, n, orphans, bounds>>

Line(c, status, serial) ==
    [id |-> Job(c).id, attempt |-> camp[c].attempt, status |-> status, n |-> serial]

\* The second attempt, and the next job.
Retry(c) == [camp[c] EXCEPT !.pc = "attempt", !.attempt = 2, !.status = "ok", !.n = 0]
MoveOn(c) == [camp[c] EXCEPT !.pc = "next", !.i = @ + 1, !.attempt = 1, !.status = "ok",
                             !.n = 0]

\* MemAvailable below 20%: one line, and on to the next job.
SkipMemory(c) ==
    /\ camp[c].pc = "attempt"
    /\ journal' = Append(journal, Line(c, "skipped_memory", 0))
    /\ camp' = [camp EXCEPT ![c] = MoveOn(c)]
    /\ UNCHANGED <<manifest, torn, results, sup, live, mn, n, orphans, bounds>>

\* _build_job_command, as the process it makes: run.py with --runs 1 for a
\* disaster job, the scenario under timeout(1) for a linear one.  Every attempt
\* of a job has the same run directory.
build_job_command(job) == [n |-> n + 1, id |-> job.id, kind |-> job.kind, wrote |-> FALSE]

\* Popen with start_new_session: the job builds its Mininet network.
StartJob(c) ==
    /\ camp[c].pc = "attempt"
    /\ n' = n + 1
    /\ live' = live \cup {build_job_command(Job(c))}
    /\ mn' = mn \cup {n + 1}
    /\ camp' = [camp EXCEPT ![c].pc = "running", ![c].n = n + 1]
    /\ UNCHANGED <<files, sup, orphans, bounds>>

\* The attempt in hand has ended.
Ended(c, status) == [camp[c] EXCEPT !.pc = "append", !.status = status]

\* The hard timeout: SIGKILL to the job's process group, which leaves its
\* network behind.  timeout(1) moves a linear scenario into a group of its own,
\* which the signal need not reach.
Timeout(c) ==
    \E j \in live :
        /\ WaitsFor(c, j)
        /\ faults > 0
        /\ faults' = faults - 1
        /\ \/ live' = live \ {j} /\ orphans' = orphans
           \/ j.kind = "linear" /\ live' = live /\ orphans' = orphans \cup {j.n}
        /\ camp' = [camp EXCEPT ![c] = Ended(c, "timeout")]
        /\ UNCHANGED <<files, sup, mn, n, overlap, hands>>

\* _append_state: the line is on disk before anything else happens.
AppendState(c) ==
    /\ camp[c].pc = "append"
    /\ journal' = Append(journal, Line(c, camp[c].status, camp[c].n))
    /\ camp' = [camp EXCEPT ![c].pc = "after"]
    /\ UNCHANGED <<manifest, torn, results, sup, live, mn, n, orphans, bounds>>

AfterAttempt_NoCleanup(c) ==
    /\ camp[c].pc = "after"
    /\ mn' = IF camp[c].clean /\ camp[c].status = "ok" THEN {} ELSE mn
    /\ camp' = [camp EXCEPT ![c] = IF @.status # "ok" /\ @.attempt = 1
                                   THEN Retry(c) ELSE MoveOn(c)]
    /\ UNCHANGED <<files, sup, live, n, orphans, bounds>>

\* After the line: mn -c before the one retry, and after a success only with
\* --clean-between.  A second failure moves on without cleaning.
AfterAttempt(c) ==
    /\ camp[c].pc = "after"
    /\ IF camp[c].status = "ok"
       THEN /\ mn' = IF camp[c].clean THEN {} ELSE mn
            /\ camp' = [camp EXCEPT ![c] = MoveOn(c)]
       ELSE IF camp[c].attempt = 1
       THEN mn' = {} /\ camp' = [camp EXCEPT ![c] = Retry(c)]
       ELSE mn' = mn /\ camp' = [camp EXCEPT ![c] = MoveOn(c)]
    /\ UNCHANGED <<files, sup, live, n, orphans, bounds>>

-----------------------------------------------------------------------------
(***************************************************************************)
(* The jobs.                                                                *)
(***************************************************************************)
\* A disaster run writes results.json in the directory its number and seed
\* name, the same one for every attempt of the job.
JobWrites ==
    \E j \in live :
        /\ j.kind = "disaster" /\ ~j.wrote
        /\ live' = (live \ {j}) \cup {[j EXCEPT !.wrote = TRUE]}
        /\ results' = [results EXCEPT ![j.id] = j.n]
        /\ UNCHANGED <<manifest, journal, torn, sup, camp, mn, n, orphans, bounds>>

\* run.py's main and _run_one: exit code 0 needs a scenario that exited 0 and
\* its results.json.  A failing scenario may leave parts of its network.
JobSucceeds(j) == j.kind = "disaster" => j.wrote

JobExits ==
    \E j \in live, status \in {"ok", "failed"}, leaves \in BOOLEAN :
        /\ status = "ok" => JobSucceeds(j) /\ ~leaves
        /\ live' = live \ {j}
        /\ mn' = IF leaves THEN mn ELSE mn \ {j.n}
        /\ camp' = [c \in Starters |-> IF WaitsFor(c, j) THEN Ended(c, status) ELSE camp[c]]
        /\ UNCHANGED <<files, sup, n, orphans, bounds>>

-----------------------------------------------------------------------------
(***************************************************************************)
(* The faults.                                                              *)
(***************************************************************************)
\* campaign.py dies; the job it was running lives on, and nobody cleans up after
\* an attempt it had in hand.
KillCampaign(c) ==
    /\ camp[c].pc # "off" /\ faults > 0
    /\ faults' = faults - 1
    /\ camp' = [camp EXCEPT ![c] = Off]
    /\ orphans' = IF camp[c].pc \in {"running", "append", "after"}
                  THEN orphans \cup {camp[c].n} ELSE orphans
    /\ UNCHANGED <<files, sup, live, mn, n, overlap, hands>>

\* The machine dies and the supervisor is started again.  A line that was being
\* written, of an attempt or of a skipped job, may be on disk in part.
CrashMachine ==
    /\ sup # "done" /\ faults > 0
    /\ faults' = faults - 1
    /\ sup' = "poll"
    /\ camp' = [c \in Starters |-> Off]
    /\ live' = {} /\ mn' = {}
    /\ torn' \in {torn, torn \/ \E c \in Starters : camp[c].pc \in {"append", "attempt"}}
    /\ UNCHANGED <<manifest, journal, results, n, orphans, overlap, hands>>

Finished == sup = "done" /\ live = {} /\ UNCHANGED vars

Supervisor == SupervisorPoll \/ SupervisorJudge \/ SupervisorChild

Attempt(c) == \/ NextJob(c) \/ SkipMemory(c) \/ StartJob(c)
              \/ AppendState(c) \/ AfterAttempt(c)

\* An attempt a campaign waits for ends by itself or at its hard timeout.
AttemptEnds(c) ==
    (JobExits \/ Timeout(c)) /\ camp[c].pc = "running" /\ camp'[c].pc = "append"

Next ==
    \/ LaunchByHand \/ Supervisor
    \/ \E c \in Starters : Attempt(c) \/ Timeout(c) \/ KillCampaign(c)
    \/ JobWrites \/ JobExits
    \/ CrashMachine
    \/ Finished

Fairness == /\ WF_vars(Supervisor)
            /\ \A c \in Starters : WF_vars(Attempt(c)) /\ WF_vars(AttemptEnds(c))

Spec == Init /\ [][Next]_vars /\ Fairness

-----------------------------------------------------------------------------
(***************************************************************************)
(* What plots.py and report.py say of the campaign.                         *)
(***************************************************************************)
\* _final_attempt_by_job, discover_jobs: the last line of a job, and the
\* results.json its directory holds at the time.
final_attempt_by_job(id) ==
    SelectLastInSeq(journal, LAMBDA l : l.id = id)

discover_job(id) ==
    LET k == final_attempt_by_job(id)
    IN  [status |-> IF k = 0 THEN "none" ELSE journal[k].status,
         n |-> IF k = 0 THEN 0 ELSE journal[k].n,
         results |-> results[id]]

\* _campaign_stats.
campaign_stats ==
    LET seen == {id \in AllIds : final_attempt_by_job(id) # 0}
        with(S) == {id \in seen : discover_job(id).status \in S}
    IN  [ok |-> with({"ok"}), skipped |-> with({"skipped_memory"}),
         failed |-> with({"failed", "timeout"})]

\* Two jobs of one id share a directory and a journal entry; _validate_job does
\* not refuse them, and nothing below is claimed of them.
Distinct == \A i, k \in DOMAIN manifest : manifest[i].id = manifest[k].id => i = k

\* However often the campaign died and was resumed, the report, which looks at
\* a job's last line, counts as ok exactly the jobs a resumed campaign, which
\* looks for any ok line, would not run again; as long as two never ran at once.
ReportAgrees ==
    Distinct /\ ~overlap => campaign_stats.ok = load_completed_job_ids(journal)

\* A disaster job the report shows as ok has a results.json, and it is the one
\* its ok attempt wrote, unless an attempt that outlived its campaign wrote over
\* it.
OkHasResults ==
    Distinct /\ ~overlap =>
        \A i \in DOMAIN manifest :
            LET d == discover_job(manifest[i].id)
            IN  (manifest[i].kind = "disaster" /\ d.status = "ok") =>
                    d.results = d.n \/ d.results \in orphans

\* The attempt was the second of its job to fail.
GivenUp(m) == \E k \in DOMAIN journal :
                  /\ journal[k].n = m /\ journal[k].attempt = 2
                  /\ journal[k].status \in {"failed", "timeout"}

Starts(c) == camp[c].pc = "attempt" /\ camp'[c].pc = "running"

\* What a job may meet when it is started.  The manifest is valid to its last
\* entry.  Each other job process is an orphan of a killed campaign or of
\* timeout(1), or belongs to a campaign started beside this one: neither is
\* waited for, whatever supervise.sh says of Mininet being single-instance.
\* Unless two campaigns ran at once, the job is not ok yet; a retry finds no
\* network at all; a campaign of the supervisor finds only networks of jobs given
\* up after their second attempt; and one resumed by hand, before which nothing
\* is cleaned, also those of the attempts that a killed campaign had in hand.
StartsSound ==
    [][\A c \in Starters : Starts(c) =>
        /\ load_manifest(manifest)
        /\ \A j \in live : \/ j.n \in orphans
                            \/ \E d \in Starters \ {c} : WaitsFor(d, j)
        /\ ~overlap =>
            /\ Distinct => Job(c).id \notin load_completed_job_ids(journal)
            /\ camp[c].attempt = 2 => mn = {}
            /\ \A m \in mn : GivenUp(m) \/ (c = "hand" /\ m \in orphans)]_vars

\* Once the faults stop and attempts no longer run into their timeout, the
\* supervisor sees the campaign done, however often somebody resumes it by hand
\* beside it, unless the manifest is malformed or a crash cut a line of the
\* journal: then it relaunches for ever.
SupervisorEnds == load_manifest(manifest) => <>(sup = "done" \/ torn)

\* The report tells the truth about what was measured.
ReportTrue == ReportAgrees /\ OkHasResults
=============================================================================
