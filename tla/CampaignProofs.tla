--------------------------- MODULE CampaignProofs ---------------------------
(***************************************************************************)
(* Proofs about what a campaign reports: in the first part Campaign, for   *)
(* any manifests and any number of kills, crashes, timeouts and campaigns  *)
(* started by hand; in the second Judgment, the records that a job leaves  *)
(* and the summary of them, for any scripts of operations and any texts.   *)
(***************************************************************************)
EXTENDS Campaign, Judgment, WellFoundedInduction, FiniteSetTheorems, TLAPS

\* A job process.
Serial == [n : Nat, id : AllIds, kind : STRING, wrote : BOOLEAN]

\* A line of campaign_state.jsonl.
JournalLine == [id : AllIds, attempt : {1, 2}, n : Nat,
                status : {"ok", "failed", "timeout", "skipped_memory"}]

\* A campaign process.
CampState == [pc : {"off", "next", "attempt", "running", "append", "after"},
              i : Nat \ {0}, attempt : {1, 2}, completed : SUBSET AllIds,
              status : {"ok", "failed", "timeout"}, n : Nat, clean : BOOLEAN]

\* The type invariant.
TypeOK ==
    /\ manifest \in Manifests
    /\ sup \in {"poll", "judge", "child", "done"}
    /\ camp \in [Starters -> CampState]
    /\ journal \in Seq(JournalLine)
    /\ torn \in BOOLEAN
    /\ live \subseteq Serial
    /\ mn \subseteq 1..n
    /\ results \in [AllIds -> Nat]
    /\ n \in Nat
    /\ orphans \subseteq 1..n
    /\ overlap \in BOOLEAN
    /\ hands \in Nat
    /\ faults \in Nat

\* Campaign c is a running process, and it has an attempt in hand.
On(c) == camp[c].pc # "off"
InHand(c) == camp[c].pc \in {"running", "append", "after"}

\* A campaign runs only a valid manifest, a job in hand is an entry of it, and
\* the supervisor waits for its child.
PlaceInv ==
    /\ \A c \in Starters :
           /\ On(c) => load_manifest(manifest)
           /\ camp[c].pc \notin {"off", "next"} => camp[c].i \in DOMAIN manifest
    /\ On("child") => sup = "child"

\* As long as two campaigns never ran at once, at most one is running.
SoloInv == ~overlap => \A c, d \in Starters : On(c) /\ On(d) => c = d

\* The journal holds an ok line of the job.
IsOk(id) == \E k \in DOMAIN journal : journal[k].id = id /\ journal[k].status = "ok"

\* The jobs a running campaign has still to look at, the one in hand included as
\* long as it may get another line.
StillOpen(c, i) ==
    \/ i > camp[c].i
    \/ i = camp[c].i /\ (camp[c].pc = "after" => camp[c].status # "ok")

\* What a lone campaign does not count as completed has no ok line.
OpenInv ==
    ~overlap /\ Distinct =>
        \A c \in Starters : On(c) =>
            \A i \in DOMAIN manifest : StillOpen(c, i) =>
                /\ IsOk(manifest[i].id) => manifest[i].id \in camp[c].completed
                /\ (i = camp[c].i /\ camp[c].pc # "next") => ~IsOk(manifest[i].id)

\* An ok line is the last one of its job, and every job with a line has a last one.
LastInv ==
    /\ ~overlap /\ Distinct => \A k, m \in DOMAIN journal :
           journal[k].status = "ok" /\ journal[m].id = journal[k].id => m <= k
    /\ \A k \in DOMAIN journal : \E l \in DOMAIN journal :
           /\ journal[l].id = journal[k].id
           /\ \A m \in DOMAIN journal : journal[m].id = journal[k].id => m <= l

\* Attempts have one number each: those in hand and those still alive.
SerialInv ==
    /\ \A j \in live : j.n \in 1..n
    /\ \A j, k \in live : j.n = k.n => j = k
    /\ \A c \in Starters : InHand(c) => camp[c].n \in 1..n
    /\ \A c, d \in Starters : InHand(c) /\ InHand(d) /\ camp[c].n = camp[d].n => c = d
    /\ \A c \in Starters : camp[c].pc = "running" => camp[c].n \notin orphans

\* A job process is the attempt a campaign waits for, or an orphan.
LiveInv ==
    \A j \in live :
        \/ j.n \in orphans
        \/ \E c \in Starters : WaitsFor(c, j) /\ j.id = Job(c).id /\ j.kind = Job(c).kind

\* The results of an ok attempt are in place, from the moment it wrote them.
ResultsInv ==
    ~overlap =>
        /\ \A j \in live : j.wrote /\ j.kind = "disaster" /\ j.n \notin orphans =>
               results[j.id] \in {j.n} \cup orphans
        /\ \A c \in Starters :
               camp[c].pc = "append" /\ camp[c].status = "ok" /\ Job(c).kind = "disaster" =>
                   results[Job(c).id] \in {camp[c].n} \cup orphans
        /\ Distinct => \A i \in DOMAIN manifest, k \in DOMAIN journal :
               /\ manifest[i].kind = "disaster" /\ journal[k].id = manifest[i].id
               /\ journal[k].status = "ok"
               => results[manifest[i].id] \in {journal[k].n} \cup orphans

\* The attempt in hand may have left a network that is cleaned before the next.
Dirty(c) ==
    \/ camp[c].pc = "running"
    \/ camp[c].pc = "append" /\ camp[c].status # "ok"
    \/ camp[c].pc = "after" /\ camp[c].status # "ok" /\ camp[c].attempt = 1

\* Whose networks a lone campaign may meet, and the supervisor's child, before
\* which everything was cleaned; before a retry everything is cleaned again.
NetworkInv ==
    ~overlap =>
        /\ \A m \in mn : \/ GivenUp(m) \/ m \in orphans
                         \/ \E c \in Starters : Dirty(c) /\ m = camp[c].n
        /\ On("child") =>
               \A m \in mn : GivenUp(m) \/ (Dirty("child") /\ m = camp["child"].n)
        /\ \A c \in Starters :
               camp[c].pc = "attempt" /\ camp[c].attempt = 2 => mn = {}

\* The inductive invariant.
IInv ==
    /\ TypeOK
    /\ PlaceInv
    /\ SoloInv
    /\ OpenInv
    /\ LastInv
    /\ SerialInv
    /\ LiveInv
    /\ ResultsInv
    /\ NetworkInv

-----------------------------------------------------------------------------
(* Types. *)

\* The entries of the manifest.
LEMMA TypedManifest ==
  ASSUME TypeOK
  PROVE  /\ manifest \in Seq(JobEntry)
         /\ \A i \in DOMAIN manifest : manifest[i].id \in AllIds /\ manifest[i].kind \in STRING
         /\ Len(manifest) \in Nat /\ DOMAIN manifest = 1..Len(manifest)
<1>1. manifest \in Seq(JobEntry)
  <2>1. PICK k \in Cases : manifest = k.manifest
    BY DEF TypeOK, Manifests
  <2>2. k \in [manifest : Seq(JobEntry), faults : Nat, hands : Nat]
    BY CampaignBounds
  <2>. QED
    BY <2>1, <2>2
<1>2. \A i \in DOMAIN manifest : manifest[i] \in JobEntry
  BY <1>1
<1>3. \A i \in DOMAIN manifest : manifest[i].id \in AllIds
  BY DEF AllIds, Ids, TypeOK
<1>. QED
  BY <1>1, <1>2, <1>3 DEF JobEntry

\* The fields of the journal's lines.
LEMMA TypedLines ==
  ASSUME TypeOK
  PROVE  /\ DOMAIN journal = 1..Len(journal) /\ Len(journal) \in Nat
         /\ \A k \in DOMAIN journal :
              /\ journal[k].id \in AllIds /\ journal[k].n \in Nat
              /\ journal[k].attempt \in {1, 2}
              /\ journal[k].status \in {"ok", "failed", "timeout", "skipped_memory"}
         /\ load_completed_job_ids(journal) \subseteq AllIds
         /\ \A id : id \in load_completed_job_ids(journal) <=> IsOk(id)
<1>1. journal \in Seq(JournalLine)
  BY DEF TypeOK
<1>2. \A k \in DOMAIN journal : journal[k] \in JournalLine
  BY <1>1
<1>3. \A k \in DOMAIN journal : journal[k].id \in AllIds
  BY <1>2 DEF JournalLine
<1>4. \A k \in DOMAIN journal :
        /\ journal[k].n \in Nat /\ journal[k].attempt \in {1, 2}
        /\ journal[k].status \in {"ok", "failed", "timeout", "skipped_memory"}
  BY <1>2 DEF JournalLine
<1>5. load_completed_job_ids(journal) \subseteq AllIds
  BY <1>3 DEF load_completed_job_ids
<1>6. \A id : id \in load_completed_job_ids(journal) <=> IsOk(id)
  BY DEF load_completed_job_ids, IsOk
<1>. QED
  BY <1>1, <1>3, <1>4, <1>5, <1>6

\* The fields of a campaign.
LEMMA CampFields ==
  ASSUME TypeOK, NEW c \in Starters
  PROVE  /\ camp[c] \in CampState
         /\ camp[c].pc \in {"off", "next", "attempt", "running", "append", "after"}
         /\ camp[c].i \in Nat \ {0} /\ camp[c].attempt \in {1, 2} /\ camp[c].n \in Nat
         /\ camp[c].status \in {"ok", "failed", "timeout"}
<1>1. camp[c] \in CampState
  BY DEF TypeOK
<1>. QED
  BY <1>1 DEF CampState

\* A campaign that is off.
LEMMA OffFields == Off \in CampState /\ Off.pc = "off"
  BY DEF Off, CampState

\* A campaign that begins.
LEMMA LaunchedFields ==
  ASSUME TypeOK, NEW clean \in BOOLEAN
  PROVE  /\ Launched(clean) \in CampState
         /\ Launched(clean).pc \in {"off", "next"}
         /\ Launched(clean).pc = "next" =>
              /\ load_manifest(manifest) /\ Launched(clean).i = 1
              /\ Launched(clean).completed = load_completed_job_ids(journal)
<1>. DEFINE done == load_completed_job_ids(journal)
            new == [Off EXCEPT !.pc = "next", !.completed = done, !.clean = clean]
<1>1. done \in SUBSET AllIds
  BY TypedLines
<1>. HIDE DEF done
<1>2. new \in CampState /\ new.pc = "next" /\ new.i = 1 /\ new.completed = done
  <2>1. Off \in CampState /\ Off.i = 1
    BY OffFields DEF Off
  <2>2. ASSUME NEW z \in CampState, NEW x \in SUBSET AllIds, NEW y \in BOOLEAN
        PROVE  LET e == [z EXCEPT !.pc = "next", !.completed = x, !.clean = y]
               IN  e \in CampState /\ e.pc = "next" /\ e.i = z.i /\ e.completed = x
    BY DEF CampState
  <2>3. LET e == [Off EXCEPT !.pc = "next", !.completed = done, !.clean = clean]
        IN  e \in CampState /\ e.pc = "next" /\ e.i = Off.i /\ e.completed = done
    BY ONLY <1>1, <2>1, <2>2, Zenon
  <2>. QED
    BY ONLY <2>1, <2>3, Zenon DEF new
<1>. HIDE DEF new
<1>3. Launched(clean) = IF load_manifest(manifest) /\ ~torn THEN new ELSE Off
  BY DEF Launched, new, done
<1>. QED
  BY <1>2, <1>3, OffFields DEF done

\* Campaign c takes a step, the other one does not.
LEMMA Others ==
  ASSUME TypeOK, NEW c \in Starters, NEW s \in CampState, camp' = [camp EXCEPT ![c] = s]
  PROVE  /\ camp' \in [Starters -> CampState] /\ camp'[c] = s
         /\ \A d \in Starters : d # c => camp'[d] = camp[d]
  BY DEF TypeOK

\* The states a campaign comes to.
LEMMA TypedMoves ==
  ASSUME TypeOK, NEW c \in Starters
  PROVE  /\ Retry(c) \in CampState /\ Retry(c).pc = "attempt" /\ Retry(c).attempt = 2
         /\ Retry(c).i = camp[c].i /\ Retry(c).completed = camp[c].completed
         /\ MoveOn(c) \in CampState /\ MoveOn(c).pc = "next" /\ MoveOn(c).i = camp[c].i + 1
         /\ MoveOn(c).completed = camp[c].completed
         /\ \A s \in {"ok", "failed", "timeout"} :
              /\ Ended(c, s) \in CampState /\ Ended(c, s).pc = "append"
              /\ Ended(c, s).status = s /\ Ended(c, s).i = camp[c].i
              /\ Ended(c, s).n = camp[c].n /\ Ended(c, s).completed = camp[c].completed
              /\ Ended(c, s).attempt = camp[c].attempt
<1>1. camp[c] \in CampState /\ camp[c].i + 1 \in Nat \ {0}
  BY CampFields
<1>2. ASSUME NEW z \in CampState, z.i + 1 \in Nat \ {0}
      PROVE  LET r == [z EXCEPT !.pc = "attempt", !.attempt = 2, !.status = "ok", !.n = 0]
                 m == [z EXCEPT !.pc = "next", !.i = @ + 1, !.attempt = 1, !.status = "ok",
                                !.n = 0]
             IN  /\ r \in CampState /\ r.pc = "attempt" /\ r.attempt = 2
                 /\ r.i = z.i /\ r.completed = z.completed
                 /\ m \in CampState /\ m.pc = "next" /\ m.i = z.i + 1
                 /\ m.completed = z.completed
  BY <1>2 DEF CampState
<1>3. ASSUME NEW z \in CampState, NEW s \in {"ok", "failed", "timeout"}
      PROVE  LET e == [z EXCEPT !.pc = "append", !.status = s]
             IN  /\ e \in CampState /\ e.pc = "append" /\ e.status = s /\ e.i = z.i
                 /\ e.n = z.n /\ e.completed = z.completed /\ e.attempt = z.attempt
  BY <1>3 DEF CampState
<1>4. /\ Retry(c) \in CampState /\ Retry(c).pc = "attempt" /\ Retry(c).attempt = 2
      /\ Retry(c).i = camp[c].i /\ Retry(c).completed = camp[c].completed
  BY <1>1, <1>2, Zenon DEF Retry
<1>5. /\ MoveOn(c) \in CampState /\ MoveOn(c).pc = "next" /\ MoveOn(c).i = camp[c].i + 1
      /\ MoveOn(c).completed = camp[c].completed
  BY <1>1, <1>2, Zenon DEF MoveOn
<1>6. \A s \in {"ok", "failed", "timeout"} :
        /\ Ended(c, s) \in CampState /\ Ended(c, s).pc = "append"
        /\ Ended(c, s).status = s /\ Ended(c, s).i = camp[c].i
        /\ Ended(c, s).n = camp[c].n /\ Ended(c, s).completed = camp[c].completed
        /\ Ended(c, s).attempt = camp[c].attempt
  BY <1>1, <1>3, Zenon DEF Ended
<1>. QED
  BY <1>4, <1>5, <1>6

\* A line the campaign writes.
LEMMA TypedLine ==
  ASSUME TypeOK, PlaceInv, NEW c \in Starters, camp[c].pc \in {"attempt", "append"},
         NEW s \in {"ok", "failed", "timeout", "skipped_memory"}, NEW m \in Nat
  PROVE  /\ Job(c).id \in AllIds /\ Job(c).kind \in STRING
         /\ Line(c, s, m) \in JournalLine
         /\ Line(c, s, m).id = Job(c).id /\ Line(c, s, m).status = s
         /\ Line(c, s, m).attempt = camp[c].attempt /\ Line(c, s, m).n = m
  BY TypedManifest, CampFields DEF PlaceInv, Line, Job, JournalLine

-----------------------------------------------------------------------------
(* The steps. *)

\* What a new line adds to the journal.
LEMMA NewLine ==
  ASSUME TypeOK, NEW l \in JournalLine, journal' = Append(journal, l)
  PROVE  /\ journal' \in Seq(JournalLine)
         /\ DOMAIN journal' = 1..(Len(journal) + 1)
         /\ \A k \in DOMAIN journal : k \in DOMAIN journal' /\ journal'[k] = journal[k]
         /\ journal'[Len(journal) + 1] = l
         /\ \A id : IsOk(id)' <=> IsOk(id) \/ (l.id = id /\ l.status = "ok")
         /\ \A m : GivenUp(m) => GivenUp(m)'
         /\ l.attempt = 2 /\ l.status \in {"failed", "timeout"} => GivenUp(l.n)'
<1>1. /\ journal' \in Seq(JournalLine)
      /\ DOMAIN journal' = 1..(Len(journal) + 1)
      /\ \A k \in DOMAIN journal : k \in DOMAIN journal' /\ journal'[k] = journal[k]
      /\ journal'[Len(journal) + 1] = l
  BY TypedLines DEF TypeOK
<1>2. \A k \in DOMAIN journal' : k \in DOMAIN journal \/ k = Len(journal) + 1
  BY <1>1, TypedLines
<1>3. \A id : IsOk(id)' <=> IsOk(id) \/ (l.id = id /\ l.status = "ok")
  BY <1>1, <1>2, TypedLines DEF IsOk
<1>4. \A m : GivenUp(m) => GivenUp(m)'
  BY <1>1 DEF GivenUp
<1>5. l.attempt = 2 /\ l.status \in {"failed", "timeout"} => GivenUp(l.n)'
  BY <1>1, TypedLines DEF GivenUp
<1>. QED
  BY <1>1, <1>3, <1>4, <1>5

\* A line of a job that is not ok yet keeps the ok lines last.
LEMMA LastExtends ==
  ASSUME IInv, NEW l \in JournalLine, journal' = Append(journal, l),
         manifest' = manifest, overlap' = overlap, ~overlap /\ Distinct => ~IsOk(l.id)
  PROVE  LastInv'
<1>1. TypeOK /\ LastInv
  BY DEF IInv
<1>. DEFINE new == Len(journal) + 1
<1>2. /\ DOMAIN journal' = 1..new /\ journal'[new] = l
      /\ \A k \in DOMAIN journal : k \in DOMAIN journal' /\ journal'[k] = journal[k] /\ k < new
      /\ \A k \in DOMAIN journal' : k \in DOMAIN journal \/ k = new
      /\ new \in DOMAIN journal' /\ new \in Nat
      /\ DOMAIN journal \subseteq Nat
  BY <1>1, NewLine, TypedLines
<1>. HIDE DEF new
<1>3. ASSUME ~overlap', Distinct', NEW k \in DOMAIN journal', NEW m \in DOMAIN journal',
             journal'[k].status = "ok", journal'[m].id = journal'[k].id
      PROVE  m <= k
  <2>1. ~overlap /\ Distinct
    BY <1>3 DEF Distinct
  <2>2. CASE k = new
    BY <2>2, <1>2
  <2>3. CASE k \in DOMAIN journal /\ m \in DOMAIN journal
    BY <2>1, <2>3, <1>1, <1>2, <1>3 DEF LastInv
  <2>4. CASE k \in DOMAIN journal /\ m = new
    BY <2>1, <2>4, <1>2, <1>3 DEF IsOk
  <2>. QED
    BY <2>2, <2>3, <2>4, <1>2
<1>4. ASSUME NEW k \in DOMAIN journal'
      PROVE  \E last \in DOMAIN journal' :
               /\ journal'[last].id = journal'[k].id
               /\ \A m \in DOMAIN journal' : journal'[m].id = journal'[k].id => m <= last
  <2>1. CASE journal'[k].id = l.id
    BY <2>1, <1>2
  <2>2. CASE journal'[k].id # l.id
    <3>1. k \in DOMAIN journal
      BY <2>2, <1>2
    <3>2. PICK last \in DOMAIN journal :
            /\ journal[last].id = journal[k].id
            /\ \A m \in DOMAIN journal : journal[m].id = journal[k].id => m <= last
      BY <1>1, <3>1 DEF LastInv
    <3>. QED
      BY <2>2, <3>1, <3>2, <1>2
  <2>. QED
    BY <2>1, <2>2
<1>. QED
  BY <1>3, <1>4 DEF LastInv

\* While the journal stays as it is, so does what it says.
LEMMA SameLines ==
  ASSUME journal' = journal
  PROVE  /\ \A id : IsOk(id)' <=> IsOk(id)
         /\ \A m : GivenUp(m)' <=> GivenUp(m)
  BY DEF IsOk, GivenUp

\* The lines stay in order while none is added.
LEMMA SameLast ==
  ASSUME IInv, journal' = journal, manifest' = manifest, ~overlap' => ~overlap
  PROVE  LastInv'
  BY DEF IInv, LastInv, Distinct

\* A campaign begins from what the journal says; the supervisor's child on a
\* cleaned machine.
LEMMA LaunchPreserves ==
  ASSUME IInv, NEW c \in Starters, NEW clean \in BOOLEAN, ~On(c), Launch(c, clean),
         UNCHANGED <<files, live, n, orphans>>, mn' \subseteq mn,
         sup' \in {"poll", "judge", "child", "done"},
         c = "child" => mn' = {} /\ sup' = "child",
         c = "hand" => sup' = sup, hands' \in Nat, faults' \in Nat
  PROVE  IInv'
<1>. DEFINE s == Launched(clean)
<1>t. TypeOK
  BY DEF IInv
<1>s. /\ s \in CampState /\ s.pc \in {"off", "next"}
      /\ s.pc = "next" => /\ load_manifest(manifest) /\ s.i = 1
                          /\ \A id : id \in s.completed <=> IsOk(id)
  BY <1>t, LaunchedFields, TypedLines
<1>c. camp' = [camp EXCEPT ![c] = s]
  BY DEF Launch
<1>. HIDE DEF s
<1>a. /\ camp' \in [Starters -> CampState] /\ camp'[c] = s
      /\ \A d \in Starters : d # c => camp'[d] = camp[d]
  BY <1>t, <1>s, <1>c, Others
<1>b. /\ ~overlap' => ~overlap /\ \E d \in Starters : ~On(d)'
      /\ overlap' \in BOOLEAN
  BY <1>t DEF Launch, On, TypeOK
<1>d. /\ manifest' = manifest /\ journal' = journal /\ results' = results /\ torn' = torn
      /\ live' = live /\ n' = n /\ orphans' = orphans
      /\ (\A id : IsOk(id)' <=> IsOk(id)) /\ (\A m : GivenUp(m)' <=> GivenUp(m))
      /\ Distinct' <=> Distinct
  BY SameLines DEF files, Distinct
<1>e. /\ camp[c].pc = "off" /\ camp'[c].pc \in {"off", "next"}
      /\ \A d \in Starters : d # c =>
           /\ camp'[d] = camp[d] /\ (On(d)' <=> On(d)) /\ Job(d)' = Job(d)
           /\ (InHand(d)' <=> InHand(d)) /\ (Dirty(d)' <=> Dirty(d))
  BY <1>a, <1>s, <1>d DEF On, InHand, Dirty, Job
<1>1. TypeOK'
  BY <1>t, <1>a, <1>b, <1>d DEF TypeOK
<1>2. PlaceInv'
  BY <1>a, <1>d, <1>e, <1>s DEF IInv, PlaceInv, On, Starters
<1>3. SoloInv'
  BY <1>b, <1>e DEF IInv, SoloInv, Starters
<1>4. OpenInv'
  <2>1. SUFFICES ASSUME ~overlap', Distinct', NEW d \in Starters, On(d)',
                        NEW i \in DOMAIN manifest, StillOpen(d, i)'
                 PROVE  /\ IsOk(manifest[i].id) => manifest[i].id \in camp'[d].completed
                        /\ (i = camp'[d].i /\ camp'[d].pc # "next") => ~IsOk(manifest[i].id)
    BY <1>d DEF OpenInv
  <2>2. CASE d = c
    BY <2>1, <2>2, <1>a, <1>e, <1>s DEF On
  <2>3. CASE d # c
    <3>1. ~overlap /\ Distinct /\ On(d) /\ StillOpen(d, i)
      BY <2>1, <2>3, <1>b, <1>d, <1>e DEF StillOpen
    <3>. QED
      BY <2>3, <3>1, <1>e DEF IInv, OpenInv
  <2>. QED
    BY <2>2, <2>3
<1>5. LastInv'
  BY <1>b, <1>d, SameLast
<1>6. SerialInv'
  <2>1. ~InHand(c)'
    BY <1>e DEF InHand
  <2>. QED
    BY <2>1, <1>d, <1>e DEF IInv, SerialInv, InHand
<1>7. LiveInv'
  BY <1>d, <1>e DEF IInv, LiveInv, WaitsFor
<1>8. ResultsInv'
  BY <1>b, <1>d, <1>e DEF IInv, ResultsInv
<1>9. NetworkInv'
  <2>1. ~Dirty(c)' /\ ~Dirty(c)
    BY <1>e DEF Dirty
  <2>. QED
    BY <2>1, <1>b, <1>d, <1>e DEF IInv, NetworkInv, Starters
<1>. QED
  BY <1>1, <1>2, <1>3, <1>4, <1>5, <1>6, <1>7, <1>8, <1>9 DEF IInv

\* A campaign started by hand.
LEMMA LaunchByHandPreserves ==
  ASSUME IInv, LaunchByHand PROVE IInv'
<1>1. PICK clean \in BOOLEAN : Launch("hand", clean)
  BY DEF LaunchByHand
<1>2. /\ ~On("hand") /\ hands' \in Nat /\ faults' \in Nat /\ "hand" \in Starters
      /\ mn' = mn /\ sup' = sup /\ sup \in {"poll", "judge", "child", "done"}
      /\ UNCHANGED <<files, live, n, orphans>>
  BY DEF LaunchByHand, IInv, TypeOK, On, Starters
<1>. QED
  BY <1>1, <1>2, LaunchPreserves

\* What is not the supervisor's place stays as it is.
LEMMA SamePreserves ==
  ASSUME IInv, UNCHANGED <<files, camp, live, mn, n, orphans, bounds>>,
         sup' \in {"poll", "judge", "child", "done"}, On("child") => sup' = "child"
  PROVE  IInv'
<1>1. /\ manifest' = manifest /\ journal' = journal /\ results' = results /\ torn' = torn
      /\ live' = live /\ n' = n /\ orphans' = orphans /\ camp' = camp /\ mn' = mn
      /\ overlap' = overlap /\ hands' = hands /\ faults' = faults
  BY DEF files, bounds
<1>. QED
  BY <1>1 DEF IInv, TypeOK, PlaceInv, SoloInv, OpenInv, StillOpen, IsOk, Distinct, LastInv,
     SerialInv, LiveInv, ResultsInv, NetworkInv, GivenUp, Dirty, Job, On, InHand, WaitsFor

\* The supervisor's steps.
LEMMA SupervisorPreserves ==
  ASSUME IInv, Supervisor PROVE IInv'
<1>1. CASE SupervisorPoll
  BY <1>1, SamePreserves DEF SupervisorPoll, On, Starters
<1>2. CASE SupervisorChild
  BY <1>2, SamePreserves DEF SupervisorChild, On
<1>3. CASE SupervisorJudge
  <2>1. ~On("child") /\ "child" \in Starters
    BY <1>3 DEF IInv, PlaceInv, SupervisorJudge, Starters
  <2>2. CASE sup' = "done" /\ UNCHANGED <<camp, mn, overlap>>
    BY <1>3, <2>1, <2>2, SamePreserves DEF SupervisorJudge, bounds
  <2>3. CASE sup' = "child" /\ mn' = {} /\ Launch("child", FALSE)
    <3>1. hands' \in Nat /\ faults' \in Nat /\ UNCHANGED <<files, live, n, orphans>>
      BY <1>3 DEF IInv, TypeOK, SupervisorJudge
    <3>2. FALSE \in BOOLEAN
      OBVIOUS
    <3>3. mn' \subseteq mn
      BY <2>3
    <3>. QED
      BY <2>1, <2>3, <3>1, <3>2, <3>3, LaunchPreserves
  <2>. QED
    BY <1>3, <2>2, <2>3 DEF SupervisorJudge
<1>. QED
  BY <1>1, <1>2, <1>3 DEF Supervisor

\* A step of campaign c leaves the other one as it is.
LEMMA OneMoves ==
  ASSUME TypeOK, NEW c \in Starters, NEW s \in CampState, camp' = [camp EXCEPT ![c] = s],
         manifest' = manifest
  PROVE  /\ camp' \in [Starters -> CampState] /\ camp'[c] = s
         /\ \A d \in Starters : d # c =>
              /\ camp'[d] = camp[d] /\ (On(d)' <=> On(d)) /\ Job(d)' = Job(d)
              /\ (InHand(d)' <=> InHand(d)) /\ (Dirty(d)' <=> Dirty(d))
              /\ \A j : WaitsFor(d, j)' <=> WaitsFor(d, j)
<1>1. /\ camp' \in [Starters -> CampState] /\ camp'[c] = s
      /\ \A d \in Starters : d # c => camp'[d] = camp[d]
  BY Others
<1>. QED
  BY <1>1 DEF On, Job, InHand, Dirty, WaitsFor

\* A step of campaign c to a place without an attempt in hand, which writes
\* nothing and starts nothing.
LEMMA IdleMove ==
  ASSUME IInv, NEW c \in Starters, NEW s \in CampState, camp' = [camp EXCEPT ![c] = s],
         On(c), camp[c].pc # "running", s.pc \in {"off", "next", "attempt"},
         s.pc = "attempt" => s.i \in DOMAIN manifest, mn' \subseteq mn,
         UNCHANGED <<files, sup, live, n, orphans, bounds>>
  PROVE  /\ TypeOK' /\ PlaceInv' /\ SoloInv' /\ LastInv' /\ SerialInv' /\ LiveInv' /\ ResultsInv'
         /\ (Distinct' <=> Distinct) /\ (overlap' <=> overlap)
         /\ (\A id : IsOk(id)' <=> IsOk(id)) /\ (\A m : GivenUp(m)' <=> GivenUp(m))
<1>t. TypeOK
  BY DEF IInv
<1>d. /\ manifest' = manifest /\ journal' = journal /\ results' = results /\ torn' = torn
      /\ live' = live /\ n' = n /\ orphans' = orphans /\ sup' = sup
      /\ overlap' = overlap /\ hands' = hands /\ faults' = faults
      /\ (\A id : IsOk(id)' <=> IsOk(id)) /\ (\A m : GivenUp(m)' <=> GivenUp(m))
      /\ Distinct' <=> Distinct
  BY SameLines DEF files, bounds, Distinct
<1>e. /\ camp' \in [Starters -> CampState] /\ camp'[c] = s
      /\ \A d \in Starters : d # c =>
           /\ camp'[d] = camp[d] /\ (On(d)' <=> On(d)) /\ Job(d)' = Job(d)
           /\ (InHand(d)' <=> InHand(d)) /\ (Dirty(d)' <=> Dirty(d))
           /\ \A j : WaitsFor(d, j)' <=> WaitsFor(d, j)
  BY <1>t, <1>d, OneMoves
<1>1. TypeOK'
  BY <1>t, <1>d, <1>e DEF TypeOK
<1>2. PlaceInv'
  BY <1>d, <1>e DEF IInv, PlaceInv, On, Starters
<1>3. SoloInv'
  BY <1>d, <1>e DEF IInv, SoloInv
<1>4. LastInv'
  BY <1>d, SameLast
<1>5. SerialInv'
  <2>1. ~InHand(c)'
    BY <1>e DEF InHand
  <2>. QED
    BY <2>1, <1>d, <1>e DEF IInv, SerialInv, InHand
<1>6. LiveInv'
  BY <1>d, <1>e DEF IInv, LiveInv, WaitsFor
<1>7. ResultsInv'
  BY <1>d, <1>e DEF IInv, ResultsInv
<1>. QED
  BY <1>1, <1>2, <1>3, <1>4, <1>5, <1>6, <1>7, <1>d

\* The campaign turns only to a job that has no ok line.
LEMMA NextJobPreserves ==
  ASSUME IInv, NEW c \in Starters, NextJob(c) PROVE IInv'
<1>t. TypeOK /\ camp[c].pc = "next" /\ On(c)
  BY DEF IInv, NextJob, On
<1>m. Len(manifest) \in Nat /\ DOMAIN manifest = 1..Len(manifest)
  BY <1>t, TypedManifest
<1>f. camp[c] \in CampState /\ camp[c].i \in Nat \ {0}
  BY <1>t, CampFields
<1>s. PICK s \in CampState :
        /\ camp' = [camp EXCEPT ![c] = s]
        /\ \/ s.pc = "off"
           \/ /\ s.pc = "next" /\ s.i = camp[c].i + 1 /\ s.completed = camp[c].completed
           \/ /\ s.pc = "attempt" /\ s.i = camp[c].i /\ s.completed = camp[c].completed
              /\ s.attempt = 1 /\ camp[c].i \in DOMAIN manifest
              /\ Job(c).id \notin camp[c].completed
  <2>1. CASE camp[c].i > Len(manifest)
    BY <2>1, OffFields DEF NextJob
  <2>2. CASE camp[c].i <= Len(manifest) /\ Job(c).id \in camp[c].completed
    <3>. DEFINE e == [camp[c] EXCEPT !.i = @ + 1]
    <3>0. ~(camp[c].i > Len(manifest))
      BY <2>2, <1>f, <1>m
    <3>1. camp' = [camp EXCEPT ![c] = e]
      BY <2>2, <3>0, Zenon DEF NextJob
    <3>2. e \in CampState /\ e.pc = "next" /\ e.i = camp[c].i + 1
          /\ e.completed = camp[c].completed
      BY <1>f, <1>t DEF CampState
    <3>. HIDE DEF e
    <3>. QED
      BY <3>1, <3>2
  <2>3. CASE camp[c].i <= Len(manifest) /\ Job(c).id \notin camp[c].completed
    <3>. DEFINE e == [camp[c] EXCEPT !.pc = "attempt", !.attempt = 1]
    <3>0. ~(camp[c].i > Len(manifest))
      BY <2>3, <1>f, <1>m
    <3>1. camp' = [camp EXCEPT ![c] = e]
      BY <2>3, <3>0, Zenon DEF NextJob
    <3>2. e \in CampState /\ e.pc = "attempt" /\ e.i = camp[c].i /\ e.attempt = 1
          /\ e.completed = camp[c].completed
      BY <1>f, <1>t DEF CampState
    <3>3. camp[c].i \in DOMAIN manifest
      BY <2>3, <1>m, <1>f
    <3>. HIDE DEF e
    <3>. QED
      BY <3>1, <3>2, <3>3, <2>3
  <2>. QED
    BY <2>1, <2>2, <2>3, <1>m, <1>f
<1>u. mn' = mn /\ manifest' = manifest /\ UNCHANGED <<files, sup, live, n, orphans, bounds>>
  BY DEF NextJob, files
<1>e. /\ camp' \in [Starters -> CampState] /\ camp'[c] = s
      /\ \A d \in Starters : d # c =>
           /\ camp'[d] = camp[d] /\ (On(d)' <=> On(d)) /\ Job(d)' = Job(d)
           /\ (InHand(d)' <=> InHand(d)) /\ (Dirty(d)' <=> Dirty(d))
           /\ \A j : WaitsFor(d, j)' <=> WaitsFor(d, j)
  BY <1>t, <1>s, <1>u, OneMoves
<1>1. /\ TypeOK' /\ PlaceInv' /\ SoloInv' /\ LastInv' /\ SerialInv' /\ LiveInv' /\ ResultsInv'
      /\ (Distinct' <=> Distinct) /\ (overlap' <=> overlap)
      /\ (\A id : IsOk(id)' <=> IsOk(id)) /\ (\A m : GivenUp(m)' <=> GivenUp(m))
  BY <1>t, <1>s, <1>u, IdleMove
<1>2. OpenInv'
  <2>1. SUFFICES ASSUME ~overlap, Distinct, NEW d \in Starters, On(d)',
                        NEW i \in DOMAIN manifest, StillOpen(d, i)'
                 PROVE  /\ IsOk(manifest[i].id) => manifest[i].id \in camp'[d].completed
                        /\ (i = camp'[d].i /\ camp'[d].pc # "next") => ~IsOk(manifest[i].id)
    BY <1>1, <1>u DEF OpenInv
  <2>2. d = c
    BY <2>1, <1>e, <1>t DEF IInv, SoloInv
  <2>3. i \in Nat
    BY <1>m
  <2>4. StillOpen(c, i)
    BY <2>1, <2>2, <2>3, <1>e, <1>s, <1>t, <1>f DEF StillOpen, On
  <2>5. IsOk(manifest[i].id) => manifest[i].id \in camp[c].completed
    BY <2>1, <2>4, <1>t DEF IInv, OpenInv
  <2>. QED
    BY <2>1, <2>2, <2>5, <1>e, <1>s DEF On, Job
<1>3. NetworkInv'
  <2>1. ~Dirty(c)' /\ ~Dirty(c)
    BY <1>e, <1>s, <1>t DEF Dirty
  <2>. QED
    BY <2>1, <1>1, <1>e, <1>s, <1>t, <1>u DEF IInv, NetworkInv, Starters, On, NextJob
<1>. QED
  BY <1>1, <1>2, <1>3 DEF IInv

\* The network of a failed attempt is cleaned, or its job is given up.
LEMMA AfterAttemptPreserves ==
  ASSUME IInv, NEW c \in Starters, AfterAttempt(c) PROVE IInv'
<1>t. TypeOK /\ camp[c].pc = "after" /\ On(c)
  BY DEF IInv, AfterAttempt, On
<1>f. /\ camp[c] \in CampState /\ camp[c].i \in Nat \ {0} /\ camp[c].attempt \in {1, 2}
      /\ Len(manifest) \in Nat /\ DOMAIN manifest = 1..Len(manifest)
      /\ camp[c].i \in DOMAIN manifest
  BY <1>t, CampFields, TypedManifest DEF IInv, PlaceInv
<1>s. PICK s \in CampState :
        /\ camp' = [camp EXCEPT ![c] = s] /\ s.completed = camp[c].completed
        /\ \/ /\ s.pc = "next" /\ s.i = camp[c].i + 1
              /\ camp[c].status = "ok" \/ camp[c].attempt = 2
              /\ mn' \subseteq mn
           \/ /\ s.pc = "attempt" /\ s.i = camp[c].i /\ camp[c].status # "ok"
              /\ mn' = {}
  <2>1. /\ Retry(c) \in CampState /\ Retry(c).pc = "attempt" /\ Retry(c).attempt = 2
        /\ Retry(c).i = camp[c].i /\ Retry(c).completed = camp[c].completed
        /\ MoveOn(c) \in CampState /\ MoveOn(c).pc = "next" /\ MoveOn(c).i = camp[c].i + 1
        /\ MoveOn(c).completed = camp[c].completed
    BY <1>t, TypedMoves
  <2>2. CASE camp[c].status = "ok"
    <3>1. camp' = [camp EXCEPT ![c] = MoveOn(c)] /\ mn' \subseteq mn
      BY <2>2 DEF AfterAttempt
    <3>. QED
      BY <2>1, <2>2, <3>1
  <2>3. CASE camp[c].status # "ok" /\ camp[c].attempt = 1
    BY <2>1, <2>3 DEF AfterAttempt
  <2>4. CASE camp[c].status # "ok" /\ camp[c].attempt = 2
    <3>1. camp' = [camp EXCEPT ![c] = MoveOn(c)] /\ mn' = mn
      BY <2>4 DEF AfterAttempt
    <3>. QED
      BY <2>1, <2>4, <3>1
  <2>. QED
    BY <2>2, <2>3, <2>4, <1>f
<1>u. manifest' = manifest /\ mn' \subseteq mn /\ UNCHANGED <<files, sup, live, n, orphans, bounds>>
  BY <1>s DEF AfterAttempt, files
<1>e. /\ camp' \in [Starters -> CampState] /\ camp'[c] = s
      /\ \A d \in Starters : d # c =>
           /\ camp'[d] = camp[d] /\ (On(d)' <=> On(d)) /\ Job(d)' = Job(d)
           /\ (InHand(d)' <=> InHand(d)) /\ (Dirty(d)' <=> Dirty(d))
           /\ \A j : WaitsFor(d, j)' <=> WaitsFor(d, j)
  BY <1>t, <1>s, <1>u, OneMoves
<1>1. /\ TypeOK' /\ PlaceInv' /\ SoloInv' /\ LastInv' /\ SerialInv' /\ LiveInv' /\ ResultsInv'
      /\ (Distinct' <=> Distinct) /\ (overlap' <=> overlap)
      /\ (\A id : IsOk(id)' <=> IsOk(id)) /\ (\A m : GivenUp(m)' <=> GivenUp(m))
  BY <1>t, <1>f, <1>s, <1>u, IdleMove
<1>2. OpenInv'
  <2>1. SUFFICES ASSUME ~overlap, Distinct, NEW d \in Starters, On(d)',
                        NEW i \in DOMAIN manifest, StillOpen(d, i)'
                 PROVE  /\ IsOk(manifest[i].id) => manifest[i].id \in camp'[d].completed
                        /\ (i = camp'[d].i /\ camp'[d].pc # "next") => ~IsOk(manifest[i].id)
    BY <1>1, <1>u DEF OpenInv
  <2>2. d = c
    BY <2>1, <1>e, <1>t DEF IInv, SoloInv
  <2>3. i \in Nat
    BY <1>f
  <2>4. StillOpen(c, i)
    BY <2>1, <2>2, <2>3, <1>e, <1>s, <1>t, <1>f DEF StillOpen
  <2>5. /\ IsOk(manifest[i].id) => manifest[i].id \in camp[c].completed
        /\ i = camp[c].i => ~IsOk(manifest[i].id)
    BY <2>1, <2>4, <1>t DEF IInv, OpenInv
  <2>. QED
    BY <2>2, <2>5, <1>e, <1>s
<1>3. NetworkInv'
  <2>1. ~Dirty(c)' /\ (Dirty(c) => mn' = {})
    BY <1>e, <1>s, <1>t DEF Dirty
  <2>2. camp'[c].pc = "attempt" => mn' = {}
    BY <1>e, <1>s
  <2>3. SUFFICES ASSUME ~overlap
                 PROVE  /\ \A m \in mn' : \/ GivenUp(m) \/ m \in orphans
                                          \/ \E d \in Starters : Dirty(d)' /\ m = camp'[d].n
                        /\ On("child")' =>
                             \A m \in mn' : GivenUp(m) \/ (Dirty("child")' /\ m = camp'["child"].n)
                        /\ \A d \in Starters :
                             camp'[d].pc = "attempt" /\ camp'[d].attempt = 2 => mn' = {}
    BY <1>1, <1>u DEF NetworkInv
  <2>4. \A m \in mn : \/ GivenUp(m) \/ m \in orphans
                      \/ \E d \in Starters : Dirty(d) /\ m = camp[d].n
    BY <2>3 DEF IInv, NetworkInv
  <2>5. On("child") => \A m \in mn : GivenUp(m) \/ (Dirty("child") /\ m = camp["child"].n)
    BY <2>3 DEF IInv, NetworkInv
  <2>6. \A d \in Starters : camp[d].pc = "attempt" /\ camp[d].attempt = 2 => mn = {}
    BY <2>3 DEF IInv, NetworkInv
  <2>7. On("child") <=> On("child")'
    BY <1>e, <1>s, <1>t DEF On, Starters
  <2>. QED
    BY <2>1, <2>2, <2>4, <2>5, <2>6, <2>7, <1>e, <1>u DEF Starters
<1>. QED
  BY <1>1, <1>2, <1>3 DEF IInv

\* A skipped job gets a line that is not ok.
LEMMA SkipMemoryPreserves ==
  ASSUME IInv, NEW c \in Starters, SkipMemory(c) PROVE IInv'
<1>t. TypeOK /\ PlaceInv /\ camp[c].pc = "attempt" /\ On(c) /\ camp[c].i \in DOMAIN manifest
  BY DEF IInv, PlaceInv, SkipMemory, On
<1>f. /\ camp[c].i \in Nat \ {0}
      /\ Len(manifest) \in Nat /\ DOMAIN manifest = 1..Len(manifest)
  BY <1>t, CampFields, TypedManifest
<1>s. PICK s \in CampState :
        /\ camp' = [camp EXCEPT ![c] = s] /\ s.pc = "next" /\ s.i = camp[c].i + 1
        /\ s.completed = camp[c].completed
  BY <1>t, TypedMoves DEF SkipMemory
<1>l. PICK l \in JournalLine :
        journal' = Append(journal, l) /\ l.id = Job(c).id /\ l.status = "skipped_memory"
  BY <1>t, TypedLine DEF SkipMemory
<1>u. /\ manifest' = manifest /\ torn' = torn /\ results' = results /\ sup' = sup
      /\ live' = live /\ mn' = mn /\ n' = n /\ orphans' = orphans
      /\ overlap' = overlap /\ hands' = hands /\ faults' = faults
      /\ Distinct' <=> Distinct
  BY DEF SkipMemory, bounds, Distinct
<1>e. /\ camp' \in [Starters -> CampState] /\ camp'[c] = s
      /\ \A d \in Starters : d # c =>
           /\ camp'[d] = camp[d] /\ (On(d)' <=> On(d)) /\ Job(d)' = Job(d)
           /\ (InHand(d)' <=> InHand(d)) /\ (Dirty(d)' <=> Dirty(d))
           /\ \A j : WaitsFor(d, j)' <=> WaitsFor(d, j)
  BY <1>t, <1>s, <1>u, OneMoves
<1>b. /\ journal' \in Seq(JournalLine)
      /\ \A k \in DOMAIN journal' :
           (k \in DOMAIN journal /\ journal'[k] = journal[k]) \/ journal'[k] = l
      /\ \A id : IsOk(id)' <=> IsOk(id)
      /\ \A m : GivenUp(m) => GivenUp(m)'
  BY <1>t, <1>l, NewLine, TypedLines
<1>o. ~overlap /\ Distinct => ~IsOk(Job(c).id)
  BY <1>t DEF IInv, OpenInv, StillOpen, Job
<1>1. TypeOK'
  BY <1>t, <1>u, <1>e, <1>b DEF TypeOK
<1>2. PlaceInv'
  BY <1>t, <1>e, <1>s, <1>u DEF PlaceInv, On, Starters
<1>3. SoloInv'
  BY <1>t, <1>e, <1>u DEF IInv, SoloInv
<1>4. OpenInv'
  <2>1. SUFFICES ASSUME ~overlap, Distinct, NEW d \in Starters, On(d)',
                        NEW i \in DOMAIN manifest, StillOpen(d, i)'
                 PROVE  /\ IsOk(manifest[i].id) => manifest[i].id \in camp'[d].completed
                        /\ (i = camp'[d].i /\ camp'[d].pc # "next") => ~IsOk(manifest[i].id)
    BY <1>b, <1>u DEF OpenInv
  <2>2. d = c
    BY <2>1, <1>e, <1>t DEF IInv, SoloInv
  <2>3. i \in Nat
    BY <1>f
  <2>4. StillOpen(c, i)
    BY <2>1, <2>2, <2>3, <1>e, <1>s, <1>t, <1>f DEF StillOpen
  <2>5. IsOk(manifest[i].id) => manifest[i].id \in camp[c].completed
    BY <2>1, <2>4, <1>t DEF IInv, OpenInv
  <2>. QED
    BY <2>2, <2>5, <1>e, <1>s
<1>5. LastInv'
  BY <1>l, <1>o, <1>u, LastExtends
<1>6. SerialInv'
  <2>1. ~InHand(c)'
    BY <1>e, <1>s DEF InHand
  <2>. QED
    BY <2>1, <1>u, <1>e DEF IInv, SerialInv, InHand
<1>7. LiveInv'
  BY <1>t, <1>u, <1>e DEF IInv, LiveInv, WaitsFor
<1>8. ResultsInv'
  <2>1. \A k \in DOMAIN journal' : journal'[k].status = "ok" =>
          k \in DOMAIN journal /\ journal'[k] = journal[k]
    BY <1>b, <1>l
  <2>. QED
    BY <2>1, <1>u, <1>e, <1>s DEF IInv, ResultsInv
<1>9. NetworkInv'
  <2>1. ~Dirty(c)' /\ ~Dirty(c)
    BY <1>e, <1>s, <1>t DEF Dirty
  <2>. QED
    BY <2>1, <1>b, <1>e, <1>s, <1>t, <1>u DEF IInv, NetworkInv, Starters, On
<1>. QED
  BY <1>1, <1>2, <1>3, <1>4, <1>5, <1>6, <1>7, <1>8, <1>9 DEF IInv

\* The line of the attempt is the last of its job, and its results are there.
LEMMA AppendStatePreserves ==
  ASSUME IInv, NEW c \in Starters, AppendState(c) PROVE IInv'
<1>t. TypeOK /\ PlaceInv /\ camp[c].pc = "append" /\ On(c) /\ camp[c].i \in DOMAIN manifest
  BY DEF IInv, PlaceInv, AppendState, On
<1>f. /\ camp[c] \in CampState /\ camp[c].i \in Nat \ {0} /\ camp[c].n \in Nat
      /\ camp[c].status \in {"ok", "failed", "timeout"} /\ camp[c].attempt \in {1, 2}
      /\ Len(manifest) \in Nat /\ DOMAIN manifest = 1..Len(manifest)
  BY <1>t, CampFields, TypedManifest
<1>s. PICK s \in CampState :
        /\ camp' = [camp EXCEPT ![c] = s] /\ s.pc = "after" /\ s.i = camp[c].i
        /\ s.completed = camp[c].completed /\ s.n = camp[c].n /\ s.status = camp[c].status
        /\ s.attempt = camp[c].attempt
  <2>. DEFINE e == [camp[c] EXCEPT !.pc = "after"]
  <2>1. camp' = [camp EXCEPT ![c] = e]
    BY DEF AppendState
  <2>2. /\ e \in CampState /\ e.pc = "after" /\ e.i = camp[c].i /\ e.completed = camp[c].completed
        /\ e.n = camp[c].n /\ e.status = camp[c].status /\ e.attempt = camp[c].attempt
    BY <1>f DEF CampState
  <2>. HIDE DEF e
  <2>. QED
    BY <2>1, <2>2
<1>l. PICK l \in JournalLine :
        /\ journal' = Append(journal, l) /\ l.id = Job(c).id /\ l.status = camp[c].status
        /\ l.attempt = camp[c].attempt /\ l.n = camp[c].n
  <2>1. camp[c].status \in {"ok", "failed", "timeout", "skipped_memory"}
    BY <1>f
  <2>. QED
    BY <1>t, <1>f, <2>1, TypedLine DEF AppendState
<1>u. /\ manifest' = manifest /\ torn' = torn /\ results' = results /\ sup' = sup
      /\ live' = live /\ mn' = mn /\ n' = n /\ orphans' = orphans
      /\ overlap' = overlap /\ hands' = hands /\ faults' = faults
      /\ Distinct' <=> Distinct
  BY DEF AppendState, bounds, Distinct
<1>e. /\ camp' \in [Starters -> CampState] /\ camp'[c] = s
      /\ \A d \in Starters : d # c =>
           /\ camp'[d] = camp[d] /\ (On(d)' <=> On(d)) /\ Job(d)' = Job(d)
           /\ (InHand(d)' <=> InHand(d)) /\ (Dirty(d)' <=> Dirty(d))
           /\ \A j : WaitsFor(d, j)' <=> WaitsFor(d, j)
  BY <1>t, <1>s, <1>u, OneMoves
<1>b. /\ journal' \in Seq(JournalLine)
      /\ \A k \in DOMAIN journal' :
           (k \in DOMAIN journal /\ journal'[k] = journal[k]) \/ journal'[k] = l
      /\ \A id : IsOk(id)' <=> IsOk(id) \/ (l.id = id /\ l.status = "ok")
      /\ \A m : GivenUp(m) => GivenUp(m)'
      /\ l.attempt = 2 /\ l.status \in {"failed", "timeout"} => GivenUp(l.n)'
  BY <1>t, <1>l, NewLine, TypedLines
<1>o. ~overlap /\ Distinct => ~IsOk(Job(c).id)
  BY <1>t DEF IInv, OpenInv, StillOpen, Job
<1>1. TypeOK'
  BY <1>t, <1>u, <1>e, <1>b DEF TypeOK
<1>2. PlaceInv'
  BY <1>t, <1>e, <1>s, <1>u DEF PlaceInv, On, Starters
<1>3. SoloInv'
  BY <1>t, <1>e, <1>u DEF IInv, SoloInv
<1>4. OpenInv'
  <2>1. SUFFICES ASSUME ~overlap, Distinct, NEW d \in Starters, On(d)',
                        NEW i \in DOMAIN manifest, StillOpen(d, i)'
                 PROVE  /\ IsOk(manifest[i].id)' => manifest[i].id \in camp'[d].completed
                        /\ (i = camp'[d].i /\ camp'[d].pc # "next") => ~IsOk(manifest[i].id)'
    BY <1>u DEF OpenInv
  <2>2. d = c
    BY <2>1, <1>e, <1>t DEF IInv, SoloInv
  <2>3. i \in Nat
    BY <1>f
  <2>4. StillOpen(c, i)
    BY <2>1, <2>2, <2>3, <1>e, <1>s, <1>t, <1>f DEF StillOpen
  <2>5. /\ IsOk(manifest[i].id) => manifest[i].id \in camp[c].completed
        /\ i = camp[c].i => ~IsOk(manifest[i].id)
    BY <2>1, <2>4, <1>t DEF IInv, OpenInv
  <2>6. IsOk(manifest[i].id)' <=> IsOk(manifest[i].id)
    <3>1. CASE l.status # "ok"
      BY <3>1, <1>b, <1>u
    <3>2. CASE l.status = "ok"
      <4>1. i # camp[c].i
        BY <3>2, <2>1, <2>2, <2>3, <1>e, <1>s, <1>f, <1>l DEF StillOpen
      <4>2. manifest[i].id # l.id
        BY <4>1, <2>1, <1>t, <1>l DEF Distinct, Job
      <4>. QED
        BY <4>2, <1>b, <1>u
    <3>. QED
      BY <3>1, <3>2
  <2>. QED
    BY <2>2, <2>5, <2>6, <1>e, <1>s
<1>5. LastInv'
  BY <1>l, <1>o, <1>u, LastExtends
<1>6. SerialInv'
  <2>1. InHand(c)' /\ InHand(c) /\ camp'[c].n = camp[c].n /\ camp'[c].pc # "running"
    BY <1>t, <1>e, <1>s DEF InHand
  <2>. QED
    BY <2>1, <1>u, <1>e DEF IInv, SerialInv
<1>7. LiveInv'
  BY <1>t, <1>u, <1>e DEF IInv, LiveInv, WaitsFor
<1>8. ResultsInv'
  <2>1. ASSUME ~overlap, Distinct, NEW i \in DOMAIN manifest, NEW k \in DOMAIN journal',
               manifest[i].kind = "disaster", journal'[k].id = manifest[i].id,
               journal'[k].status = "ok"
        PROVE  results[manifest[i].id] \in {journal'[k].n} \cup orphans
    <3>1. CASE k \in DOMAIN journal /\ journal'[k] = journal[k]
      BY <2>1, <3>1 DEF IInv, ResultsInv
    <3>2. CASE journal'[k] = l
      <4>1. i = camp[c].i
        BY <2>1, <3>2, <1>l, <1>t DEF Distinct, Job
      <4>2. /\ camp[c].status = "ok" /\ Job(c).kind = "disaster" /\ journal'[k].n = camp[c].n
            /\ Job(c).id = manifest[i].id
        BY <4>1, <2>1, <3>2, <1>l DEF Job
      <4>. QED
        BY <2>1, <4>2, <1>t DEF IInv, ResultsInv
    <3>. QED
      BY <3>1, <3>2, <1>b
  <2>2. \A d \in Starters : camp'[d].pc = "append" => d # c
    BY <1>e, <1>s
  <2>. QED
    BY <2>1, <2>2, <1>u, <1>e DEF IInv, ResultsInv
<1>9. NetworkInv'
  <2>1. /\ Dirty(c) <=> camp[c].status # "ok"
        /\ Dirty(c)' <=> camp[c].status # "ok" /\ camp[c].attempt = 1
        /\ camp'[c].n = camp[c].n
    BY <1>t, <1>e, <1>s DEF Dirty
  <2>2. Dirty(c) /\ ~Dirty(c)' => GivenUp(camp[c].n)'
    BY <2>1, <1>b, <1>l, <1>f
  <2>3. SUFFICES ASSUME ~overlap
                 PROVE  /\ \A m \in mn : \/ GivenUp(m)' \/ m \in orphans
                                         \/ \E d \in Starters : Dirty(d)' /\ m = camp'[d].n
                        /\ On("child")' =>
                             \A m \in mn : GivenUp(m)' \/ (Dirty("child")' /\ m = camp'["child"].n)
                        /\ \A d \in Starters :
                             camp'[d].pc = "attempt" /\ camp'[d].attempt = 2 => mn = {}
    BY <1>u DEF NetworkInv
  <2>4. \A m \in mn : \/ GivenUp(m) \/ m \in orphans
                      \/ \E d \in Starters : Dirty(d) /\ m = camp[d].n
    BY <2>3 DEF IInv, NetworkInv
  <2>5. On("child") => \A m \in mn : GivenUp(m) \/ (Dirty("child") /\ m = camp["child"].n)
    BY <2>3 DEF IInv, NetworkInv
  <2>6. \A d \in Starters : camp[d].pc = "attempt" /\ camp[d].attempt = 2 => mn = {}
    BY <2>3 DEF IInv, NetworkInv
  <2>7. On("child") <=> On("child")'
    BY <1>e, <1>s, <1>t DEF On, Starters
  <2>. QED
    BY <2>1, <2>2, <2>4, <2>5, <2>6, <2>7, <1>b, <1>e, <1>s DEF Starters
<1>. QED
  BY <1>1, <1>2, <1>3, <1>4, <1>5, <1>6, <1>7, <1>8, <1>9 DEF IInv

\* A new attempt has a number of its own, and its campaign waits for it.
LEMMA StartJobPreserves ==
  ASSUME IInv, NEW c \in Starters, StartJob(c) PROVE IInv'
<1>t. TypeOK /\ PlaceInv /\ camp[c].pc = "attempt" /\ On(c) /\ camp[c].i \in DOMAIN manifest
  BY DEF IInv, PlaceInv, StartJob, On
<1>f. /\ camp[c] \in CampState /\ n \in Nat
      /\ Job(c).id \in AllIds /\ Job(c).kind \in STRING
  BY <1>t, CampFields, TypedManifest DEF TypeOK, Job
<1>s. PICK s \in CampState :
        /\ camp' = [camp EXCEPT ![c] = s] /\ s.pc = "running" /\ s.i = camp[c].i
        /\ s.completed = camp[c].completed /\ s.n = n + 1
  <2>. DEFINE e == [camp[c] EXCEPT !.pc = "running", !.n = n + 1]
  <2>1. camp' = [camp EXCEPT ![c] = e]
    BY DEF StartJob
  <2>2. /\ e \in CampState /\ e.pc = "running" /\ e.i = camp[c].i
        /\ e.completed = camp[c].completed /\ e.n = n + 1
    <3>1. ASSUME NEW z \in CampState, NEW m \in Nat
          PROVE  LET r == [z EXCEPT !.pc = "running", !.n = m]
                 IN  /\ r \in CampState /\ r.pc = "running" /\ r.i = z.i
                     /\ r.completed = z.completed /\ r.n = m
      BY DEF CampState
    <3>2. n + 1 \in Nat
      BY <1>f
    <3>. QED
      BY <3>1, <3>2, <1>f, Zenon
  <2>. HIDE DEF e
  <2>. QED
    BY <2>1, <2>2
<1>u. /\ manifest' = manifest /\ journal' = journal /\ torn' = torn /\ results' = results
      /\ sup' = sup /\ mn' = mn \cup {n + 1} /\ n' = n + 1 /\ orphans' = orphans
      /\ overlap' = overlap /\ hands' = hands /\ faults' = faults
      /\ (\A id : IsOk(id)' <=> IsOk(id)) /\ (\A m : GivenUp(m)' <=> GivenUp(m))
      /\ Distinct' <=> Distinct
  BY SameLines DEF StartJob, files, bounds, Distinct
<1>j. PICK new \in Serial :
        /\ live' = live \cup {new} /\ new.n = n + 1 /\ new.id = Job(c).id
        /\ new.kind = Job(c).kind /\ ~new.wrote
  <2>. DEFINE e == build_job_command(Job(c))
  <2>1. /\ e.n = n + 1 /\ e.id = Job(c).id /\ e.kind = Job(c).kind /\ ~e.wrote
    BY DEF build_job_command
  <2>2. n + 1 \in Nat
    BY <1>f
  <2>3. e \in Serial
    BY <1>f, <2>2 DEF build_job_command, Serial
  <2>4. live' = live \cup {e}
    BY DEF StartJob
  <2>. HIDE DEF e
  <2>. QED
    BY <2>1, <2>3, <2>4
<1>e. /\ camp' \in [Starters -> CampState] /\ camp'[c] = s
      /\ \A d \in Starters : d # c =>
           /\ camp'[d] = camp[d] /\ (On(d)' <=> On(d)) /\ Job(d)' = Job(d)
           /\ (InHand(d)' <=> InHand(d)) /\ (Dirty(d)' <=> Dirty(d))
           /\ \A j : WaitsFor(d, j)' <=> WaitsFor(d, j)
  BY <1>t, <1>s, <1>u, OneMoves
<1>g. On(c)' /\ InHand(c)' /\ Dirty(c)' /\ Job(c)' = Job(c) /\ camp'[c].n = n + 1
  BY <1>e, <1>s, <1>u DEF On, InHand, Dirty, Job
<1>1. TypeOK'
  <2>1. n' \in Nat /\ mn' \subseteq 1..n' /\ orphans' \subseteq 1..n'
    BY <1>t, <1>u DEF TypeOK
  <2>. QED
    BY <2>1, <1>t, <1>u, <1>e, <1>j DEF TypeOK
<1>2. PlaceInv'
  BY <1>t, <1>e, <1>s, <1>u DEF PlaceInv, On, Starters
<1>3. SoloInv'
  BY <1>t, <1>e, <1>u DEF IInv, SoloInv
<1>4. OpenInv'
  <2>1. SUFFICES ASSUME ~overlap, Distinct, NEW d \in Starters, On(d)',
                        NEW i \in DOMAIN manifest, StillOpen(d, i)'
                 PROVE  /\ IsOk(manifest[i].id) => manifest[i].id \in camp'[d].completed
                        /\ (i = camp'[d].i /\ camp'[d].pc # "next") => ~IsOk(manifest[i].id)
    BY <1>u DEF OpenInv
  <2>2. d = c
    BY <2>1, <1>e, <1>t DEF IInv, SoloInv
  <2>3. StillOpen(c, i)
    BY <2>1, <2>2, <1>e, <1>s, <1>t DEF StillOpen
  <2>4. /\ IsOk(manifest[i].id) => manifest[i].id \in camp[c].completed
        /\ i = camp[c].i => ~IsOk(manifest[i].id)
    BY <2>1, <2>3, <1>t DEF IInv, OpenInv
  <2>. QED
    BY <2>2, <2>4, <1>e, <1>s
<1>5. LastInv'
  BY <1>u, SameLast
<1>6. SerialInv'
  <2>1. /\ \A j \in live : j.n \in 1..n
        /\ \A j, k \in live : j.n = k.n => j = k
    BY DEF IInv, SerialInv
  <2>2. /\ \A d \in Starters : InHand(d) => camp[d].n \in 1..n
        /\ \A a, b \in Starters : InHand(a) /\ InHand(b) /\ camp[a].n = camp[b].n => a = b
        /\ \A d \in Starters : camp[d].pc = "running" => camp[d].n \notin orphans
    BY DEF IInv, SerialInv
  <2>3. n + 1 \notin 1..n /\ n + 1 \notin orphans /\ 1..n \subseteq 1..(n + 1) /\ n + 1 \in 1..(n + 1)
    BY <1>f, <1>t DEF TypeOK
  <2>4. /\ \A j \in live' : j.n \in 1..n'
        /\ \A j, k \in live' : j.n = k.n => j = k
    BY <2>1, <2>3, <1>j, <1>u
  <2>5. \A d \in Starters : InHand(d)' => camp'[d].n \in 1..n'
    BY <2>2, <2>3, <1>e, <1>g, <1>u
  <2>6. \A a, b \in Starters : InHand(a)' /\ InHand(b)' /\ camp'[a].n = camp'[b].n => a = b
    BY <2>2, <2>3, <1>e, <1>g
  <2>7. \A d \in Starters : camp'[d].pc = "running" => camp'[d].n \notin orphans
    BY <2>2, <2>3, <1>e, <1>g
  <2>. QED
    BY <2>4, <2>5, <2>6, <2>7, <1>u DEF SerialInv
<1>7. LiveInv'
  <2>1. SUFFICES ASSUME NEW j \in live'
                 PROVE  \/ j.n \in orphans
                        \/ \E d \in Starters :
                             WaitsFor(d, j)' /\ j.id = Job(d)'.id /\ j.kind = Job(d)'.kind
    BY <1>u DEF LiveInv
  <2>2. CASE j = new
    BY <2>2, <1>j, <1>g, <1>e, <1>s DEF WaitsFor
  <2>3. CASE j \in live
    BY <2>3, <1>t, <1>e DEF IInv, LiveInv, WaitsFor
  <2>. QED
    BY <2>2, <2>3, <1>j
<1>8. ResultsInv'
  <2>1. \A j \in live' : j.wrote => j \in live
    BY <1>j
  <2>2. \A d \in Starters : camp'[d].pc = "append" => d # c
    BY <1>e, <1>s
  <2>. QED
    BY <2>1, <2>2, <1>u, <1>e DEF IInv, ResultsInv
<1>9. NetworkInv'
  <2>1. ~Dirty(c)
    BY <1>t DEF Dirty
  <2>2. On("child") <=> On("child")'
    BY <1>e, <1>s, <1>t DEF On, Starters
  <2>3. SUFFICES ASSUME ~overlap
                 PROVE  /\ \A m \in mn' : \/ GivenUp(m) \/ m \in orphans
                                          \/ \E d \in Starters : Dirty(d)' /\ m = camp'[d].n
                        /\ On("child")' =>
                             \A m \in mn' : GivenUp(m) \/ (Dirty("child")' /\ m = camp'["child"].n)
                        /\ \A d \in Starters :
                             camp'[d].pc = "attempt" /\ camp'[d].attempt = 2 => mn' = {}
    BY <1>u DEF NetworkInv
  <2>4. \A d \in Starters : On(d) => d = c
    BY <2>3, <1>t DEF IInv, SoloInv
  <2>5. \A d \in Starters : camp'[d].pc = "attempt" => FALSE
    BY <2>4, <1>e, <1>s DEF On
  <2>6. \A m \in mn : \/ GivenUp(m) \/ m \in orphans
                      \/ \E d \in Starters : Dirty(d) /\ m = camp[d].n
    BY <2>3 DEF IInv, NetworkInv
  <2>7. On("child") => \A m \in mn : GivenUp(m) \/ (Dirty("child") /\ m = camp["child"].n)
    BY <2>3 DEF IInv, NetworkInv
  <2>8. \A m \in mn' : \/ GivenUp(m) \/ m \in orphans
                       \/ \E d \in Starters : Dirty(d)' /\ m = camp'[d].n
    BY <2>1, <2>6, <1>e, <1>g, <1>u
  <2>9. On("child")' =>
          \A m \in mn' : GivenUp(m) \/ (Dirty("child")' /\ m = camp'["child"].n)
    <3>1. SUFFICES ASSUME On("child")
                   PROVE  \A m \in mn' : GivenUp(m) \/ (Dirty("child")' /\ m = camp'["child"].n)
      BY <2>2
    <3>2. c = "child"
      BY <3>1, <2>4 DEF Starters
    <3>. QED
      BY <3>1, <3>2, <2>1, <2>7, <1>g, <1>u
  <2>. QED
    BY <2>5, <2>8, <2>9
<1>. QED
  BY <1>1, <1>2, <1>3, <1>4, <1>5, <1>6, <1>7, <1>8, <1>9 DEF IInv

\* A timed out attempt is dead or becomes an orphan.
LEMMA TimeoutPreserves ==
  ASSUME IInv, NEW c \in Starters, Timeout(c) PROVE IInv'
<1>j. PICK j \in live :
        /\ camp[c].pc = "running" /\ j.n = camp[c].n /\ faults' \in Nat
        /\ \/ live' = live \ {j} /\ orphans' = orphans
           \/ live' = live /\ orphans' = orphans \cup {j.n}
        /\ camp' = [camp EXCEPT ![c] = Ended(c, "timeout")]
        /\ UNCHANGED <<files, sup, mn, n, overlap, hands>>
  BY DEF Timeout, WaitsFor, IInv, TypeOK
<1>t. TypeOK /\ PlaceInv /\ On(c)
  BY <1>j DEF IInv, On
<1>s. PICK s \in CampState :
        /\ camp' = [camp EXCEPT ![c] = s] /\ s.pc = "append" /\ s.i = camp[c].i
        /\ s.completed = camp[c].completed /\ s.n = camp[c].n /\ s.status = "timeout"
  BY <1>t, <1>j, TypedMoves
<1>u. /\ manifest' = manifest /\ journal' = journal /\ torn' = torn /\ results' = results
      /\ sup' = sup /\ mn' = mn /\ n' = n /\ overlap' = overlap /\ hands' = hands
      /\ (\A id : IsOk(id)' <=> IsOk(id)) /\ (\A m : GivenUp(m)' <=> GivenUp(m))
      /\ Distinct' <=> Distinct
  BY <1>j, SameLines DEF files, Distinct
<1>e. /\ camp' \in [Starters -> CampState] /\ camp'[c] = s
      /\ \A d \in Starters : d # c =>
           /\ camp'[d] = camp[d] /\ (On(d)' <=> On(d)) /\ Job(d)' = Job(d)
           /\ (InHand(d)' <=> InHand(d)) /\ (Dirty(d)' <=> Dirty(d))
           /\ \A k : WaitsFor(d, k)' <=> WaitsFor(d, k)
  BY <1>t, <1>s, <1>u, OneMoves
<1>g. /\ On(c)' /\ InHand(c)' /\ InHand(c) /\ Dirty(c)' /\ Dirty(c) /\ camp'[c].n = camp[c].n
      /\ live' \subseteq live /\ orphans \subseteq orphans'
  BY <1>e, <1>s, <1>j DEF On, InHand, Dirty
<1>n. \A k \in live : k.n \in 1..n
  BY DEF IInv, SerialInv
<1>1. TypeOK'
  <2>1. orphans' \subseteq 1..n
    BY <1>j, <1>n, <1>t DEF TypeOK
  <2>. QED
    BY <2>1, <1>t, <1>j, <1>u, <1>e, <1>g DEF TypeOK
<1>2. PlaceInv'
  BY <1>t, <1>j, <1>e, <1>s, <1>u DEF PlaceInv, On, Starters
<1>3. SoloInv'
  BY <1>t, <1>e, <1>u DEF IInv, SoloInv
<1>4. OpenInv'
  <2>1. SUFFICES ASSUME ~overlap, Distinct, NEW d \in Starters, On(d)',
                        NEW i \in DOMAIN manifest, StillOpen(d, i)'
                 PROVE  /\ IsOk(manifest[i].id) => manifest[i].id \in camp'[d].completed
                        /\ (i = camp'[d].i /\ camp'[d].pc # "next") => ~IsOk(manifest[i].id)
    BY <1>u DEF OpenInv
  <2>2. d = c
    BY <2>1, <1>e, <1>t DEF IInv, SoloInv
  <2>3. StillOpen(c, i)
    BY <2>1, <2>2, <1>e, <1>s, <1>j DEF StillOpen
  <2>4. /\ IsOk(manifest[i].id) => manifest[i].id \in camp[c].completed
        /\ i = camp[c].i => ~IsOk(manifest[i].id)
    BY <2>1, <2>3, <1>t, <1>j DEF IInv, OpenInv
  <2>. QED
    BY <2>2, <2>4, <1>e, <1>s
<1>5. LastInv'
  BY <1>u, SameLast
<1>6. SerialInv'
  <2>1. \A d \in Starters : InHand(d)' <=> InHand(d)
    BY <1>e, <1>g
  <2>2. \A d \in Starters : camp'[d].n = camp[d].n
    BY <1>e, <1>g
  <2>3. \A d \in Starters : camp'[d].pc = "running" => camp[d].pc = "running" /\ d # c
    BY <1>e, <1>s
  <2>4. /\ \A a, b \in live : a.n = b.n => a = b
        /\ \A d \in Starters : InHand(d) => camp[d].n \in 1..n
        /\ \A a, b \in Starters : InHand(a) /\ InHand(b) /\ camp[a].n = camp[b].n => a = b
        /\ \A d \in Starters : camp[d].pc = "running" => camp[d].n \notin orphans
    BY DEF IInv, SerialInv
  <2>5. \A d \in Starters : camp'[d].pc = "running" => camp'[d].n \notin orphans'
    <3>1. SUFFICES ASSUME NEW d \in Starters, camp'[d].pc = "running"
                   PROVE  camp[d].n \notin orphans'
      BY <2>2
    <3>2. InHand(d) /\ d # c /\ camp[d].n \notin orphans
      BY <3>1, <2>3, <2>4 DEF InHand
    <3>3. camp[d].n # j.n
      BY <3>2, <2>4, <1>g, <1>j
    <3>. QED
      BY <3>2, <3>3, <1>j
  <2>. QED
    BY <2>1, <2>2, <2>4, <2>5, <1>g, <1>n, <1>u DEF SerialInv
<1>7. LiveInv'
  <2>1. SUFFICES ASSUME NEW k \in live'
                 PROVE  \/ k.n \in orphans'
                        \/ \E d \in Starters :
                             WaitsFor(d, k)' /\ k.id = Job(d)'.id /\ k.kind = Job(d)'.kind
    BY DEF LiveInv
  <2>2. k \in live
    BY <2>1, <1>g
  <2>3. CASE k.n \in orphans
    BY <2>3, <1>g
  <2>4. CASE k.n \notin orphans
    <3>1. PICK d \in Starters : WaitsFor(d, k) /\ k.id = Job(d).id /\ k.kind = Job(d).kind
      BY <2>2, <2>4 DEF IInv, LiveInv
    <3>2. CASE d # c
      BY <3>1, <3>2, <1>e
    <3>3. CASE d = c
      <4>1. k.n = j.n /\ k = j
        BY <3>1, <3>3, <2>2, <1>j DEF WaitsFor, IInv, SerialInv
      <4>. QED
        BY <4>1, <2>1, <1>j
    <3>. QED
      BY <3>2, <3>3
  <2>. QED
    BY <2>3, <2>4
<1>8. ResultsInv'
  <2>1. SUFFICES ASSUME ~overlap
                 PROVE  ResultsInv'
    BY <1>u DEF ResultsInv
  <2>2. \A k \in live' : k.wrote /\ k.kind = "disaster" /\ k.n \notin orphans' =>
          results[k.id] \in {k.n} \cup orphans'
    BY <2>1, <1>g DEF IInv, ResultsInv
  <2>3. ASSUME NEW d \in Starters, camp'[d].pc = "append", camp'[d].status = "ok",
               Job(d)'.kind = "disaster"
        PROVE  results[Job(d)'.id] \in {camp'[d].n} \cup orphans'
    <3>1. d # c
      BY <2>3, <1>e, <1>s
    <3>2. results[Job(d).id] \in {camp[d].n} \cup orphans
      BY <2>1, <2>3, <3>1, <1>e DEF IInv, ResultsInv
    <3>. QED
      BY <3>1, <3>2, <1>e, <1>g
  <2>4. ASSUME Distinct, NEW i \in DOMAIN manifest, NEW k \in DOMAIN journal,
               manifest[i].kind = "disaster", journal[k].id = manifest[i].id,
               journal[k].status = "ok"
        PROVE  results[manifest[i].id] \in {journal[k].n} \cup orphans'
    BY <2>1, <2>4, <1>g DEF IInv, ResultsInv
  <2>. QED
    BY <1>u, <2>2, <2>3, <2>4 DEF ResultsInv
<1>9. NetworkInv'
  <2>1. On("child") <=> On("child")'
    BY <1>e, <1>g, <1>t DEF Starters
  <2>2. \A d \in Starters : (Dirty(d)' <=> Dirty(d)) /\ camp'[d].n = camp[d].n
    BY <1>e, <1>g
  <2>3. \A d \in Starters : camp'[d].pc = "attempt" => camp'[d] = camp[d]
    BY <1>e, <1>s
  <2>4. SUFFICES ASSUME ~overlap
                 PROVE  /\ \A m \in mn : \/ GivenUp(m) \/ m \in orphans'
                                         \/ \E d \in Starters : Dirty(d)' /\ m = camp'[d].n
                        /\ On("child")' =>
                             \A m \in mn : GivenUp(m) \/ (Dirty("child")' /\ m = camp'["child"].n)
                        /\ \A d \in Starters :
                             camp'[d].pc = "attempt" /\ camp'[d].attempt = 2 => mn = {}
    BY <1>u DEF NetworkInv
  <2>5. /\ \A m \in mn : \/ GivenUp(m) \/ m \in orphans
                         \/ \E d \in Starters : Dirty(d) /\ m = camp[d].n
        /\ On("child") => \A m \in mn : GivenUp(m) \/ (Dirty("child") /\ m = camp["child"].n)
        /\ \A d \in Starters : camp[d].pc = "attempt" /\ camp[d].attempt = 2 => mn = {}
    BY <2>4 DEF IInv, NetworkInv
  <2>. QED
    BY <2>1, <2>2, <2>3, <2>5, <1>g DEF Starters
<1>. QED
  BY <1>1, <1>2, <1>3, <1>4, <1>5, <1>6, <1>7, <1>8, <1>9 DEF IInv

\* Results are overwritten by an attempt in hand or by an orphan only.
LEMMA JobWritesPreserves ==
  ASSUME IInv, JobWrites PROVE IInv'
<1>j. PICK j \in live :
        /\ j.kind = "disaster"
        /\ live' = (live \ {j}) \cup {[j EXCEPT !.wrote = TRUE]}
        /\ results' = [results EXCEPT ![j.id] = j.n]
  BY DEF JobWrites
<1>t. TypeOK /\ j \in Serial /\ results \in [AllIds -> Nat]
  BY DEF IInv, TypeOK
<1>w. PICK w \in Serial :
        /\ live' = (live \ {j}) \cup {w} /\ w.n = j.n /\ w.id = j.id /\ w.kind = j.kind
  <2>1. LET e == [j EXCEPT !.wrote = TRUE]
        IN  e \in Serial /\ e.n = j.n /\ e.id = j.id /\ e.kind = j.kind
    BY <1>t DEF Serial
  <2>. QED
    BY <2>1, <1>j
<1>u. /\ manifest' = manifest /\ journal' = journal /\ torn' = torn /\ camp' = camp
      /\ sup' = sup /\ mn' = mn /\ n' = n /\ orphans' = orphans
      /\ overlap' = overlap /\ hands' = hands /\ faults' = faults
      /\ (\A id : IsOk(id)' <=> IsOk(id)) /\ (\A m : GivenUp(m)' <=> GivenUp(m))
      /\ Distinct' <=> Distinct
  BY SameLines DEF JobWrites, bounds, Distinct
<1>e. \A d \in Starters :
        /\ (On(d)' <=> On(d)) /\ Job(d)' = Job(d)
        /\ (InHand(d)' <=> InHand(d)) /\ (Dirty(d)' <=> Dirty(d))
        /\ \A k : WaitsFor(d, k)' <=> WaitsFor(d, k)
  BY <1>u DEF On, Job, InHand, Dirty, WaitsFor
<1>r. /\ j.id \in AllIds /\ j.n \in Nat /\ results'[j.id] = j.n
      /\ \A id \in AllIds : id # j.id => results'[id] = results[id]
  BY <1>j, <1>t DEF Serial
<1>1. TypeOK'
  BY <1>t, <1>u, <1>w, <1>j, <1>r DEF TypeOK
<1>2. PlaceInv'
  BY <1>u, <1>e DEF IInv, PlaceInv, Starters
<1>3. SoloInv'
  BY <1>u, <1>e DEF IInv, SoloInv
<1>4. OpenInv'
  BY <1>u, <1>e DEF IInv, OpenInv, StillOpen
<1>5. LastInv'
  BY <1>u, SameLast
<1>6. SerialInv'
  <2>1. /\ \A k \in live : k.n \in 1..n
        /\ \A k, m \in live : k.n = m.n => k = m
    BY DEF IInv, SerialInv
  <2>2. /\ \A k \in live' : k.n \in 1..n
        /\ \A k, m \in live' : k.n = m.n => k = m
    BY <2>1, <1>w
  <2>. QED
    BY <2>2, <1>u, <1>e DEF IInv, SerialInv
<1>7. LiveInv'
  <2>1. \A k \in live :
          \/ k.n \in orphans
          \/ \E c \in Starters : WaitsFor(c, k) /\ k.id = Job(c).id /\ k.kind = Job(c).kind
    BY DEF IInv, LiveInv
  <2>2. \A c \in Starters : WaitsFor(c, w)' <=> WaitsFor(c, j)
    BY <1>w, <1>u DEF WaitsFor
  <2>. QED
    BY <2>1, <2>2, <1>w, <1>u, <1>e DEF LiveInv
<1>8. ResultsInv'
  <2>1. SUFFICES ASSUME ~overlap
                 PROVE  ResultsInv'
    BY <1>u DEF ResultsInv
  <2>2. j.n \in orphans \/ \E c \in Starters : WaitsFor(c, j) /\ j.id = Job(c).id
    BY DEF IInv, LiveInv
  <2>3. \A c \in Starters : WaitsFor(c, j) => \A d \in Starters : On(d) => d = c
    BY <2>1 DEF WaitsFor, On, IInv, SoloInv
  <2>4. ASSUME NEW k \in live', k.wrote, k.kind = "disaster", k.n \notin orphans
        PROVE  results'[k.id] \in {k.n} \cup orphans
    <3>1. CASE k = w
      BY <3>1, <1>w, <1>r
    <3>2. CASE k \in live /\ k # j
      <4>1. k.id \in AllIds
        BY <3>2, <1>t DEF TypeOK, Serial
      <4>2. results[k.id] \in {k.n} \cup orphans
        BY <3>2, <2>4, <2>1 DEF IInv, ResultsInv
      <4>3. PICK d \in Starters : WaitsFor(d, k)
        BY <3>2, <2>4 DEF IInv, LiveInv
      <4>4. k.n # j.n
        BY <3>2 DEF IInv, SerialInv
      <4>5. j.n \in orphans
        BY <4>3, <4>4, <2>2, <2>3 DEF WaitsFor, On
      <4>. QED
        BY <4>1, <4>2, <4>5, <1>r
    <3>. QED
      BY <3>1, <3>2, <1>w
  <2>5. ASSUME NEW c \in Starters, camp[c].pc = "append", camp[c].status = "ok",
               Job(c).kind = "disaster"
        PROVE  results'[Job(c).id] \in {camp[c].n} \cup orphans
    <3>1. j.n \in orphans
      BY <2>5, <2>2, <2>3 DEF WaitsFor, On
    <3>2. Job(c).id \in AllIds
      BY <2>5, <1>t, TypedManifest DEF IInv, PlaceInv, Job
    <3>3. results[Job(c).id] \in {camp[c].n} \cup orphans
      BY <2>1, <2>5 DEF IInv, ResultsInv
    <3>. QED
      BY <3>1, <3>2, <3>3, <1>r
  <2>6. ASSUME Distinct, NEW i \in DOMAIN manifest, NEW k \in DOMAIN journal,
               manifest[i].kind = "disaster", journal[k].id = manifest[i].id,
               journal[k].status = "ok"
        PROVE  results'[manifest[i].id] \in {journal[k].n} \cup orphans
    <3>1. results[manifest[i].id] \in {journal[k].n} \cup orphans /\ manifest[i].id \in AllIds
      BY <2>1, <2>6, <1>t, TypedManifest DEF IInv, ResultsInv
    <3>2. CASE manifest[i].id = j.id
      <4>1. ASSUME NEW c \in Starters, WaitsFor(c, j), j.id = Job(c).id PROVE FALSE
        <5>1. On(c) /\ camp[c].pc = "running" /\ camp[c].i \in DOMAIN manifest
          BY <4>1 DEF WaitsFor, On, IInv, PlaceInv
        <5>2. ~IsOk(manifest[camp[c].i].id)
          BY <5>1, <2>1, <2>6 DEF IInv, OpenInv, StillOpen
        <5>. QED
          BY <5>2, <4>1, <3>2, <2>6 DEF IsOk, Job
      <4>2. j.n \in orphans
        BY <4>1, <2>2
      <4>. QED
        BY <3>2, <4>2, <1>r
    <3>3. CASE manifest[i].id # j.id
      BY <3>1, <3>3, <1>r
    <3>. QED
      BY <3>2, <3>3
  <2>. QED
    BY <2>4, <2>5, <2>6, <1>u, <1>e DEF ResultsInv
<1>9. NetworkInv'
  BY <1>u, <1>e DEF IInv, NetworkInv, Starters
<1>. QED
  BY <1>1, <1>2, <1>3, <1>4, <1>5, <1>6, <1>7, <1>8, <1>9 DEF IInv

\* A disaster attempt that exits with 0 has written its results.
LEMMA JobExitsPreserves ==
  ASSUME IInv, JobExits PROVE IInv'
<1>j. PICK j \in live, status \in {"ok", "failed"} :
        /\ status = "ok" => JobSucceeds(j) /\ j.n \notin mn'
        /\ live' = live \ {j}
        /\ mn' \subseteq mn
        /\ camp' = [c \in Starters |-> IF WaitsFor(c, j) THEN Ended(c, status) ELSE camp[c]]
        /\ UNCHANGED <<files, sup, n, orphans, bounds>>
  BY DEF JobExits
<1>t. TypeOK /\ PlaceInv
  BY DEF IInv
<1>u. /\ manifest' = manifest /\ journal' = journal /\ torn' = torn /\ results' = results
      /\ sup' = sup /\ n' = n /\ orphans' = orphans
      /\ overlap' = overlap /\ hands' = hands /\ faults' = faults
      /\ (\A id : IsOk(id)' <=> IsOk(id)) /\ (\A m : GivenUp(m)' <=> GivenUp(m))
      /\ Distinct' <=> Distinct
  BY <1>j, SameLines DEF files, bounds, Distinct
<1>c. \A c \in Starters :
        /\ camp'[c] \in CampState /\ camp'[c].i = camp[c].i
        /\ camp'[c].completed = camp[c].completed /\ camp'[c].n = camp[c].n
        /\ camp'[c].attempt = camp[c].attempt
        /\ \/ ~WaitsFor(c, j) /\ camp'[c] = camp[c]
           \/ /\ WaitsFor(c, j) /\ camp[c].pc = "running"
              /\ camp'[c].pc = "append" /\ camp'[c].status = status
  <2>1. SUFFICES ASSUME NEW c \in Starters
                 PROVE  /\ camp'[c] \in CampState /\ camp'[c].i = camp[c].i
                        /\ camp'[c].completed = camp[c].completed /\ camp'[c].n = camp[c].n
                        /\ camp'[c].attempt = camp[c].attempt
                        /\ \/ ~WaitsFor(c, j) /\ camp'[c] = camp[c]
                           \/ /\ WaitsFor(c, j) /\ camp[c].pc = "running"
                              /\ camp'[c].pc = "append" /\ camp'[c].status = status
    OBVIOUS
  <2>2. CASE ~WaitsFor(c, j)
    <3>1. camp'[c] = camp[c]
      BY <2>2, <1>j
    <3>. QED
      BY <2>2, <3>1, <1>t, CampFields
  <2>3. CASE WaitsFor(c, j)
    <3>1. camp'[c] = Ended(c, status) /\ camp[c].pc = "running"
      BY <2>3, <1>j DEF WaitsFor
    <3>2. status \in {"ok", "failed", "timeout"}
      OBVIOUS
    <3>. QED
      BY <2>3, <3>1, <3>2, <1>t, TypedMoves
  <2>. QED
    BY <2>2, <2>3
<1>e. \A d \in Starters : (On(d)' <=> On(d)) /\ Job(d)' = Job(d) /\ (InHand(d)' <=> InHand(d))
  BY <1>c, <1>u DEF On, Job, InHand
<1>1. TypeOK'
  <2>1. camp' \in [Starters -> CampState]
    BY <1>c, <1>j
  <2>. QED
    BY <2>1, <1>t, <1>u, <1>j DEF TypeOK
<1>2. PlaceInv'
  BY <1>t, <1>c, <1>e, <1>u DEF PlaceInv, Starters, On
<1>3. SoloInv'
  BY <1>u, <1>e DEF IInv, SoloInv
<1>4. OpenInv'
  <2>1. SUFFICES ASSUME ~overlap, Distinct, NEW d \in Starters, On(d),
                        NEW i \in DOMAIN manifest, StillOpen(d, i)'
                 PROVE  /\ IsOk(manifest[i].id) => manifest[i].id \in camp[d].completed
                        /\ (i = camp[d].i /\ camp'[d].pc # "next") => ~IsOk(manifest[i].id)
    BY <1>u, <1>e, <1>c DEF OpenInv
  <2>2. StillOpen(d, i)
    BY <2>1, <1>c DEF StillOpen
  <2>3. camp[d].pc = "next" => camp'[d].pc = "next"
    BY <1>c
  <2>. QED
    BY <2>1, <2>2, <2>3 DEF IInv, OpenInv
<1>5. LastInv'
  BY <1>u, SameLast
<1>6. SerialInv'
  <2>1. \A d \in Starters : camp'[d].pc = "running" => camp[d].pc = "running"
    BY <1>c
  <2>. QED
    BY <2>1, <1>c, <1>e, <1>u, <1>j DEF IInv, SerialInv
<1>7. LiveInv'
  <2>1. SUFFICES ASSUME NEW k \in live', k.n \notin orphans
                 PROVE  \E d \in Starters :
                          WaitsFor(d, k)' /\ k.id = Job(d)'.id /\ k.kind = Job(d)'.kind
    BY <1>u DEF LiveInv
  <2>2. k \in live /\ k # j
    BY <2>1, <1>j
  <2>3. PICK d \in Starters : WaitsFor(d, k) /\ k.id = Job(d).id /\ k.kind = Job(d).kind
    BY <2>1, <2>2 DEF IInv, LiveInv
  <2>4. ~WaitsFor(d, j)
    BY <2>2, <2>3 DEF WaitsFor, IInv, SerialInv
  <2>. QED
    BY <2>3, <2>4, <1>c, <1>e DEF WaitsFor
<1>8. ResultsInv'
  <2>1. SUFFICES ASSUME ~overlap
                 PROVE  ResultsInv'
    BY <1>u DEF ResultsInv
  <2>2. ASSUME NEW c \in Starters, camp'[c].pc = "append", camp'[c].status = "ok",
               Job(c).kind = "disaster"
        PROVE  results[Job(c).id] \in {camp[c].n} \cup orphans
    <3>1. CASE WaitsFor(c, j)
      <4>1. camp[c].pc = "running" /\ j.n = camp[c].n /\ camp[c].n \notin orphans
        BY <3>1 DEF WaitsFor, IInv, SerialInv
      <4>2. PICK d \in Starters : WaitsFor(d, j) /\ j.id = Job(d).id /\ j.kind = Job(d).kind
        BY <4>1 DEF IInv, LiveInv
      <4>3. d = c
        BY <2>1, <3>1, <4>2 DEF WaitsFor, On, IInv, SoloInv
      <4>4. j.wrote
        BY <2>2, <3>1, <4>2, <4>3, <1>c, <1>j DEF JobSucceeds
      <4>. QED
        BY <2>1, <2>2, <4>1, <4>2, <4>3, <4>4 DEF IInv, ResultsInv
    <3>2. CASE ~WaitsFor(c, j)
      <4>1. camp'[c] = camp[c]
        BY <3>2, <1>c
      <4>. QED
        BY <2>1, <2>2, <4>1 DEF IInv, ResultsInv
    <3>. QED
      BY <3>1, <3>2
  <2>3. \A k \in live' : k \in live
    BY <1>j
  <2>. QED
    BY <2>1, <2>2, <2>3, <1>u, <1>e, <1>c DEF IInv, ResultsInv
<1>9. NetworkInv'
  <2>1. SUFFICES ASSUME ~overlap
                 PROVE  /\ \A m \in mn' : \/ GivenUp(m) \/ m \in orphans
                                          \/ \E d \in Starters : Dirty(d)' /\ m = camp[d].n
                        /\ On("child") =>
                             \A m \in mn' : GivenUp(m) \/ (Dirty("child")' /\ m = camp["child"].n)
                        /\ \A d \in Starters :
                             camp'[d].pc = "attempt" /\ camp'[d].attempt = 2 => mn' = {}
    BY <1>u, <1>e, <1>c DEF NetworkInv, Starters
  <2>2. /\ \A m \in mn : \/ GivenUp(m) \/ m \in orphans
                         \/ \E d \in Starters : Dirty(d) /\ m = camp[d].n
        /\ On("child") => \A m \in mn : GivenUp(m) \/ (Dirty("child") /\ m = camp["child"].n)
        /\ \A d \in Starters : camp[d].pc = "attempt" /\ camp[d].attempt = 2 => mn = {}
    BY <2>1 DEF IInv, NetworkInv
  <2>3. \A d \in Starters : Dirty(d) /\ camp[d].n \in mn' => Dirty(d)'
    <3>1. SUFFICES ASSUME NEW d \in Starters, Dirty(d), camp[d].n \in mn'
                   PROVE  Dirty(d)'
      OBVIOUS
    <3>2. CASE ~WaitsFor(d, j)
      <4>1. camp'[d] = camp[d]
        BY <3>2, <1>c
      <4>. QED
        BY <3>1, <4>1 DEF Dirty
    <3>3. CASE WaitsFor(d, j)
      <4>1. j.n = camp[d].n /\ camp'[d].pc = "append" /\ camp'[d].status = status
        BY <3>3, <1>c DEF WaitsFor
      <4>2. status # "ok"
        BY <4>1, <3>1, <1>j
      <4>. QED
        BY <4>1, <4>2 DEF Dirty
    <3>. QED
      BY <3>2, <3>3
  <2>4. \A d \in Starters : camp'[d].pc = "attempt" => camp'[d] = camp[d]
    BY <1>c
  <2>. QED
    BY <2>2, <2>3, <2>4, <1>j DEF Starters
<1>. QED
  BY <1>1, <1>2, <1>3, <1>4, <1>5, <1>6, <1>7, <1>8, <1>9 DEF IInv

\* The attempt that a killed campaign had in hand becomes an orphan.
LEMMA KillCampaignPreserves ==
  ASSUME IInv, NEW c \in Starters, KillCampaign(c) PROVE IInv'
<1>t. TypeOK /\ PlaceInv /\ On(c)
  BY DEF IInv, KillCampaign, On
<1>u. /\ manifest' = manifest /\ journal' = journal /\ torn' = torn /\ results' = results
      /\ sup' = sup /\ live' = live /\ mn' = mn /\ n' = n
      /\ overlap' = overlap /\ hands' = hands /\ faults' \in Nat
      /\ (\A id : IsOk(id)' <=> IsOk(id)) /\ (\A m : GivenUp(m)' <=> GivenUp(m))
      /\ Distinct' <=> Distinct
  BY <1>t, SameLines DEF KillCampaign, files, Distinct, TypeOK
<1>o. /\ orphans \subseteq orphans'
      /\ \A m \in orphans' : m \in orphans \/ (InHand(c) /\ m = camp[c].n)
      /\ InHand(c) => camp[c].n \in orphans'
  BY DEF KillCampaign, InHand
<1>e. /\ camp' \in [Starters -> CampState] /\ camp'[c] = Off
      /\ \A d \in Starters : d # c =>
           /\ camp'[d] = camp[d] /\ (On(d)' <=> On(d)) /\ Job(d)' = Job(d)
           /\ (InHand(d)' <=> InHand(d)) /\ (Dirty(d)' <=> Dirty(d))
           /\ \A j : WaitsFor(d, j)' <=> WaitsFor(d, j)
  BY <1>t, <1>u, OffFields, OneMoves DEF KillCampaign
<1>g. camp'[c].pc = "off" /\ ~On(c)' /\ ~InHand(c)' /\ ~Dirty(c)' /\ (Dirty(c) => InHand(c))
  BY <1>e, OffFields DEF On, InHand, Dirty
<1>1. TypeOK'
  <2>1. orphans' \subseteq 1..n
    BY <1>t, <1>o DEF TypeOK, IInv, SerialInv
  <2>. QED
    BY <2>1, <1>t, <1>u, <1>e DEF TypeOK
<1>2. PlaceInv'
  BY <1>t, <1>e, <1>g, <1>u DEF PlaceInv, Starters
<1>3. SoloInv'
  BY <1>e, <1>g, <1>u DEF IInv, SoloInv
<1>4. OpenInv'
  <2>1. \A d \in Starters : On(d)' => d # c /\ On(d) /\ camp'[d] = camp[d]
    BY <1>e, <1>g
  <2>. QED
    BY <2>1, <1>u DEF IInv, OpenInv, StillOpen
<1>5. LastInv'
  BY <1>u, SameLast
<1>6. SerialInv'
  <2>1. \A d \in Starters : InHand(d)' => d # c /\ InHand(d) /\ camp'[d] = camp[d]
    BY <1>e, <1>g
  <2>2. \A d \in Starters : camp'[d].pc = "running" => camp'[d].n \notin orphans'
    <3>1. SUFFICES ASSUME NEW d \in Starters, camp'[d].pc = "running"
                   PROVE  camp'[d].n \notin orphans'
      OBVIOUS
    <3>2. d # c /\ camp'[d] = camp[d] /\ InHand(d) /\ camp[d].n \notin orphans
      BY <3>1, <1>e, <1>g DEF IInv, SerialInv, InHand
    <3>. QED
      BY <3>2, <1>o DEF IInv, SerialInv
  <2>. QED
    BY <2>1, <2>2, <1>u DEF IInv, SerialInv
<1>7. LiveInv'
  <2>1. \A j : WaitsFor(c, j) => j.n \in orphans'
    BY <1>o DEF WaitsFor, InHand
  <2>. QED
    BY <2>1, <1>u, <1>e, <1>o DEF IInv, LiveInv
<1>8. ResultsInv'
  <2>1. SUFFICES ASSUME ~overlap
                 PROVE  ResultsInv'
    BY <1>u DEF ResultsInv
  <2>2. \A j \in live : j.wrote /\ j.kind = "disaster" /\ j.n \notin orphans' =>
          results[j.id] \in {j.n} \cup orphans'
    BY <2>1, <1>o DEF IInv, ResultsInv
  <2>3. \A d \in Starters : camp'[d].pc = "append" => d # c
    BY <1>g
  <2>4. ASSUME Distinct, NEW i \in DOMAIN manifest, NEW k \in DOMAIN journal,
               manifest[i].kind = "disaster", journal[k].id = manifest[i].id,
               journal[k].status = "ok"
        PROVE  results[manifest[i].id] \in {journal[k].n} \cup orphans'
    BY <2>1, <2>4, <1>o DEF IInv, ResultsInv
  <2>5. ASSUME NEW d \in Starters, camp'[d].pc = "append", camp'[d].status = "ok",
               Job(d)'.kind = "disaster"
        PROVE  results[Job(d)'.id] \in {camp'[d].n} \cup orphans'
    <3>1. camp'[d] = camp[d] /\ Job(d)' = Job(d)
      BY <2>3, <2>5, <1>e
    <3>2. results[Job(d).id] \in {camp[d].n} \cup orphans
      BY <2>1, <2>5, <3>1 DEF IInv, ResultsInv
    <3>. QED
      BY <3>1, <3>2, <1>o
  <2>. QED
    BY <1>u, <2>2, <2>4, <2>5 DEF ResultsInv
<1>9. NetworkInv'
  <2>1. SUFFICES ASSUME ~overlap
                 PROVE  /\ \A m \in mn : GivenUp(m) \/ m \in orphans'
                        /\ ~On("child")'
                        /\ \A d \in Starters : camp'[d].pc # "attempt"
    BY <1>u DEF NetworkInv
  <2>2. \A d \in Starters : On(d) => d = c
    BY <2>1, <1>t DEF IInv, SoloInv
  <2>3. \A d \in Starters : ~On(d)'
    BY <2>2, <1>e, <1>g
  <2>4. \A m \in mn : \/ GivenUp(m) \/ m \in orphans
                      \/ \E d \in Starters : Dirty(d) /\ m = camp[d].n
    BY <2>1 DEF IInv, NetworkInv
  <2>5. \A d \in Starters : Dirty(d) => d = c
    BY <2>2 DEF Dirty, On
  <2>. QED
    BY <2>3, <2>4, <2>5, <1>g, <1>o DEF Starters, On
<1>. QED
  BY <1>1, <1>2, <1>3, <1>4, <1>5, <1>6, <1>7, <1>8, <1>9 DEF IInv

\* After a crash of the machine no process and no network is left.
LEMMA CrashMachinePreserves ==
  ASSUME IInv, CrashMachine PROVE IInv'
<1>t. TypeOK
  BY DEF IInv
<1>u. /\ manifest' = manifest /\ journal' = journal /\ results' = results
      /\ sup' = "poll" /\ live' = {} /\ mn' = {} /\ n' = n /\ orphans' = orphans
      /\ overlap' = overlap /\ hands' = hands /\ faults' \in Nat
      /\ camp' = [c \in Starters |-> Off]
      /\ Distinct' <=> Distinct
  BY <1>t DEF CrashMachine, Distinct, TypeOK
<1>e. \A d \in Starters : camp'[d].pc = "off" /\ ~On(d)' /\ ~InHand(d)'
  BY <1>u, OffFields DEF On, InHand
<1>1. TypeOK'
  <2>1. torn' \in BOOLEAN
    BY <1>t, Zenon DEF TypeOK, CrashMachine
  <2>2. camp' \in [Starters -> CampState]
    BY <1>u, OffFields
  <2>. QED
    BY <2>1, <2>2, <1>t, <1>u DEF TypeOK
<1>2. LastInv'
  BY <1>u, SameLast
<1>3. PlaceInv' /\ SoloInv' /\ OpenInv' /\ SerialInv' /\ LiveInv' /\ NetworkInv'
  BY <1>u, <1>e DEF PlaceInv, SoloInv, OpenInv, SerialInv, LiveInv, NetworkInv, Starters
<1>4. ResultsInv'
  BY <1>u, <1>e DEF IInv, ResultsInv
<1>. QED
  BY <1>1, <1>2, <1>3, <1>4 DEF IInv

\* The invariant holds before anything was started.
LEMMA InitIInv == Init => IInv
<1>. SUFFICES ASSUME Init PROVE IInv
  OBVIOUS
<1>1. TypeOK
  <2>1. camp \in [Starters -> CampState]
    BY OffFields DEF Init
  <2>2. results \in [AllIds -> Nat]
    BY DEF Init
  <2>3. sup \in {"poll", "judge", "child", "done"} /\ torn \in BOOLEAN /\ overlap \in BOOLEAN
    BY DEF Init
  <2>4. manifest \in Manifests /\ faults \in Nat /\ hands \in Nat
    <3>1. PICK k \in Cases : manifest = k.manifest /\ faults = k.faults /\ hands = k.hands
      BY DEF Init
    <3>2. k \in [manifest : Seq(JobEntry), faults : Nat, hands : Nat]
      BY CampaignBounds
    <3>. QED
      BY <3>1, <3>2 DEF Manifests
  <2>. QED
    BY <2>1, <2>2, <2>3, <2>4 DEF Init, TypeOK
<1>2. /\ journal = <<>> /\ live = {} /\ mn = {} /\ \A c \in Starters : camp[c].pc = "off"
  BY OffFields DEF Init
<1>. QED
  BY <1>1, <1>2 DEF IInv, PlaceInv, SoloInv, OpenInv, LastInv, SerialInv, LiveInv, ResultsInv,
     NetworkInv, On, InHand, Starters

\* Every step of a process, a job or a fault preserves the invariant.
LEMMA NextIInv == IInv /\ [Next]_vars => IInv'
<1>. SUFFICES ASSUME IInv, [Next]_vars PROVE IInv'
  OBVIOUS
<1>1. CASE UNCHANGED vars
  BY <1>1, SamePreserves DEF vars, IInv, TypeOK, PlaceInv
<1>2. CASE Finished
  BY <1>1, <1>2 DEF Finished
<1>3. ASSUME NEW c \in Starters, Attempt(c) \/ Timeout(c) \/ KillCampaign(c) PROVE IInv'
  BY <1>3, NextJobPreserves, SkipMemoryPreserves, StartJobPreserves, AppendStatePreserves,
     AfterAttemptPreserves, TimeoutPreserves, KillCampaignPreserves DEF Attempt
<1>. QED
  BY <1>1, <1>2, <1>3, LaunchByHandPreserves, SupervisorPreserves, JobWritesPreserves,
     JobExitsPreserves, CrashMachinePreserves DEF Next

-----------------------------------------------------------------------------
(* The theorems. *)

\* The inductive invariant holds in every state of a campaign.
THEOREM InvariantHolds == Spec => []IInv
  BY InitIInv, NextIInv, PTL DEF Spec

\* The state of supervisor, campaign, jobs and files is well typed.
THEOREM TypeCorrect == Spec => []TypeOK
<1>1. IInv => TypeOK
  BY DEF IInv
<1>. QED
  BY <1>1, InvariantHolds, PTL

\* What _final_attempt_by_job finds is the last line of the job.
LEMMA FinalAttempt ==
  ASSUME IInv, NEW id, NEW k \in DOMAIN journal, journal[k].id = id,
         \A m \in DOMAIN journal : journal[m].id = id => m <= k
  PROVE  final_attempt_by_job(id) = k
<1>. DEFINE I == {m \in 1..Len(journal) : journal[m].id = id}
<1>1. DOMAIN journal = 1..Len(journal) /\ DOMAIN journal \subseteq Nat
  BY TypedLines DEF IInv
<1>2. k \in I /\ \A m \in I : m <= k /\ m \in Nat
  BY <1>1
<1>3. final_attempt_by_job(id) = Max(I)
  BY <1>2 DEF final_attempt_by_job, SelectLastInSeq
<1>4. Max(I) \in I /\ \A m \in I : Max(I) >= m
  BY <1>2 DEF Max
<1>. QED
  BY <1>2, <1>3, <1>4

\* A job without a line has no final attempt.
LEMMA NoAttempt ==
  ASSUME IInv, NEW id, \A m \in DOMAIN journal : journal[m].id # id
  PROVE  final_attempt_by_job(id) = 0
<1>1. DOMAIN journal = 1..Len(journal)
  BY TypedLines DEF IInv
<1>. QED
  BY <1>1 DEF final_attempt_by_job, SelectLastInSeq

\* A final attempt other than 0 is a line of the job.
LEMMA SomeAttempt ==
  ASSUME IInv, NEW id, final_attempt_by_job(id) # 0
  PROVE  /\ final_attempt_by_job(id) \in DOMAIN journal
         /\ journal[final_attempt_by_job(id)].id = id
<1>1. PICK k \in DOMAIN journal : journal[k].id = id
  BY NoAttempt
<1>2. PICK last \in DOMAIN journal :
        /\ journal[last].id = journal[k].id
        /\ \A m \in DOMAIN journal : journal[m].id = journal[k].id => m <= last
  BY DEF IInv, LastInv
<1>. QED
  BY <1>1, <1>2, FinalAttempt

\* However often the campaign died and was resumed, one at a time, the report
\* counts as ok exactly the jobs that a resumed campaign would not run again.
THEOREM ReportAgreesTheorem == Spec => []ReportAgrees
<1>1. ASSUME IInv, ~overlap, Distinct PROVE campaign_stats.ok = load_completed_job_ids(journal)
  <2>1. campaign_stats.ok = {id \in AllIds : final_attempt_by_job(id) # 0
                                             /\ discover_job(id).status = "ok"}
    BY DEF campaign_stats
  <2>2. ASSUME NEW id \in AllIds, final_attempt_by_job(id) # 0, discover_job(id).status = "ok"
        PROVE  id \in load_completed_job_ids(journal)
    BY <1>1, <2>2, SomeAttempt DEF discover_job, load_completed_job_ids
  <2>3. ASSUME NEW id \in load_completed_job_ids(journal)
        PROVE  id \in AllIds /\ final_attempt_by_job(id) # 0 /\ discover_job(id).status = "ok"
    <3>1. PICK k \in DOMAIN journal : journal[k].id = id /\ journal[k].status = "ok"
      BY DEF load_completed_job_ids
    <3>2. \A m \in DOMAIN journal : journal[m].id = id => m <= k
      BY <1>1, <3>1 DEF IInv, LastInv
    <3>3. final_attempt_by_job(id) = k
      BY <1>1, <3>1, <3>2, FinalAttempt
    <3>4. k # 0 /\ id \in AllIds
      BY <1>1, <3>1, TypedLines DEF IInv
    <3>. QED
      BY <3>1, <3>3, <3>4 DEF discover_job
  <2>. QED
    BY <2>1, <2>2, <2>3
<1>2. IInv => ReportAgrees
  BY <1>1 DEF ReportAgrees
<1>. QED
  BY <1>2, InvariantHolds, PTL

\* A disaster job reported as ok by campaigns that ran one at a time has the
\* results of its ok attempt, or those of an attempt that outlived its campaign.
THEOREM OkHasResultsTheorem == Spec => []OkHasResults
<1>1. ASSUME IInv, ~overlap, Distinct, NEW i \in DOMAIN manifest, manifest[i].kind = "disaster",
             discover_job(manifest[i].id).status = "ok"
      PROVE  \/ discover_job(manifest[i].id).results = discover_job(manifest[i].id).n
             \/ discover_job(manifest[i].id).results \in orphans
  <2>. DEFINE id == manifest[i].id
              k == final_attempt_by_job(id)
  <2>1. k # 0
    BY <1>1 DEF discover_job
  <2>2. k \in DOMAIN journal /\ journal[k].id = id
    BY <1>1, <2>1, SomeAttempt
  <2>3. /\ discover_job(id).status = journal[k].status
        /\ discover_job(id).n = journal[k].n /\ discover_job(id).results = results[id]
    BY <2>1 DEF discover_job
  <2>. HIDE DEF k
  <2>. QED
    BY <1>1, <2>2, <2>3 DEF IInv, ResultsInv
<1>2. IInv => OkHasResults
  BY <1>1 DEF OkHasResults
<1>. QED
  BY <1>2, InvariantHolds, PTL

\* The report tells the truth about what was measured, unless two campaigns ran
\* at once.
THEOREM ReportTheorem == Spec => []ReportTrue
  BY ReportAgreesTheorem, OkHasResultsTheorem, PTL DEF ReportTrue

\* What a job may meet when it is started: orphans and the attempt of a campaign
\* started beside its own; and, unless two ever ran at once, no ok line of its
\* own, no network before a retry, and else only networks of jobs given up, or,
\* in a campaign resumed by hand, of orphans.
THEOREM StartsTheorem == Spec => StartsSound
<1>1. ASSUME IInv, NEW c \in Starters, Starts(c)
      PROVE  /\ load_manifest(manifest)
             /\ \A j \in live : \/ j.n \in orphans
                                 \/ \E d \in Starters \ {c} : WaitsFor(d, j)
             /\ ~overlap =>
                 /\ Distinct => Job(c).id \notin load_completed_job_ids(journal)
                 /\ camp[c].attempt = 2 => mn = {}
                 /\ \A m \in mn : GivenUp(m) \/ (c = "hand" /\ m \in orphans)
  <2>1. TypeOK /\ camp[c].pc = "attempt" /\ On(c)
    BY <1>1 DEF Starts, IInv, On
  <2>2. load_manifest(manifest) /\ camp[c].i \in DOMAIN manifest
    BY <1>1, <2>1 DEF IInv, PlaceInv
  <2>3. ~overlap /\ Distinct => ~IsOk(Job(c).id)
    BY <1>1, <2>1, <2>2 DEF IInv, OpenInv, StillOpen, Job
  <2>4. ~overlap /\ Distinct => Job(c).id \notin load_completed_job_ids(journal)
    BY <2>1, <2>3, TypedLines
  <2>5. \A j \in live : \/ j.n \in orphans
                        \/ \E d \in Starters \ {c} : WaitsFor(d, j)
    BY <1>1, <2>1 DEF IInv, LiveInv, WaitsFor
  <2>6. ~overlap /\ camp[c].attempt = 2 => mn = {}
    BY <1>1, <2>1 DEF IInv, NetworkInv
  <2>7. ASSUME ~overlap, NEW m \in mn
        PROVE  GivenUp(m) \/ (c = "hand" /\ m \in orphans)
    <3>1. \A d \in Starters : ~Dirty(d)
      BY <1>1, <2>1, <2>7 DEF IInv, SoloInv, On, Dirty
    <3>. QED
      BY <1>1, <2>1, <2>7, <3>1 DEF IInv, NetworkInv, Starters
  <2>. QED
    BY <2>2, <2>4, <2>5, <2>6, <2>7
<1>2. IInv /\ [Next]_vars =>
        [\A c \in Starters : Starts(c) =>
            /\ load_manifest(manifest)
            /\ \A j \in live : \/ j.n \in orphans
                                \/ \E d \in Starters \ {c} : WaitsFor(d, j)
            /\ ~overlap =>
                /\ Distinct => Job(c).id \notin load_completed_job_ids(journal)
                /\ camp[c].attempt = 2 => mn = {}
                /\ \A m \in mn : GivenUp(m) \/ (c = "hand" /\ m \in orphans)]_vars
  BY <1>1
<1>. QED
  BY <1>2, InvariantHolds, PTL DEF Spec, StartsSound

-----------------------------------------------------------------------------
(* Judgment: the inductive invariant. *)

\* The lines and texts a log can hold.
LogLines == {"other", "nothing", "ng", FIELD, PUB_DELIVERED_MARKER, COMPLETED_MARKER}
LogTexts == {<<>>} \union Texts \union UNION {Prefixes(x) : x \in Texts}

ProcState == [st : {"none", "run", "exited", "killed"}, rc : {"none", "zero", "nonzero"},
              got : BOOLEAN, done : BOOLEAN,
              status : {"none", "2xx", "other", "unreachable", "failed"}]
JudgePhases == {"idle", "taken", "spawned", "poll", "check", "judge", "publish", "notify"}

Places == {OutputOf(o) : o \in Ops}

\* The type invariant of Judgment.
JudgeTypes ==
    /\ script \in Scripts
    /\ begun \subseteq Ops /\ pending \subseteq Ops /\ lost \subseteq Ops /\ emptied \subseteq Ops
    /\ proc \in [Ops -> ProcState]
    /\ log \in [Names -> [by : Nat, lines : SUBSET LogLines, text : LogTexts]]
    /\ resp \in [{OutputOf(o) : o \in Ops} -> [by : Nat, ok : BOOLEAN]]
    /\ act \in [Threads -> [ph : JudgePhases, op : Nat, rest : SUBSET Ops]]
    /\ result \in [Ops -> [timed : BOOLEAN, cancelled : BOOLEAN]]
    /\ cancel \in BOOLEAN
    /\ seen \in [Ops -> SUBSET Ops]

\* An operation is in hand of a thread from its start to its record.
Busy(t) == act[t].ph \notin {"idle", "notify"}
Holds(t, o) == o \in act[t].rest \/ (Busy(t) /\ act[t].op = o)

\* An operation that was dispatched is pending, in hand of one thread or recorded,
\* never two of these; one whose start raised may be none of them.
OwnInv ==
    /\ \A t \in Threads : act[t].ph = "idle" => act[t].rest = {}
    /\ \A t \in Threads : act[t].ph # "idle" => act[t].op \in begun
    /\ \A t \in Threads : Busy(t) => act[t].op \notin act[t].rest
    /\ pending \subseteq begun
    /\ \A t \in Threads, o \in Ops : Holds(t, o) =>
          o \in begun /\ o \notin pending /\ \A u \in Threads : u # t => ~Holds(u, o)
    /\ \A i \in DOMAIN recs :
          /\ recs[i].op \in begun /\ recs[i].op \notin pending
          /\ \A t \in Threads : ~Holds(t, recs[i].op)

\* Subscriptions are what is pending and what is settled; each thread has its
\* own kinds.
KindInv ==
    /\ \A o \in pending : Kind(o) = "sub"
    /\ \A t \in Threads : \A o \in act[t].rest : Kind(o) = "sub"
    /\ Busy("main") => Kind(act["main"].op) = "sub"
    /\ Busy("sched") => Kind(act["sched"].op) = "compute"
    /\ Busy("worker") => Kind(act["worker"].op) \in ContentKinds
    /\ act["sched"].rest = {}
    /\ \A t \in {"main", "sched"} : act[t].ph \notin {"taken", "spawned"}
    /\ act["worker"].ph = "spawned" => Kind(act["worker"].op) = "sub"
    /\ act["main"].ph # "publish" /\ act["worker"].ph # "publish"

\* The process of an operation, and who waits for it.
ProcInv ==
    /\ \A o \in Ops \ begun : proc[o].st = "none"
    /\ \A o \in Ops : proc[o].st = "none" =>
          ~proc[o].got /\ ~proc[o].done /\ proc[o].status = "none"
    /\ \A o \in Ops : proc[o].done => proc[o].got
    /\ \A o \in Ops : proc[o].st \in {"exited", "killed"} => proc[o].rc \in {"zero", "nonzero"}
    /\ \A o \in Ops : proc[o].st = "run" =>
          /\ Kind(o) \in ContentKinds \ {"sub"} =>
                act["worker"].op = o /\ act["worker"].ph \in {"poll", "check"}
          /\ Kind(o) = "compute" => act["sched"].op = o /\ act["sched"].ph \in {"poll", "check"}
    /\ \A t \in Threads : act[t].ph \in {"judge", "publish"} => proc[act[t].op].st # "run"
    /\ \A i \in DOMAIN recs : proc[recs[i].op].st # "run"
    /\ act["worker"].ph = "taken" => proc[act["worker"].op].st = "none"
    /\ \A o \in pending : proc[o].st # "none"
    /\ \A t \in Threads : \A o \in act[t].rest : proc[o].st # "none"
    /\ \A t \in Threads :
          act[t].ph \in {"spawned", "poll", "check", "judge"} /\ Kind(act[t].op) = "sub"
             => proc[act[t].op].st # "none"

\* Operations are dispatched in the order of the script, and what the worker
\* runs itself is the last of them.
OrderInv ==
    /\ \A o \in Ops \ begun, p \in begun :
          Kind(o) \in ContentKinds /\ Kind(p) \in ContentKinds => p < o
    /\ (Busy("worker") /\ (act["worker"].ph \in {"taken", "spawned"} \/ Kind(act["worker"].op) # "sub")) =>
          \A p \in begun : Kind(p) \in ContentKinds => p <= act["worker"].op

\* The operations whose log was opened.
LogOpen(o) ==
    \/ o \in pending
    \/ \E t \in Threads : Holds(t, o) /\ act[t].ph # "taken"
    \/ \E i \in DOMAIN recs : recs[i].op = o

\* The evidence of a get: the log belongs to the last operation that opened it,
\* and the marker in it to that operation; what was received is in place while
\* the get is in hand.
LogInv ==
    /\ \A f \in Names : log[f].by # 0 =>
          /\ log[f].by \in begun /\ content_log_name(log[f].by) = f
          /\ Kind(log[f].by) \in ContentKinds
    /\ \A f \in Names : f[1] = "get" /\ COMPLETED_MARKER \in log[f].lines =>
          log[f].by # 0 /\ proc[log[f].by].done
    /\ \A o \in Ops : /\ Kind(o) = "get" /\ log[content_log_name(o)].by = o
                      /\ proc[o].st = "exited" /\ proc[o].done
          => COMPLETED_MARKER \in log[content_log_name(o)].lines
    /\ \A o \in Ops : LogOpen(o) /\ Kind(o) \in ContentKinds => o <= log[content_log_name(o)].by
    /\ (act["worker"].ph \in {"poll", "check", "judge"} /\ Kind(act["worker"].op) = "get"
        /\ proc[act["worker"].op].got)
          => OutputOf(act["worker"].op) \in outs

\* The evidence of a subscription.
ArtInv ==
    /\ \A o \in emptied : o \in begun /\ Kind(o) = "sub"
    /\ \A o \in Ops : Kind(o) = "sub" /\ proc[o].st # "none" => o \in emptied
    /\ arts \subseteq [dir : Places, by : Ops, full : BOOLEAN]
    /\ \A a \in arts :
          /\ Kind(a.by) = "sub" /\ a.dir = OutputOf(a.by)
          /\ proc[a.by].got /\ a.by \notin lost /\ a.full = proc[a.by].done
          /\ a.full => \A o \in emptied : OutputOf(o) = a.dir => a.by \in seen[o]
    /\ \A o \in Ops : Kind(o) = "sub" /\ proc[o].got => o \in lost \/ \E a \in arts : a.by = o
    /\ \A o \in lost : /\ Kind(o) = "sub" /\ proc[o].got
                       /\ \E q \in begun : q > o /\ Kind(q) = "sub" /\ OutputOf(q) = OutputOf(o)

\* The evidence of a compute call.
RespInv ==
    /\ Busy("sched") /\ proc[act["sched"].op].status = "2xx" =>
          resp[OutputOf(act["sched"].op)] = [by |-> act["sched"].op, ok |-> TRUE]
    /\ act["sched"].ph = "publish" => proc[act["sched"].op].status = "2xx"

\* A record is true of what its operation did.
Earned(r) ==
    /\ r.kind = "get" /\ r.v.success = "yes" => proc[r.op].done
    /\ r.kind = "sub" /\ r.v.success = "yes" => r.v.artifact \in seen[r.op]
    /\ r.kind = "compute" /\ r.v.success = "yes" /\ script[r.op].uri # "" =>
          \E p \in published : p.call = r.op
Honoured(r) ==
    /\ r.kind = "get" /\ proc[r.op].done /\ proc[r.op].st = "exited" /\ proc[r.op].rc = "zero"
          => r.v.success = "yes"
    /\ r.kind = "sub" /\ proc[r.op].done /\ r.v.success = "no" =>
          \/ \E q \in begun : q > r.op /\ Kind(q) = "sub" /\ OutputOf(q) = OutputOf(r.op)
          \/ proc[r.op].rc = "nonzero" /\ ~result[r.op].timed /\ ~result[r.op].cancelled

\* The records.
RecInv ==
    /\ recs \in Seq({recs[i] : i \in DOMAIN recs})
    /\ \A i \in DOMAIN recs : recs[i].kind = Kind(recs[i].op)
    /\ \A i \in DOMAIN recs : Earned(recs[i]) /\ Honoured(recs[i])
    /\ \A p \in published : p.body = [by |-> p.call, ok |-> TRUE]

JudgeInv == /\ JudgeTypes /\ OwnInv /\ KindInv /\ ProcInv /\ OrderInv /\ LogInv /\ ArtInv
            /\ RespInv /\ RecInv

SameUri(o, p) == script[o].uri = script[p].uri

\* The main thread settles once nothing more is dispatched, and does so alone but
\* for a publication that is under way; the worker takes nothing while it settles.
MainLast ==
    /\ act["main"].ph # "idle" => cancel \/ \A o \in Ops \ begun : Kind(o) \notin ContentKinds
    /\ act["main"].ph # "idle" /\ act["worker"].ph # "idle" => pending = {}
    /\ act["worker"].ph \in {"taken", "spawned"} => act["worker"].rest = {}

\* The records of a log file and a URI are in the order of the dispatch.
RecsAscend ==
    \A i, j \in DOMAIN recs :
       i < j /\ content_log_name(recs[i].op) = content_log_name(recs[j].op)
             /\ SameUri(recs[i].op, recs[j].op) /\ recs[i].kind \in ContentKinds
          => recs[i].op < recs[j].op

\* ... because subscriptions of a URI are settled in the order of their dispatch:
\* what is left comes after what is recorded and after what is in hand.
RecsFirst ==
    \A i \in DOMAIN recs, o \in Ops :
       recs[i].kind = "sub" /\ Kind(o) = "sub" /\ SameUri(recs[i].op, o)
          /\ (o \in pending \/ \E t \in Threads : Holds(t, o)) => recs[i].op < o
RestAfter ==
    \A t \in Threads : act[t].ph \in {"poll", "check", "judge"} /\ Kind(act[t].op) = "sub" =>
       \A o \in act[t].rest : SameUri(act[t].op, o) => act[t].op < o
PendingAfter ==
    \A t \in Threads, o \in Ops, p \in pending :
       Holds(t, o) /\ act[t].ph \notin {"taken", "spawned"} /\ Kind(o) = "sub" /\ SameUri(o, p) =>
          t = "main" /\ o < p
OneSettles ==
    \A o, p \in Ops :
       Holds("main", o) /\ Holds("worker", p) /\ Kind(p) = "sub" /\ SameUri(o, p) =>
          act["worker"].ph \in {"taken", "spawned"}

QueueInv == MainLast /\ RecsAscend /\ RecsFirst /\ RestAfter /\ PendingAfter /\ OneSettles

-----------------------------------------------------------------------------
(* Judgment: its steps. *)

\* An operation of the script: its number, its names, its kind.
LEMMA OpFacts ==
  ASSUME script \in Scripts
  PROVE  /\ Ops \subseteq Nat \ {0}
         /\ \A o \in Ops : /\ content_log_name(o) \in Names /\ content_log_name(o)[1] = Kind(o)
                           /\ Kind(o) \in Kinds
<1>1. Len(script) \in Nat /\ Ops = 1..Len(script) /\ \A o \in Ops : script[o].kind \in Kinds
  BY ScriptsAssumption DEF Ops
<1>2. Ops \subseteq Nat \ {0}
  BY <1>1
<1>3. ASSUME NEW o \in Ops
      PROVE  /\ content_log_name(o) \in Names /\ content_log_name(o)[1] = Kind(o)
             /\ Kind(o) \in Kinds
  BY <1>1 DEF Names, content_log_name, Kind, Ops
<1>. QED
  BY <1>2, <1>3

\* What is true of a record stays so: its process is over, its result is final,
\* and what was seen, published or dispatched only grows.
LEMMA RecordsKept ==
  ASSUME RecInv, OwnInv, script' = script, recs' = recs,
         \A i \in DOMAIN recs : /\ proc'[recs[i].op] = proc[recs[i].op]
                               /\ result'[recs[i].op] = result[recs[i].op]
                               /\ seen[recs[i].op] \subseteq seen'[recs[i].op],
         published \subseteq published', begun \subseteq begun',
         \A p \in published' : p.body = [by |-> p.call, ok |-> TRUE]
  PROVE  RecInv'
<1>1. ASSUME NEW i \in DOMAIN recs PROVE Earned(recs[i])'
  BY <1>1 DEF RecInv, Earned
<1>2. ASSUME NEW i \in DOMAIN recs PROVE Honoured(recs[i])'
  <2>1. \A q : OutputOf(q)' = OutputOf(q) /\ Kind(q)' = Kind(q)
    BY DEF OutputOf, Kind
  <2>2. Honoured(recs[i])
    BY DEF RecInv
  <2>. QED
    BY <2>1, <2>2 DEF Honoured
<1>. QED
  BY <1>1, <1>2 DEF RecInv, Kind

\* The worker takes the next operation of the queue.
LEMMA TakeStep ==
  ASSUME JudgeInv, NEW o \in Ops, Take(o)
  PROVE  JudgeInv'
<1>1. /\ script' = script /\ proc' = proc /\ log' = log /\ outs' = outs /\ arts' = arts
      /\ resp' = resp /\ pending' = pending /\ result' = result /\ cancel' = cancel
      /\ recs' = recs /\ published' = published /\ seen' = seen /\ lost' = lost
      /\ emptied' = emptied /\ Ops' = Ops
  BY DEF Take, Ops
<1>2. /\ o \notin begun /\ Kind(o) \in ContentKinds /\ begun' = begun \union {o}
      /\ \A p \in Ops \ begun : Kind(p) \in ContentKinds => o <= p
      /\ act["worker"].ph = "idle" /\ act["worker"].rest = {}
  BY DEF Take, Next1, JudgeInv, OwnInv, Threads
<1>3. /\ act'["worker"] = [ph |-> "taken", op |-> o, rest |-> {}]
      /\ act'["main"] = act["main"] /\ act'["sched"] = act["sched"]
  BY DEF Take, Turns, JudgeInv, JudgeTypes, Threads
<1>4. Ops \subseteq Nat \ {0}
  BY OpFacts DEF JudgeInv, JudgeTypes
<1>5. JudgeTypes'
  <2>1. act' \in [Threads -> [ph : JudgePhases, op : Nat, rest : SUBSET Ops]]
    BY <1>2, <1>3, <1>4 DEF Take, Turns, JudgeInv, JudgeTypes, JudgePhases, Threads
  <2>. QED
    BY <1>1, <1>2, <2>1 DEF JudgeInv, JudgeTypes, OutputOf
<1>6. OwnInv'
  BY <1>1, <1>2, <1>3 DEF JudgeInv, OwnInv, Holds, Busy, Threads
<1>7. KindInv'
  BY <1>1, <1>2, <1>3 DEF JudgeInv, KindInv, Busy, Threads, Kind
<1>8. ProcInv'
  BY <1>1, <1>2, <1>3 DEF JudgeInv, ProcInv, Threads, Kind
<1>9. OrderInv'
  <2>1. \A p \in begun : Kind(p) \in ContentKinds => p < o
    BY <1>2 DEF JudgeInv, OrderInv
  <2>2. ASSUME NEW q \in Ops \ begun', NEW p \in begun', (Kind(q) \in ContentKinds)',
               (Kind(p) \in ContentKinds)' PROVE p < q
    <3>1. q \in Ops \ begun /\ Kind(q) \in ContentKinds /\ Kind(p) \in ContentKinds /\ q # o
      BY <1>1, <1>2, <2>2 DEF Kind
    <3>2. CASE p = o
      BY <1>2, <1>4, <3>1, <3>2
    <3>3. CASE p \in begun
      BY <3>1, <3>3 DEF JudgeInv, OrderInv
    <3>. QED
      BY <1>2, <3>2, <3>3
  <2>. QED
    BY <1>1, <1>2, <1>3, <1>4, <2>1, <2>2 DEF OrderInv, Busy, Kind, JudgeInv, JudgeTypes
<1>10. LogInv'
  BY <1>1, <1>2, <1>3 DEF JudgeInv, LogInv, LogOpen, Holds, Busy, Threads, Kind,
     content_log_name, OutputOf
<1>11. ArtInv'
  BY <1>1, <1>2 DEF JudgeInv, ArtInv, Kind, OutputOf, Places
<1>12. RespInv'
  BY <1>1, <1>3 DEF JudgeInv, RespInv, Busy, OutputOf
<1>13. RecInv'
  BY <1>1, <1>2, RecordsKept DEF JudgeInv, RecInv
<1>. QED
  BY <1>5, <1>6, <1>7, <1>8, <1>9, <1>10, <1>11, <1>12, <1>13 DEF JudgeInv

-----------------------------------------------------------------------------
\* The processes.

\* Nothing about the threads changes.
LEMMA ThreadsKept ==
  ASSUME JudgeInv, UNCHANGED <<script, begun, pending, act, recs>>
  PROVE  OwnInv' /\ KindInv' /\ OrderInv' /\ Ops' = Ops
<1>1. Ops' = Ops
  BY DEF Ops
<1>2. OwnInv'
  BY <1>1 DEF JudgeInv, OwnInv, Holds, Busy
<1>3. KindInv'
  BY <1>1 DEF JudgeInv, KindInv, Busy, Kind
<1>4. OrderInv'
  BY <1>1 DEF JudgeInv, OrderInv, Busy, Kind
<1>. QED
  BY <1>1, <1>2, <1>3, <1>4

\* A process that runs does something or ends.
LEMMA ProcessKept ==
  ASSUME JudgeInv, NEW p \in Ops, proc[p].st = "run", UNCHANGED <<script, begun, pending, act, recs>>,
         proc' \in [Ops -> ProcState], \A q \in Ops \ {p} : proc'[q] = proc[q],
         proc'[p].st \in {"run", "exited"}, proc'[p].done => proc'[p].got,
         proc'[p].st = "exited" => proc'[p].rc \in {"zero", "nonzero"}
  PROVE  ProcInv' /\ \A i \in DOMAIN recs : recs[i].op \in Ops \ {p}
<1>1. Ops' = Ops /\ p \in begun
  BY DEF Ops, JudgeInv, ProcInv
<1>2. \A t \in Threads : act[t].ph \in {"judge", "publish"} => act[t].op # p
  BY DEF JudgeInv, ProcInv
<1>3. \A i \in DOMAIN recs : recs[i].op \in Ops \ {p}
  BY DEF JudgeInv, ProcInv, OwnInv, JudgeTypes
<1>4. act["worker"].ph = "taken" => act["worker"].op \in Ops \ {p}
  BY DEF JudgeInv, ProcInv, OwnInv, JudgeTypes, Threads
<1>5. \A t \in Threads : act[t].ph # "idle" => act[t].op \in Ops
  BY DEF JudgeInv, OwnInv, JudgeTypes
<1>6. \A q \in Ops : proc'[q].st = "none" => proc[q].st = "none" /\ q # p
  OBVIOUS
<1>7. pending \subseteq Ops /\ \A t \in Threads : act[t].rest \subseteq Ops
  BY DEF JudgeInv, JudgeTypes
<1>8. /\ \A q \in Ops \ begun : proc'[q].st = "none"
      /\ \A q \in Ops : proc'[q].st = "none" =>
           ~proc'[q].got /\ ~proc'[q].done /\ proc'[q].status = "none"
      /\ \A q \in Ops : proc'[q].done => proc'[q].got
      /\ \A q \in Ops : proc'[q].st \in {"exited", "killed"} => proc'[q].rc \in {"zero", "nonzero"}
  BY <1>1, <1>6 DEF JudgeInv, ProcInv
<1>9. \A q \in Ops : proc'[q].st = "run" => proc[q].st = "run"
  OBVIOUS
<1>10. \A t \in Threads :
          act[t].ph \in {"spawned", "poll", "check", "judge"} /\ Kind(act[t].op) = "sub"
             => proc'[act[t].op].st # "none"
  BY <1>5, <1>6 DEF JudgeInv, ProcInv
<1>. QED
  BY <1>1, <1>2, <1>3, <1>4, <1>5, <1>6, <1>7, <1>8, <1>9, <1>10 DEF JudgeInv, ProcInv, Kind

\* The evidence of subscriptions stays.
LEMMA ArtKept ==
  ASSUME ArtInv, lost \subseteq Ops, script' = script, UNCHANGED <<arts, seen, lost, emptied>>,
         begun \subseteq begun',
         \A q \in Ops : Kind(q) = "sub" =>
            /\ proc'[q].got = proc[q].got /\ proc'[q].done = proc[q].done
            /\ proc'[q].st # "none" => proc[q].st # "none" \/ q \in emptied
  PROVE  ArtInv'
<1>1. Ops' = Ops
  BY DEF Ops
<1>. QED
  BY <1>1 DEF ArtInv, Kind, OutputOf, Places

\* The evidence of a compute call stays.
LEMMA RespKept ==
  ASSUME JudgeInv, script' = script, resp' = resp, act'["sched"] = act["sched"],
         \A q \in Ops : Kind(q) = "compute" => proc'[q].status = proc[q].status
  PROVE  RespInv'
<1>1. Busy("sched") => act["sched"].op \in Ops /\ Kind(act["sched"].op) = "compute"
  BY DEF JudgeInv, KindInv, OwnInv, JudgeTypes, Busy, Threads
<1>. QED
  BY <1>1 DEF JudgeInv, RespInv, Busy, OutputOf, Kind

\* The log of what the worker runs itself is its own.
LEMMA WorkerOwnsLog ==
  ASSUME JudgeInv, act["worker"].ph \in {"poll", "check", "judge"},
         Kind(act["worker"].op) # "sub"
  PROVE  log[content_log_name(act["worker"].op)].by = act["worker"].op
<1>. DEFINE o == act["worker"].op
            f == content_log_name(o)
<1>1. Busy("worker") /\ o \in begun /\ o \in Ops /\ Kind(o) \in ContentKinds
  BY DEF JudgeInv, JudgeTypes, OwnInv, KindInv, Busy, Threads
<1>2. f \in Names /\ log[f].by \in Nat /\ o \in Nat /\ o # 0
  BY <1>1, OpFacts DEF JudgeInv, JudgeTypes
<1>3. LogOpen(o)
  BY <1>1 DEF LogOpen, Holds, Threads
<1>4. o <= log[f].by
  BY <1>1, <1>3 DEF JudgeInv, LogInv
<1>5. log[f].by \in begun /\ Kind(log[f].by) \in ContentKinds
  <2>1. log[f].by # 0
    BY <1>2, <1>4
  <2>. QED
    BY <1>2, <2>1 DEF JudgeInv, LogInv
<1>6. log[f].by <= o
  BY <1>1, <1>5 DEF JudgeInv, OrderInv
<1>. QED
  BY <1>2, <1>4, <1>6

\* What the end of a process leaves in its log.
LEMMA LogAfterFacts ==
  ASSUME JudgeTypes, NEW p \in Ops, NEW killed \in BOOLEAN, NEW l \in LogAfter(p, killed)
  PROVE  /\ l \in [Names -> [by : Nat, lines : SUBSET LogLines, text : LogTexts]]
         /\ \A f \in Names : l[f].by = log[f].by /\ log[f].lines \subseteq l[f].lines
         /\ \A f \in Names : COMPLETED_MARKER \in l[f].lines =>
               \/ COMPLETED_MARKER \in log[f].lines
               \/ f = content_log_name(p) /\ Kind(p) = "get" /\ proc[p].done
         /\ (~killed /\ log[content_log_name(p)].by = p /\ Kind(p) = "get" /\ proc[p].done) =>
               COMPLETED_MARKER \in l[content_log_name(p)].lines
<1>. DEFINE g == content_log_name(p)
            LogRec == [by : Nat, lines : SUBSET LogLines, text : LogTexts]
            Leaves(e) ==
              /\ e \in LogRec /\ e.by = log[g].by /\ log[g].lines \subseteq e.lines
              /\ COMPLETED_MARKER \in e.lines =>
                    COMPLETED_MARKER \in log[g].lines \/ (Kind(p) = "get" /\ proc[p].done)
              /\ (~killed /\ log[g].by = p /\ Kind(p) = "get" /\ proc[p].done)
                    => COMPLETED_MARKER \in e.lines
<1>1. g \in Names /\ log \in [Names -> LogRec] /\ log[g] \in LogRec
  BY OpFacts DEF JudgeTypes
<1>2. PICK e : /\ l = [log EXCEPT ![g] = e]
               /\ \/ e = log[g] /\ (killed \/ log[g].by # p)
                  \/ Kind(p) = "ccninfo" /\ \E x \in LogTexts : e = [log[g] EXCEPT !.text = x]
                  \/ Kind(p) # "ccninfo" /\ \E c \in Chatter(Kind(p)) :
                        e = [log[g] EXCEPT !.lines = @ \union Marker(p) \union c]
  BY DEF LogAfter, LogTexts
<1>3. Marker(p) \subseteq LogLines /\ (COMPLETED_MARKER \in Marker(p) <=> Kind(p) = "get" /\ proc[p].done)
  BY DEF Marker, LogLines
<1>4. \A c \in Chatter(Kind(p)) : c \subseteq LogLines /\ COMPLETED_MARKER \notin c
  BY DEF Chatter, LogLines, COMPLETED_MARKER, FIELD, PUB_DELIVERED_MARKER
<1>5. Leaves(e)
  <2>1. CASE e = log[g] /\ (killed \/ log[g].by # p)
    BY <1>1, <2>1
  <2>2. CASE Kind(p) = "ccninfo" /\ \E x \in LogTexts : e = [log[g] EXCEPT !.text = x]
    BY <1>1, <2>2
  <2>3. ASSUME NEW c \in Chatter(Kind(p)), e = [log[g] EXCEPT !.lines = @ \union Marker(p) \union c]
        PROVE Leaves(e)
    BY <1>1, <1>3, <1>4, <2>3
  <2>. QED
    BY <1>2, <2>1, <2>2, <2>3
<1>6. l \in [Names -> LogRec] /\ l[g] = e /\ \A f \in Names \ {g} : l[f] = log[f]
  BY <1>1, <1>2, <1>5
<1>. QED
  BY <1>1, <1>5, <1>6

\* The logs stay, and so does what they say of gets.
LEMMA LogKept ==
  ASSUME JudgeInv, UNCHANGED <<script, begun, pending, act, recs, log>>, outs \subseteq outs',
         \A q \in Ops : Kind(q) = "get" =>
            /\ proc[q].done => proc'[q].done
            /\ proc'[q].st = "exited" => proc'[q] = proc[q]
            /\ proc'[q].got => proc[q].got \/ OutputOf(q) \in outs'
  PROVE  LogInv'
<1>1. Ops' = Ops
  BY DEF Ops
<1>2. \A f \in Names : log[f].by # 0 => log[f].by \in Ops /\ f[1] = Kind(log[f].by)
  BY OpFacts DEF JudgeInv, JudgeTypes, LogInv
<1>3. \A f \in Names : f[1] = "get" /\ COMPLETED_MARKER \in log[f].lines =>
          log[f].by # 0 /\ proc'[log[f].by].done
  BY <1>2 DEF JudgeInv, LogInv
<1>4. \A q \in Ops : LogOpen(q)' = LogOpen(q)
  BY DEF LogOpen, Holds, Busy
<1>5. act["worker"].ph # "idle" => act["worker"].op \in Ops
  BY DEF JudgeInv, JudgeTypes, OwnInv, Threads
<1>6. (act["worker"].ph \in {"poll", "check", "judge"} /\ Kind(act["worker"].op) = "get"
        /\ proc'[act["worker"].op].got) => OutputOf(act["worker"].op) \in outs'
  BY <1>5 DEF JudgeInv, LogInv
<1>7. \A q \in Ops : /\ Kind(q) = "get" /\ log[content_log_name(q)].by = q
                     /\ proc'[q].st = "exited" /\ proc'[q].done
          => COMPLETED_MARKER \in log[content_log_name(q)].lines
  BY DEF JudgeInv, LogInv
<1>. QED
  BY <1>1, <1>3, <1>4, <1>6, <1>7 DEF JudgeInv, LogInv, Kind, OutputOf, content_log_name

\* A get receives content, or has received all of it.
LEMMA GetStep ==
  ASSUME JudgeInv, NEW p \in Ops, GetReceives(p) \/ GetCompletes(p)
  PROVE  JudgeInv'
<1>1. UNCHANGED <<script, begun, log, arts, resp, pending, act, result, cancel, recs, published,
                  seen, lost, emptied>>
  BY DEF GetReceives, GetCompletes
<1>2. proc[p].st = "run" /\ Kind(p) = "get" /\ proc \in [Ops -> ProcState] /\ proc[p] \in ProcState
  BY DEF GetReceives, GetCompletes, IsRunning, JudgeInv, JudgeTypes
<1>3. \/ proc' = [proc EXCEPT ![p].got = TRUE] /\ outs' = outs \union {OutputOf(p)}
      \/ proc' = [proc EXCEPT ![p].done = TRUE] /\ proc[p].got /\ outs' = outs
  BY DEF GetReceives, GetCompletes
<1>4. /\ proc' \in [Ops -> ProcState] /\ \A q \in Ops \ {p} : proc'[q] = proc[q]
      /\ proc'[p].st = "run" /\ proc'[p].got /\ (proc[p].done => proc'[p].done)
      /\ outs \subseteq outs' /\ (proc[p].got \/ OutputOf(p) \in outs')
  <2>1. CASE proc' = [proc EXCEPT ![p].got = TRUE] /\ outs' = outs \union {OutputOf(p)}
    BY <1>2, <2>1 DEF ProcState
  <2>2. CASE proc' = [proc EXCEPT ![p].done = TRUE] /\ proc[p].got /\ outs' = outs
    BY <1>2, <2>2 DEF ProcState
  <2>. QED
    BY <1>3, <2>1, <2>2
<1>5. OwnInv' /\ KindInv' /\ OrderInv' /\ Ops' = Ops
  BY <1>1, ThreadsKept
<1>6. ProcInv' /\ \A i \in DOMAIN recs : recs[i].op \in Ops \ {p}
  BY <1>1, <1>2, <1>4, ProcessKept
<1>7. LogInv'
  BY <1>1, <1>2, <1>4, LogKept
<1>8. ArtInv'
  BY <1>1, <1>2, <1>4, ArtKept DEF JudgeInv, JudgeTypes
<1>9. RespInv'
  BY <1>1, <1>2, <1>4, RespKept
<1>10. RecInv'
  BY <1>1, <1>4, <1>6, RecordsKept DEF JudgeInv, RecInv
<1>11. JudgeTypes'
  BY <1>1, <1>4, <1>5 DEF JudgeInv, JudgeTypes, OutputOf
<1>. QED
  BY <1>5, <1>6, <1>7, <1>8, <1>9, <1>10, <1>11 DEF JudgeInv

\* A subscriber creates its output file.
LEMMA SubCreatesStep ==
  ASSUME JudgeInv, NEW p \in Ops, SubCreates(p)
  PROVE  JudgeInv'
<1>1. /\ UNCHANGED <<script, begun, log, outs, resp, pending, act, result, cancel, recs, published,
                     seen, lost, emptied>>
      /\ proc' = [proc EXCEPT ![p].got = TRUE]
      /\ arts' = arts \union {[dir |-> OutputOf(p), by |-> p, full |-> FALSE]}
  BY DEF SubCreates
<1>2. /\ proc[p].st = "run" /\ Kind(p) = "sub" /\ proc \in [Ops -> ProcState]
      /\ proc[p] \in ProcState /\ ~proc[p].got /\ ~proc[p].done
  BY DEF SubCreates, IsRunning, JudgeInv, JudgeTypes, ProcInv
<1>4. /\ proc' \in [Ops -> ProcState] /\ \A q \in Ops \ {p} : proc'[q] = proc[q]
      /\ proc'[p].st = "run" /\ proc'[p].got /\ proc'[p].done = FALSE
  BY <1>1, <1>2 DEF ProcState
<1>5. OwnInv' /\ KindInv' /\ OrderInv' /\ Ops' = Ops
  BY <1>1, ThreadsKept
<1>6. ProcInv' /\ \A i \in DOMAIN recs : recs[i].op \in Ops \ {p}
  BY <1>1, <1>2, <1>4, ProcessKept
<1>7. LogInv'
  BY <1>1, <1>2, <1>4, LogKept
<1>8. ArtInv'
  <2>1. p \notin lost
    BY <1>2 DEF JudgeInv, ArtInv
  <2>. DEFINE c == [dir |-> OutputOf(p), by |-> p, full |-> FALSE]
  <2>2. /\ c.dir = OutputOf(p) /\ c.by = p /\ c.full = FALSE
        /\ c \in [dir : Places, by : Ops, full : BOOLEAN]
    <3>1. OutputOf(p) \in Places
      BY DEF Places
    <3>. QED
      BY <3>1
  <2>3. arts' = arts \union {c}
    BY <1>1
  <2>. HIDE DEF c
  <2>4. arts' \subseteq [dir : Places, by : Ops, full : BOOLEAN] /\ Places' = Places
    <3>1. Places' = Places
      BY <1>1, <1>5 DEF Places, OutputOf
    <3>. QED
      BY <2>2, <2>3, <3>1 DEF JudgeInv, ArtInv
  <2>5. ASSUME NEW a \in arts'
        PROVE  /\ Kind(a.by) = "sub" /\ a.dir = OutputOf(a.by)
               /\ proc'[a.by].got /\ a.by \notin lost /\ a.full = proc'[a.by].done
               /\ a.full => \A o \in Ops : Kind(o) = "sub" /\ proc'[o].st # "none"
                                /\ OutputOf(o) = a.dir => a.by \in seen[o]
    <3>1. CASE a = c
      BY <1>2, <1>4, <2>1, <2>2, <3>1
    <3>2. CASE a \in arts
      <4>1. a.by \in Ops
        BY <3>2 DEF JudgeInv, ArtInv
      <4>2. a.by # p
        BY <1>2, <3>2 DEF JudgeInv, ArtInv
      <4>. QED
        BY <1>2, <1>4, <3>2, <4>1, <4>2 DEF JudgeInv, ArtInv
    <3>. QED
      BY <2>3, <3>1, <3>2
  <2>6. \A o \in Ops : Kind(o) = "sub" /\ proc'[o].got => o \in lost \/ \E a \in arts' : a.by = o
    BY <1>2, <1>4, <2>2, <2>3 DEF JudgeInv, ArtInv
  <2>7. \A o \in lost : proc'[o].got
    BY <1>4 DEF JudgeInv, ArtInv, JudgeTypes
  <2>. QED
    BY <1>1, <1>5, <2>4, <2>5, <2>6, <2>7 DEF JudgeInv, ArtInv, Kind, OutputOf
<1>9. RespInv'
  BY <1>1, <1>2, <1>4, RespKept
<1>10. RecInv'
  BY <1>1, <1>4, <1>6, RecordsKept DEF JudgeInv, RecInv
<1>11. JudgeTypes'
  BY <1>1, <1>4, <1>5 DEF JudgeInv, JudgeTypes, OutputOf
<1>. QED
  BY <1>5, <1>6, <1>7, <1>8, <1>9, <1>10, <1>11 DEF JudgeInv

\* A subscriber writes the content, into a file that may have been removed.
LEMMA SubWritesStep ==
  ASSUME JudgeInv, NEW p \in Ops, SubWrites(p)
  PROVE  JudgeInv'
<1>1. /\ UNCHANGED <<script, begun, log, outs, resp, pending, act, result, cancel, recs, published,
                     lost, emptied>>
      /\ proc' = [proc EXCEPT ![p].done = TRUE]
      /\ arts' = {IF a.by = p THEN [a EXCEPT !.full = TRUE] ELSE a : a \in arts}
      /\ seen' = [o \in Ops |->
                     IF o \in emptied /\ OutputOf(o) = OutputOf(p) /\ p \notin lost
                     THEN seen[o] \union {p} ELSE seen[o]]
  BY DEF SubWrites
<1>2. /\ proc[p].st = "run" /\ Kind(p) = "sub" /\ proc \in [Ops -> ProcState]
      /\ proc[p] \in ProcState /\ proc[p].got
  BY DEF SubWrites, IsRunning, JudgeInv, JudgeTypes
<1>4. /\ proc' \in [Ops -> ProcState] /\ \A q \in Ops \ {p} : proc'[q] = proc[q]
      /\ proc'[p].st = "run" /\ proc'[p].got /\ proc'[p].done = TRUE
  BY <1>1, <1>2 DEF ProcState
<1>5. OwnInv' /\ KindInv' /\ OrderInv' /\ Ops' = Ops
  BY <1>1, ThreadsKept
<1>6. ProcInv' /\ \A i \in DOMAIN recs : recs[i].op \in Ops \ {p}
  BY <1>1, <1>2, <1>4, ProcessKept
<1>7. LogInv'
  BY <1>1, <1>2, <1>4, LogKept
<1>3. \A o \in Ops : seen[o] \subseteq seen'[o] /\ seen'[o] \subseteq Ops
  BY <1>1 DEF JudgeInv, JudgeTypes
<1>8. ArtInv'
  <2>0. arts \subseteq [dir : Places, by : Ops, full : BOOLEAN]
    BY DEF JudgeInv, ArtInv
  <2>00. /\ emptied \subseteq Ops /\ \A o \in emptied : o \in begun /\ Kind(o) = "sub"
         /\ \A o \in Ops : Kind(o) = "sub" /\ proc[o].st # "none" => o \in emptied
    BY DEF JudgeInv, ArtInv, JudgeTypes
  <2>5. \A o \in Ops : Kind(o) = "sub" /\ proc'[o].st # "none" => o \in emptied
    BY <1>2, <1>4, <2>00
  <2>1. ASSUME NEW b \in arts'
        PROVE  /\ b \in [dir : Places, by : Ops, full : BOOLEAN]
               /\ Kind(b.by) = "sub" /\ b.dir = OutputOf(b.by)
               /\ proc'[b.by].got /\ b.by \notin lost /\ b.full = proc'[b.by].done
               /\ b.full => \A o \in emptied : OutputOf(o) = b.dir => b.by \in seen'[o]
    <3>1. PICK a \in arts : b = IF a.by = p THEN [a EXCEPT !.full = TRUE] ELSE a
      BY <1>1
    <3>2. /\ a \in [dir : Places, by : Ops, full : BOOLEAN]
          /\ Kind(a.by) = "sub" /\ a.dir = OutputOf(a.by)
          /\ proc[a.by].got /\ a.by \notin lost /\ a.full = proc[a.by].done
          /\ a.full => \A o \in emptied : OutputOf(o) = a.dir => a.by \in seen[o]
      BY DEF JudgeInv, ArtInv
    <3>3. CASE a.by = p
      <4>1. /\ b \in [dir : Places, by : Ops, full : BOOLEAN]
            /\ b.by = p /\ b.dir = OutputOf(p) /\ b.full = TRUE
        BY <3>1, <3>2, <3>3
      <4>2. \A o \in emptied : OutputOf(o) = OutputOf(p) => p \in seen'[o]
        BY <1>1, <2>00, <3>2, <3>3
      <4>. QED
        BY ZenonT(40), <1>2, <1>4, <3>2, <3>3, <4>1, <4>2
    <3>4. CASE a.by # p
      BY <1>1, <1>2, <1>3, <1>4, <2>00, <3>1, <3>2, <3>4
    <3>. QED
      BY <3>3, <3>4
  <2>2. ASSUME NEW o \in Ops, Kind(o) = "sub", proc'[o].got
        PROVE  o \in lost \/ \E b \in arts' : b.by = o
    <3>1. o \in lost \/ \E a \in arts : a.by = o
      BY <1>2, <1>4, <2>2 DEF JudgeInv, ArtInv
    <3>2. ASSUME NEW a \in arts, a.by = o PROVE \E b \in arts' : b.by = o
      <4>1. PICK b \in arts' : b = IF a.by = p THEN [a EXCEPT !.full = TRUE] ELSE a
        BY <1>1
      <4>. QED
        BY <2>0, <3>2, <4>1
    <3>. QED
      BY <3>1, <3>2
  <2>3. \A o \in lost : /\ Kind(o) = "sub" /\ proc'[o].got
                         /\ \E q \in begun : q > o /\ Kind(q) = "sub" /\ OutputOf(q) = OutputOf(o)
    <3>1. \A o \in lost : /\ o \in Ops /\ Kind(o) = "sub" /\ proc[o].got
                           /\ \E q \in begun : q > o /\ Kind(q) = "sub" /\ OutputOf(q) = OutputOf(o)
      BY DEF JudgeInv, ArtInv, JudgeTypes
    <3>2. \A o \in lost : proc'[o].got
      BY <3>1, <1>4
    <3>. QED
      BY <3>1, <3>2
  <2>4. arts' \subseteq [dir : Places, by : Ops, full : BOOLEAN] /\ Places' = Places
    BY <1>1, <1>5, <2>1 DEF Places, OutputOf
  <2>. QED
    BY ZenonT(40), <1>1, <1>5, <2>00, <2>1, <2>2, <2>3, <2>4, <2>5 DEF ArtInv, Kind, OutputOf
<1>9. RespInv'
  BY <1>1, <1>2, <1>4, RespKept
<1>10. RecInv'
  BY <1>1, <1>3, <1>4, <1>6, RecordsKept DEF JudgeInv, RecInv
<1>11. JudgeTypes'
  BY <1>1, <1>4, <1>5 DEF JudgeInv, JudgeTypes, OutputOf
<1>. QED
  BY <1>5, <1>6, <1>7, <1>8, <1>9, <1>10, <1>11 DEF JudgeInv

\* A process ends by itself or is terminated: its log keeps its meaning.
LEMMA LogEnds ==
  ASSUME JudgeInv, NEW p \in Ops, NEW killed \in BOOLEAN, proc[p].st = "run",
         log' \in LogAfter(p, killed), UNCHANGED <<script, begun, outs>>,
         \A q \in Ops \ {p} : proc'[q] = proc[q],
         proc'[p].got = proc[p].got, proc'[p].done = proc[p].done,
         proc'[p].st = IF killed THEN "killed" ELSE "exited",
         \A q \in Ops : LogOpen(q)' => LogOpen(q),
         act'["worker"].op = act["worker"].op,
         act'["worker"].ph \in {"poll", "check", "judge"} => act["worker"].ph \in {"poll", "check", "judge"}
  PROVE  LogInv'
<1>1. Ops' = Ops
  BY DEF Ops
<1>2. PICK l : l = log'
  OBVIOUS
<1>3. /\ \A f \in Names : l[f].by = log[f].by /\ log[f].lines \subseteq l[f].lines
      /\ \A f \in Names : COMPLETED_MARKER \in l[f].lines =>
            \/ COMPLETED_MARKER \in log[f].lines
            \/ f = content_log_name(p) /\ Kind(p) = "get" /\ proc[p].done
      /\ (~killed /\ log[content_log_name(p)].by = p /\ Kind(p) = "get" /\ proc[p].done) =>
            COMPLETED_MARKER \in l[content_log_name(p)].lines
  BY <1>2, LogAfterFacts DEF JudgeInv
<1>4. \A f \in Names : log[f].by # 0 => log[f].by \in Ops
  BY DEF JudgeInv, JudgeTypes, LogInv
<1>5. \A q \in Ops : content_log_name(q) \in Names /\ q # 0
  BY OpFacts DEF JudgeInv, JudgeTypes
<1>6. Kind(p) = "get" => log[content_log_name(p)].by = p
  BY WorkerOwnsLog DEF JudgeInv, ProcInv, ContentKinds
<1>7. \A f \in Names : f[1] = "get" /\ COMPLETED_MARKER \in l[f].lines =>
          l[f].by # 0 /\ proc'[l[f].by].done
  <2>. SUFFICES ASSUME NEW f \in Names, f[1] = "get", COMPLETED_MARKER \in l[f].lines
                PROVE  l[f].by # 0 /\ proc'[l[f].by].done
    OBVIOUS
  <2>1. log[f].by # 0 /\ proc[log[f].by].done
    BY <1>3, <1>5, <1>6 DEF JudgeInv, LogInv
  <2>. QED
    BY <1>3, <1>4, <2>1
<1>8. \A q \in Ops : /\ Kind(q) = "get" /\ l[content_log_name(q)].by = q
                     /\ proc'[q].st = "exited" /\ proc'[q].done
          => COMPLETED_MARKER \in l[content_log_name(q)].lines
  <2>. SUFFICES ASSUME NEW q \in Ops, Kind(q) = "get", l[content_log_name(q)].by = q,
                       proc'[q].st = "exited", proc'[q].done
                PROVE  COMPLETED_MARKER \in l[content_log_name(q)].lines
    OBVIOUS
  <2>1. log[content_log_name(q)].by = q /\ content_log_name(q) \in Names
    BY <1>3, <1>5
  <2>2. CASE q = p
    BY <1>3, <2>1, <2>2
  <2>3. CASE q # p
    BY <1>3, <2>1, <2>3 DEF JudgeInv, LogInv
  <2>. QED
    BY <2>2, <2>3
<1>9. \A q \in Ops : LogOpen(q)' /\ Kind(q) \in ContentKinds => q <= l[content_log_name(q)].by
  BY <1>3, <1>5 DEF JudgeInv, LogInv
<1>10. (act'["worker"].ph \in {"poll", "check", "judge"} /\ Kind(act["worker"].op) = "get"
        /\ proc'[act["worker"].op].got) => OutputOf(act["worker"].op) \in outs
  <2>1. act["worker"].ph # "idle" => act["worker"].op \in Ops
    BY DEF JudgeInv, JudgeTypes, OwnInv, Threads
  <2>2. \A q \in Ops : proc'[q].got = proc[q].got
    OBVIOUS
  <2>. QED
    BY <2>1, <2>2 DEF JudgeInv, LogInv
<1>11. \A f \in Names : l[f].by # 0 =>
          /\ l[f].by \in begun /\ content_log_name(l[f].by) = f
          /\ Kind(l[f].by) \in ContentKinds
  BY <1>3 DEF JudgeInv, LogInv
<1>. QED
  BY <1>1, <1>2, <1>7, <1>8, <1>9, <1>10, <1>11 DEF LogInv, Kind, OutputOf, content_log_name

\* A command ends by itself.
LEMMA ExitsStep ==
  ASSUME JudgeInv, NEW p \in Ops, Exits(p)
  PROVE  JudgeInv'
<1>1. /\ UNCHANGED <<script, begun, outs, arts, resp, pending, act, result, cancel, recs, published,
                     seen, lost, emptied>>
      /\ log' \in LogAfter(p, FALSE) /\ Kind(p) # "compute"
  BY DEF Exits
<1>2. proc[p].st = "run" /\ proc \in [Ops -> ProcState] /\ proc[p] \in ProcState
  BY DEF Exits, JudgeInv, JudgeTypes
<1>3. PICK rc \in {"zero", "nonzero"} : proc' = [proc EXCEPT ![p].st = "exited", ![p].rc = rc]
  BY DEF Exits
<1>4. /\ proc' \in [Ops -> ProcState] /\ \A q \in Ops \ {p} : proc'[q] = proc[q]
      /\ proc'[p].st = "exited" /\ proc'[p].rc = rc /\ proc'[p].got = proc[p].got
      /\ proc'[p].done = proc[p].done /\ proc'[p].status = proc[p].status
  BY <1>2, <1>3 DEF ProcState
<1>5. OwnInv' /\ KindInv' /\ OrderInv' /\ Ops' = Ops
  BY <1>1, ThreadsKept
<1>6. ProcInv' /\ \A i \in DOMAIN recs : recs[i].op \in Ops \ {p}
  <2>1. proc'[p].done => proc'[p].got
    BY <1>4 DEF JudgeInv, ProcInv
  <2>. QED
    BY <1>1, <1>2, <1>4, <2>1, ProcessKept
<1>7. LogInv'
  <2>1. \A q \in Ops : LogOpen(q)' => LogOpen(q)
    BY <1>1 DEF LogOpen, Holds, Busy
  <2>. QED
    BY <1>1, <1>2, <1>4, <2>1, LogEnds
<1>8. ArtInv'
  BY <1>1, <1>2, <1>4, ArtKept DEF JudgeInv, JudgeTypes
<1>9. RespInv'
  BY <1>1, <1>2, <1>4, RespKept
<1>10. RecInv'
  BY <1>1, <1>4, <1>6, RecordsKept DEF JudgeInv, RecInv
<1>11. JudgeTypes'
  <2>1. PICK l : l = log'
    OBVIOUS
  <2>2. l \in [Names -> [by : Nat, lines : SUBSET LogLines, text : LogTexts]]
    BY <1>1, <2>1, LogAfterFacts DEF JudgeInv
  <2>. QED
    BY <1>1, <1>4, <1>5, <2>1, <2>2 DEF JudgeInv, JudgeTypes, OutputOf
<1>. QED
  BY <1>5, <1>6, <1>7, <1>8, <1>9, <1>10, <1>11 DEF JudgeInv

\* curl ends, with or without an answer.
LEMMA CurlExitsStep ==
  ASSUME JudgeInv, NEW p \in Ops, CurlExits(p)
  PROVE  JudgeInv'
<1>1. UNCHANGED <<script, begun, log, outs, arts, pending, act, result, cancel, recs, published,
                  seen, lost, emptied>>
  BY DEF CurlExits
<1>2. /\ proc[p].st = "run" /\ Kind(p) = "compute" /\ proc \in [Ops -> ProcState]
      /\ proc[p] \in ProcState
  BY DEF CurlExits, IsRunning, JudgeInv, JudgeTypes
<1>3. PICK st \in {"2xx", "other", "unreachable", "failed"} :
         /\ proc' = [proc EXCEPT ![p].st = "exited", ![p].status = st,
                        ![p].rc = IF st \in {"2xx", "other"} THEN "zero" ELSE "nonzero"]
         /\ resp' = IF st \in {"2xx", "other"}
                    THEN [resp EXCEPT ![OutputOf(p)] = [by |-> p, ok |-> st = "2xx"]] ELSE resp
  BY DEF CurlExits
<1>4. /\ proc' \in [Ops -> ProcState] /\ \A q \in Ops \ {p} : proc'[q] = proc[q]
      /\ proc'[p].st = "exited" /\ proc'[p].rc \in {"zero", "nonzero"} /\ proc'[p].got = proc[p].got
      /\ proc'[p].done = proc[p].done /\ proc'[p].status = st
  BY <1>2, <1>3 DEF ProcState
<1>5. OwnInv' /\ KindInv' /\ OrderInv' /\ Ops' = Ops
  BY <1>1, ThreadsKept
<1>6. ProcInv' /\ \A i \in DOMAIN recs : recs[i].op \in Ops \ {p}
  <2>1. proc'[p].done => proc'[p].got
    BY <1>4 DEF JudgeInv, ProcInv
  <2>. QED
    BY <1>1, <1>2, <1>4, <2>1, ProcessKept
<1>7. LogInv'
  BY <1>1, <1>2, <1>4, LogKept
<1>8. ArtInv'
  BY <1>1, <1>2, <1>4, ArtKept DEF JudgeInv, JudgeTypes
<1>9. /\ resp' \in [Places -> [by : Nat, ok : BOOLEAN]] /\ Places' = Places
      /\ st = "2xx" => resp'[OutputOf(p)] = [by |-> p, ok |-> TRUE]
  <2>1. Places' = Places /\ OutputOf(p) \in Places
    BY <1>1, <1>5 DEF Places, OutputOf
  <2>2. resp \in [Places -> [by : Nat, ok : BOOLEAN]] /\ p \in Nat
    BY OpFacts DEF JudgeInv, JudgeTypes, Places
  <2>. QED
    BY <1>3, <2>1, <2>2
<1>10. RespInv'
  <2>1. act["sched"].op = p /\ act["sched"].ph \in {"poll", "check"}
    BY <1>2 DEF JudgeInv, ProcInv
  <2>. QED
    BY <1>1, <1>4, <1>9, <2>1 DEF RespInv, OutputOf
<1>11. RecInv'
  BY <1>1, <1>4, <1>6, RecordsKept DEF JudgeInv, RecInv
<1>12. JudgeTypes'
  BY <1>1, <1>4, <1>5, <1>9 DEF JudgeInv, JudgeTypes, Places
<1>. QED
  BY <1>5, <1>6, <1>7, <1>8, <1>10, <1>11, <1>12 DEF JudgeInv

-----------------------------------------------------------------------------
\* The dispatch.

\* The operation the worker has taken, or has just spawned, is the last one, and
\* nobody else's.
AtStart(o) == act["worker"].ph \in {"taken", "spawned"} /\ act["worker"].op = o

LEMMA AtStartFacts ==
  ASSUME JudgeInv, NEW o, AtStart(o)
  PROVE  /\ o \in Ops /\ o \in begun /\ Kind(o) \in ContentKinds /\ o \notin pending
         /\ \A t \in Threads : o \notin act[t].rest
         /\ \A t \in Threads : t # "worker" => ~Holds(t, o)
         /\ \A i \in DOMAIN recs : recs[i].op # o
         /\ \A p \in begun : Kind(p) \in ContentKinds => p <= o
<1>1. /\ act["worker"].ph \in {"taken", "spawned"} /\ act["worker"].op = o
      /\ o \in Ops /\ o \in begun /\ Busy("worker") /\ Holds("worker", o)
  BY DEF AtStart, JudgeInv, JudgeTypes, OwnInv, Busy, Holds, Threads
<1>2. Kind(o) \in ContentKinds /\ o \notin pending
  BY <1>1 DEF JudgeInv, KindInv, OwnInv, Threads
<1>3. \A t \in Threads : o \notin act[t].rest /\ (t # "worker" => ~Holds(t, o))
  BY <1>1 DEF JudgeInv, OwnInv, Holds, Threads
<1>4. \A i \in DOMAIN recs : recs[i].op # o
  BY <1>1 DEF JudgeInv, OwnInv, Threads
<1>5. \A p \in begun : Kind(p) \in ContentKinds => p <= o
  BY <1>1 DEF JudgeInv, OrderInv
<1>. QED
  BY <1>1, <1>2, <1>3, <1>4, <1>5

LEMMA TakenFacts ==
  ASSUME JudgeInv, NEW o, NEW kinds, Taken(o, kinds)
  PROVE  /\ AtStart(o)
         /\ act["worker"].ph = "taken" /\ act["worker"].op = o /\ Kind(o) \in kinds
         /\ o \in Ops /\ o \in begun /\ Kind(o) \in ContentKinds /\ o \notin pending
         /\ proc[o].st = "none" /\ ~proc[o].got /\ ~proc[o].done
         /\ \A t \in Threads : o \notin act[t].rest
         /\ \A t \in Threads : t # "worker" => ~Holds(t, o)
         /\ \A i \in DOMAIN recs : recs[i].op # o
         /\ \A p \in begun : Kind(p) \in ContentKinds => p <= o
         /\ \A q \in Ops : proc[q].st = "run" => Kind(q) \in {"sub", "compute"}
<1>1. AtStart(o) /\ act["worker"].ph = "taken" /\ act["worker"].op = o /\ Kind(o) \in kinds
  BY DEF Taken, AtStart
<1>2. o \in Ops
  BY <1>1, AtStartFacts
<1>3. proc[o].st = "none" /\ ~proc[o].got /\ ~proc[o].done
  BY <1>1, <1>2 DEF JudgeInv, ProcInv
<1>4. \A q \in Ops : proc[q].st = "run" => Kind(q) \in {"sub", "compute"}
  BY <1>1, OpFacts DEF JudgeInv, JudgeTypes, ProcInv, Kinds, ContentKinds
<1>. QED
  BY <1>1, <1>3, <1>4, AtStartFacts

\* The log of the operation that was taken is opened.
LEMMA LogOpens ==
  ASSUME JudgeInv, NEW o, NEW kinds, Taken(o, kinds), log' = Opened(o),
         UNCHANGED <<script, begun>>,
         \A q \in Ops \ {o} : proc'[q] = proc[q],
         proc'[o].done = proc[o].done, proc'[o].got = proc[o].got,
         \A q \in Ops : LogOpen(q)' => LogOpen(q) \/ q = o,
         act'["worker"].ph \in {"poll", "check", "judge"} => act'["worker"].op = o
  PROVE  LogInv' /\ log' \in [Names -> [by : Nat, lines : SUBSET LogLines, text : LogTexts]]
<1>1. Ops' = Ops
  BY DEF Ops
<1>2. /\ o \in Ops /\ o \in begun /\ Kind(o) \in ContentKinds /\ ~proc[o].got /\ ~proc[o].done
      /\ \A p \in begun : Kind(p) \in ContentKinds => p <= o
  BY TakenFacts
<1>3. o \in Nat /\ o # 0 /\ content_log_name(o) \in Names
  BY <1>2, OpFacts DEF JudgeInv, JudgeTypes
<1>. DEFINE g == content_log_name(o)
<1>4. /\ log'[g].by = o /\ log'[g].lines = {} /\ \A f \in Names \ {g} : log'[f] = log[f]
      /\ log' \in [Names -> [by : Nat, lines : SUBSET LogLines, text : LogTexts]]
  <2>1. EmptyLog(o) \in [by : Nat, lines : SUBSET LogLines, text : LogTexts]
    BY <1>3 DEF EmptyLog, LogTexts
  <2>2. EmptyLog(o).by = o /\ EmptyLog(o).lines = {}
    BY DEF EmptyLog
  <2>. QED
    BY <1>3, <2>1, <2>2 DEF Opened, JudgeInv, JudgeTypes
<1>5. \A q \in Ops : proc'[q].done = proc[q].done /\ proc'[q].got = proc[q].got
  OBVIOUS
<1>6. \A q \in Ops : LogOpen(q) => q \in begun
  BY DEF LogOpen, JudgeInv, OwnInv
<1>7. \A f \in Names : log[f].by # 0 => log[f].by \in Ops
  BY DEF JudgeInv, JudgeTypes, LogInv
<1>8. \A q \in Ops : content_log_name(q) \in Names
  BY OpFacts DEF JudgeInv, JudgeTypes
<1>9. \A f \in Names : log'[f].by # 0 =>
          /\ log'[f].by \in begun /\ content_log_name(log'[f].by) = f
          /\ Kind(log'[f].by) \in ContentKinds
  BY <1>2, <1>4 DEF JudgeInv, LogInv
<1>10. \A f \in Names : f[1] = "get" /\ COMPLETED_MARKER \in log'[f].lines =>
          log'[f].by # 0 /\ proc'[log'[f].by].done
  BY <1>4, <1>5, <1>7 DEF JudgeInv, LogInv
<1>11. \A q \in Ops : /\ Kind(q) = "get" /\ log'[content_log_name(q)].by = q
                      /\ proc'[q].st = "exited" /\ proc'[q].done
          => COMPLETED_MARKER \in log'[content_log_name(q)].lines
  <2>. SUFFICES ASSUME NEW q \in Ops, Kind(q) = "get", log'[content_log_name(q)].by = q,
                       proc'[q].st = "exited", proc'[q].done
                PROVE  COMPLETED_MARKER \in log'[content_log_name(q)].lines
    OBVIOUS
  <2>1. q # o
    BY <1>2
  <2>2. content_log_name(q) # g
    BY <1>4, <2>1
  <2>. QED
    BY <1>4, <1>8, <2>1, <2>2 DEF JudgeInv, LogInv
<1>12. \A q \in Ops : LogOpen(q)' /\ Kind(q) \in ContentKinds => q <= log'[content_log_name(q)].by
  <2>. SUFFICES ASSUME NEW q \in Ops, LogOpen(q)', Kind(q) \in ContentKinds
                PROVE  q <= log'[content_log_name(q)].by
    OBVIOUS
  <2>1. q <= o
    BY <1>2, <1>3, <1>6
  <2>2. CASE content_log_name(q) = g
    BY <1>4, <2>1, <2>2
  <2>3. CASE content_log_name(q) # g
    BY <1>4, <1>8, <2>3 DEF JudgeInv, LogInv
  <2>. QED
    BY <2>2, <2>3
<1>13. (act'["worker"].ph \in {"poll", "check", "judge"} /\ Kind(act'["worker"].op) = "get")
          => ~proc'[act'["worker"].op].got
  BY <1>2
<1>. QED
  BY <1>1, <1>4, <1>9, <1>10, <1>11, <1>12, <1>13 DEF LogInv, Kind, content_log_name

\* The evidence of subscriptions stays when processes start, but for what the new
\* one is.
LEMMA StartKeeps ==
  ASSUME JudgeInv, NEW o, NEW kinds, Taken(o, kinds),
         UNCHANGED <<script, begun, resp, result, cancel, recs, published, seen>>,
         act'["main"] = act["main"], act'["sched"] = act["sched"],
         proc' = proc \/ proc' = Running(o)
  PROVE  /\ RespInv' /\ RecInv'
         /\ proc' \in [Ops -> ProcState] /\ \A q \in Ops \ {o} : proc'[q] = proc[q]
         /\ proc'[o].got = proc[o].got /\ proc'[o].done = proc[o].done
         /\ proc'[o].status = proc[o].status /\ proc'[o].rc = proc[o].rc
         /\ proc'[o].st \in {"none", "run"}
         /\ proc' = Running(o) => proc'[o].st = "run"
         /\ proc' = proc => proc'[o].st = "none"
<1>1. o \in Ops /\ proc[o].st = "none" /\ \A i \in DOMAIN recs : recs[i].op # o
  BY TakenFacts
<1>2. proc \in [Ops -> ProcState] /\ proc[o] \in ProcState
  BY <1>1 DEF JudgeInv, JudgeTypes
<1>3. /\ proc' \in [Ops -> ProcState] /\ \A q \in Ops \ {o} : proc'[q] = proc[q]
      /\ proc'[o].got = proc[o].got /\ proc'[o].done = proc[o].done
      /\ proc'[o].status = proc[o].status /\ proc'[o].rc = proc[o].rc
      /\ proc'[o].st \in {"none", "run"}
      /\ proc' = Running(o) => proc'[o].st = "run"
      /\ proc' = proc => proc'[o].st = "none"
  <2>1. CASE proc' = proc /\ proc' # Running(o)
    BY <1>1, <1>2, <2>1
  <2>2. CASE proc' = Running(o)
    <3>1. proc' = [proc EXCEPT ![o].st = "run"]
      BY <2>2 DEF Running
    <3>2. proc'[o].st = "run" /\ proc' # proc
      BY <1>1, <1>2, <3>1 DEF ProcState
    <3>. QED
      BY <1>1, <1>2, <3>1, <3>2 DEF ProcState
  <2>. QED
    BY <2>1, <2>2
<1>4. RespInv'
  BY <1>1, <1>3, RespKept
<1>5. RecInv'
  <2>1. \A i \in DOMAIN recs : recs[i].op \in Ops
    BY DEF JudgeInv, JudgeTypes, OwnInv
  <2>. QED
    BY <1>1, <1>3, <2>1, RecordsKept DEF JudgeInv, RecInv
<1>. QED
  BY <1>3, <1>4, <1>5

\* What the worker took is started, or not: who waits for which process.
LEMMA ProcStarts ==
  ASSUME JudgeInv, NEW o, NEW kinds, Taken(o, kinds), UNCHANGED <<script, begun, recs>>,
         \A q \in Ops \ {o} : proc'[q] = proc[q],
         proc'[o].got = proc[o].got, proc'[o].done = proc[o].done,
         proc'[o].status = proc[o].status, proc'[o].rc = proc[o].rc,
         proc'[o].st \in {"none", "run"},
         act'["main"] = act["main"], act'["sched"] = act["sched"],
         act'["worker"].ph \in {"idle", "spawned", "poll", "judge"},
         act'["worker"].ph # "idle" => act'["worker"].op = o,
         act'["worker"].ph \in {"poll", "judge"} => Kind(o) # "sub",
         act'["worker"].ph = "spawned" => proc'[o].st = "run",
         act'["worker"].ph = "judge" => proc'[o].st = "none",
         proc'[o].st = "run" /\ Kind(o) # "sub" => act'["worker"].ph = "poll",
         \A q \in pending' : q \in pending \/ (q = o /\ proc'[o].st = "run"),
         \A q \in act'["worker"].rest : q \in pending
  PROVE  ProcInv'
<1>1. /\ Ops' = Ops /\ \A q \in Ops : Kind(q)' = Kind(q)
      /\ act'["worker"].ph \in {"poll", "judge"} => (Kind(act["worker"].op) # "sub")'
  BY DEF Ops, Kind
<1>2. /\ act["worker"].ph = "taken" /\ act["worker"].op = o
      /\ o \in Ops /\ o \in begun /\ Kind(o) \in ContentKinds /\ o \notin pending
      /\ proc[o].st = "none" /\ ~proc[o].got /\ ~proc[o].done
      /\ \A t \in Threads : o \notin act[t].rest
      /\ \A t \in Threads : t # "worker" => ~Holds(t, o)
      /\ \A i \in DOMAIN recs : recs[i].op # o
      /\ \A q \in Ops : proc[q].st = "run" => Kind(q) \in {"sub", "compute"}
  BY TakenFacts
<1>3. /\ pending \subseteq Ops /\ \A t \in Threads : act[t].rest \subseteq Ops
      /\ \A t \in Threads : Busy(t) => act[t].op \in Ops
      /\ \A i \in DOMAIN recs : recs[i].op \in Ops
  BY DEF JudgeInv, JudgeTypes, OwnInv, Busy
<1>4. /\ \A q \in Ops \ begun : proc'[q].st = "none"
      /\ \A q \in Ops : proc'[q].st = "none" =>
           ~proc'[q].got /\ ~proc'[q].done /\ proc'[q].status = "none"
      /\ \A q \in Ops : proc'[q].done => proc'[q].got
      /\ \A q \in Ops : proc'[q].st \in {"exited", "killed"} => proc'[q].rc \in {"zero", "nonzero"}
  BY <1>2 DEF JudgeInv, ProcInv
<1>5. \A q \in Ops : proc'[q].st = "run" =>
          /\ Kind(q) \in ContentKinds \ {"sub"} =>
                act'["worker"].op = q /\ act'["worker"].ph \in {"poll", "check"}
          /\ Kind(q) = "compute" => act'["sched"].op = q /\ act'["sched"].ph \in {"poll", "check"}
  BY <1>2 DEF JudgeInv, ProcInv, ContentKinds
<1>6. \A i \in DOMAIN recs : proc'[recs[i].op].st # "run"
  BY <1>2, <1>3 DEF JudgeInv, ProcInv
<1>7. ASSUME NEW t \in {"main", "sched"}
      PROVE  /\ act[t].ph \in {"judge", "publish"} => proc'[act[t].op].st # "run"
             /\ \A q \in act[t].rest : proc'[q].st # "none"
             /\ act[t].ph \in {"spawned", "poll", "check", "judge"} /\ Kind(act[t].op) = "sub"
                   => proc'[act[t].op].st # "none"
  <2>1. t \in Threads /\ t # "worker" /\ ~Holds(t, o)
    BY <1>2 DEF Threads
  <2>2. Busy(t) => act[t].op # o
    BY <2>1 DEF Holds
  <2>3. Busy(t) => proc'[act[t].op] = proc[act[t].op]
    BY <1>3, <2>1, <2>2
  <2>4. \A q \in act[t].rest : proc'[q] = proc[q]
    BY <1>2, <1>3, <2>1
  <2>. QED
    BY <2>1, <2>3, <2>4 DEF JudgeInv, ProcInv, Busy
<1>8. \A q \in pending : proc'[q].st # "none"
  BY <1>2, <1>3 DEF JudgeInv, ProcInv
<1>9. \A t \in Threads : act'[t].ph \in {"judge", "publish"} => proc'[act'[t].op].st # "run"
  BY <1>7 DEF Threads
<1>10. \A t \in Threads : \A q \in act'[t].rest : proc'[q].st # "none"
  BY <1>7, <1>8 DEF Threads
<1>11. ASSUME NEW t \in Threads, act'[t].ph \in {"spawned", "poll", "check", "judge"},
              (Kind(act[t].op) = "sub")'
       PROVE  proc'[act'[t].op].st # "none"
  <2>1. CASE t = "worker"
    BY <1>1, <1>11, <2>1
  <2>2. CASE t # "worker"
    <3>1. t \in {"main", "sched"} /\ act'[t] = act[t]
      BY <2>2 DEF Threads
    <3>2. Kind(act[t].op) = "sub"
      BY <1>11, <3>1 DEF Kind
    <3>. QED
      BY <1>7, <1>11, <3>1, <3>2
  <2>. QED
    BY <2>1, <2>2
<1>12. \A q \in pending' : proc'[q].st # "none"
  BY <1>8
<1>. QED
  BY <1>1, <1>4, <1>5, <1>6, <1>9, <1>10, <1>11, <1>12 DEF ProcInv

\* A put, get or ccninfo starts.
LEMMA RunStartStep ==
  ASSUME JudgeInv, NEW o \in Ops, RunStart(o)
  PROVE  JudgeInv'
<1>. DEFINE K == {"get", "put", "ccninfo"}
<1>1. /\ UNCHANGED <<script, begun, arts, resp, pending, result, cancel, recs, published, seen, lost, emptied>>
      /\ Taken(o, K) /\ log' = Opened(o) /\ proc' = Running(o)
      /\ act' = Waits("worker", o, {})
  BY DEF RunStart, run_cefputfile, run_cefgetfile, run_ccninfo
<1>2. /\ act["worker"].ph = "taken" /\ act["worker"].op = o /\ Kind(o) \in K
      /\ o \in begun /\ Kind(o) \in ContentKinds /\ o \notin pending
      /\ proc[o].st = "none" /\ ~proc[o].got /\ ~proc[o].done
      /\ \A t \in Threads : o \notin act[t].rest
      /\ \A t \in Threads : t # "worker" => ~Holds(t, o)
      /\ \A i \in DOMAIN recs : recs[i].op # o
      /\ \A p \in begun : Kind(p) \in ContentKinds => p <= o
      /\ \A q \in Ops : proc[q].st = "run" => Kind(q) \in {"sub", "compute"}
  BY <1>1, TakenFacts
<1>3. /\ act'["worker"] = [ph |-> "poll", op |-> o, rest |-> {}]
      /\ act'["main"] = act["main"] /\ act'["sched"] = act["sched"]
      /\ act' \in [Threads -> [ph : JudgePhases, op : Nat, rest : SUBSET Ops]]
      /\ Ops' = Ops
  BY <1>1, OpFacts DEF Waits, Turns, JudgeInv, JudgeTypes, Threads, JudgePhases, Ops
<1>4. /\ RespInv' /\ RecInv'
      /\ proc' \in [Ops -> ProcState] /\ \A q \in Ops \ {o} : proc'[q] = proc[q]
      /\ proc'[o].got = proc[o].got /\ proc'[o].done = proc[o].done
      /\ proc'[o].status = proc[o].status /\ proc'[o].rc = proc[o].rc
      /\ proc'[o].st = "run"
  BY <1>1, <1>3, StartKeeps
<1>5. OwnInv'
  BY <1>1, <1>2, <1>3 DEF JudgeInv, OwnInv, Holds, Busy, Threads
<1>6. KindInv'
  BY <1>1, <1>2, <1>3 DEF JudgeInv, KindInv, Busy, Threads, Kind
<1>7. ProcInv'
  BY <1>1, <1>2, <1>3, <1>4, ProcStarts
<1>8. OrderInv'
  BY <1>1, <1>2, <1>3 DEF JudgeInv, OrderInv, Busy, Kind
<1>9. LogInv' /\ log' \in [Names -> [by : Nat, lines : SUBSET LogLines, text : LogTexts]]
  <2>1. \A q \in Ops : LogOpen(q)' => LogOpen(q) \/ q = o
    BY <1>1, <1>3 DEF LogOpen, Holds, Busy, Threads
  <2>. QED
    BY <1>1, <1>3, <1>4, <2>1, LogOpens
<1>10. ArtInv'
  BY <1>1, <1>2, <1>4, ArtKept DEF JudgeInv, JudgeTypes
<1>11. JudgeTypes'
  BY <1>1, <1>3, <1>4, <1>9 DEF JudgeInv, JudgeTypes, OutputOf
<1>. QED
  BY <1>4, <1>5, <1>6, <1>7, <1>8, <1>9, <1>10, <1>11 DEF JudgeInv

\* The worker goes on with what is in its hand, or puts it down: it becomes idle, or
\* it waits for that operation, judges it or has it to enter as pending.
LEMMA WorkerTurns ==
  ASSUME JudgeInv, NEW o, AtStart(o), UNCHANGED <<script, begun, recs>>,
         act' \in [Threads -> [ph : JudgePhases, op : Nat, rest : SUBSET Ops]],
         act'["main"] = act["main"], act'["sched"] = act["sched"],
         act'["worker"].ph \in {"idle", "spawned", "poll", "judge"},
         act'["worker"].ph = "idle" => act'["worker"].rest = {},
         act'["worker"].ph # "idle" => act'["worker"].op = o,
         act'["worker"].ph = "spawned" => Kind(o) = "sub",
         act'["worker"].rest \subseteq pending, act'["worker"].rest \cap pending' = {},
         pending' \subseteq pending \union {o},
         o \in pending' => act'["worker"].ph = "idle" /\ Kind(o) = "sub"
  PROVE  OwnInv' /\ KindInv' /\ OrderInv' /\ Ops' = Ops
<1>1. Ops' = Ops
  BY DEF Ops
<1>2. /\ act["worker"].op = o
      /\ o \in Ops /\ o \in begun /\ Kind(o) \in ContentKinds /\ o \notin pending
      /\ \A t \in Threads : o \notin act[t].rest
      /\ \A t \in Threads : t # "worker" => ~Holds(t, o)
      /\ \A i \in DOMAIN recs : recs[i].op # o
      /\ \A p \in begun : Kind(p) \in ContentKinds => p <= o
  BY AtStartFacts DEF AtStart
<1>3. OwnInv'
  <2>1. \A q \in Ops : Holds("worker", q)' => q = o \/ q \in pending
    BY DEF Holds, Busy
  <2>2. \A t \in {"main", "sched"}, q \in Ops : Holds(t, q)' = Holds(t, q)
    BY DEF Holds, Busy
  <2>3. \A t \in Threads, q \in Ops : Holds(t, q) => q \in begun /\ q \notin pending
    BY DEF JudgeInv, OwnInv
  <2>4. pending \subseteq begun /\ pending \subseteq Ops
    BY DEF JudgeInv, JudgeTypes, OwnInv
  <2>5. \A q \in Ops : Holds("worker", q)' => q \in begun /\ q \notin pending'
    BY <1>2, <2>1, <2>4 DEF Holds, Busy
  <2>6. ASSUME NEW t \in Threads, NEW q \in Ops, Holds(t, q)'
        PROVE  q \in begun /\ q \notin pending' /\ \A u \in Threads : u # t => ~Holds(u, q)'
    <3>1. CASE t = "worker"
      <4>1. q = o \/ q \in pending
        BY <2>1, <2>6, <3>1
      <4>2. \A u \in {"main", "sched"} : ~Holds(u, q)
        BY <1>2, <2>3, <4>1 DEF Threads
      <4>. QED
        BY <2>2, <2>5, <2>6, <3>1, <4>2 DEF Threads
    <3>2. CASE t # "worker"
      <4>1. t \in {"main", "sched"} /\ Holds(t, q)
        BY <2>2, <2>6, <3>2 DEF Threads
      <4>2. q # o /\ q \notin pending /\ q \in begun
        BY <1>2, <2>3, <3>2, <4>1
      <4>3. ~Holds("worker", q)'
        BY <2>1, <4>2
      <4>4. \A u \in {"main", "sched"} : u # t => ~Holds(u, q)'
        BY <2>2, <4>1 DEF JudgeInv, OwnInv, Threads
      <4>. QED
        BY <4>2, <4>3, <4>4 DEF Threads
    <3>. QED
      BY <3>1, <3>2
  <2>7. ASSUME NEW i \in DOMAIN recs
        PROVE  /\ recs[i].op \in begun /\ recs[i].op \notin pending'
               /\ \A t \in Threads : ~Holds(t, recs[i].op)'
    <3>1. /\ recs[i].op \in begun /\ recs[i].op \notin pending /\ recs[i].op # o
          /\ \A t \in Threads : ~Holds(t, recs[i].op)
      BY <1>2 DEF JudgeInv, OwnInv
    <3>2. recs[i].op \in Ops
      BY <3>1 DEF JudgeInv, JudgeTypes
    <3>. QED
      BY <2>1, <2>2, <3>1, <3>2 DEF Threads
  <2>8. \A t \in Threads : /\ act'[t].ph = "idle" => act'[t].rest = {}
                           /\ act'[t].ph # "idle" => act'[t].op \in begun
                           /\ Busy(t)' => act'[t].op \notin act'[t].rest
    BY <1>2 DEF JudgeInv, OwnInv, Busy, Threads
  <2>9. \A i \in DOMAIN recs' :
          /\ recs'[i].op \in begun /\ recs'[i].op \notin pending'
          /\ \A t \in Threads : ~Holds(t, recs[i].op)'
    BY <2>7
  <2>. QED
    BY <1>1, <1>2, <2>4, <2>6, <2>8, <2>9 DEF OwnInv
<1>4. KindInv'
  BY <1>1, <1>2 DEF JudgeInv, KindInv, Busy, Threads, Kind
<1>5. OrderInv'
  BY <1>1, <1>2 DEF JudgeInv, OrderInv, Busy, Kind
<1>. QED
  BY <1>1, <1>3, <1>4, <1>5

\* The worker becomes idle.
LEMMA WorkerIdles ==
  ASSUME JudgeInv, act' = [act EXCEPT !["worker"] = Idle]
  PROVE  /\ act'["worker"].ph = "idle" /\ act'["worker"].rest = {}
         /\ act'["main"] = act["main"] /\ act'["sched"] = act["sched"]
         /\ act' \in [Threads -> [ph : JudgePhases, op : Nat, rest : SUBSET Ops]]
BY DEF JudgeInv, JudgeTypes, Threads, JudgePhases, Idle

\* The start of a put, get or ccninfo raises.
LEMMA RunRaisesStep ==
  ASSUME JudgeInv, NEW o \in Ops, RunRaises(o)
  PROVE  JudgeInv'
<1>. DEFINE K == {"get", "put", "ccninfo"}
<1>1. /\ UNCHANGED <<script, begun, proc, outs, arts, resp, pending, result, cancel, recs, published,
                     seen, lost, emptied>>
      /\ Taken(o, K) /\ log' = Opened(o)
      /\ act' = IF Kind(o) = "ccninfo" THEN Turns("worker", "judge", o, {})
                ELSE [act EXCEPT !["worker"] = Idle]
  BY DEF RunRaises
<1>2. Kind(o) \in K /\ Kind(o) # "sub" /\ proc[o].st = "none" /\ o \notin pending
  BY <1>1, TakenFacts
<1>3. /\ act'["worker"].ph \in {"idle", "judge"} /\ act'["worker"].rest = {}
      /\ act'["worker"].ph # "idle" => act'["worker"].op = o
      /\ act'["main"] = act["main"] /\ act'["sched"] = act["sched"]
      /\ act' \in [Threads -> [ph : JudgePhases, op : Nat, rest : SUBSET Ops]]
  <2>1. CASE Kind(o) = "ccninfo"
    BY <1>1, <2>1, OpFacts DEF Turns, JudgeInv, JudgeTypes, Threads, JudgePhases
  <2>2. CASE Kind(o) # "ccninfo"
    BY <1>1, <2>2, WorkerIdles
  <2>. QED
    BY <2>1, <2>2
<1>4. OwnInv' /\ KindInv' /\ OrderInv' /\ Ops' = Ops
  <2>1. act'["worker"].rest \cap pending' = {} /\ act'["worker"].rest \subseteq pending
    BY <1>3
  <2>. QED
    BY <1>1, <1>2, <1>3, <2>1, TakenFacts, WorkerTurns
<1>5. ProcInv'
  BY <1>1, <1>2, <1>3, ProcStarts
<1>6. RespInv' /\ RecInv'
  BY <1>1, <1>3, StartKeeps
<1>7. LogInv' /\ log' \in [Names -> [by : Nat, lines : SUBSET LogLines, text : LogTexts]]
  <2>1. \A q \in Ops : LogOpen(q)' => LogOpen(q) \/ q = o
    BY <1>1, <1>3 DEF LogOpen, Holds, Busy, Threads
  <2>. QED
    BY <1>1, <1>3, <2>1, LogOpens
<1>8. ArtInv'
  BY <1>1, ArtKept DEF JudgeInv, JudgeTypes
<1>9. JudgeTypes'
  BY <1>1, <1>3, <1>4, <1>7 DEF JudgeInv, JudgeTypes, OutputOf
<1>. QED
  BY <1>4, <1>5, <1>6, <1>7, <1>8, <1>9 DEF JudgeInv

\* A publication is cancelled in its startup grace.
LEMMA PubCancelledStep ==
  ASSUME JudgeInv, PubCancelled
  PROVE  JudgeInv'
<1>1. PICK o : o = act["worker"].op
  OBVIOUS
<1>2. /\ UNCHANGED <<script, begun, proc, log, outs, arts, resp, pending, result, cancel, recs,
                     published, seen, lost, emptied>>
      /\ Taken(o, {"pub"}) /\ act' = [act EXCEPT !["worker"] = Idle]
  BY <1>1 DEF PubCancelled
<1>3. /\ act'["worker"].ph = "idle" /\ act'["worker"].rest = {}
      /\ act'["main"] = act["main"] /\ act'["sched"] = act["sched"]
      /\ act' \in [Threads -> [ph : JudgePhases, op : Nat, rest : SUBSET Ops]]
  BY <1>2, WorkerIdles
<1>4. Kind(o) = "pub" /\ proc[o].st = "none" /\ o \notin pending /\ o \in Ops
  BY <1>2, TakenFacts
<1>5. OwnInv' /\ KindInv' /\ OrderInv' /\ Ops' = Ops
  <2>1. act'["worker"].rest \cap pending' = {} /\ act'["worker"].rest \subseteq pending
    BY <1>3
  <2>. QED
    BY <1>2, <1>3, <1>4, <2>1, TakenFacts, WorkerTurns
<1>6. ProcInv'
  BY <1>2, <1>3, <1>4, ProcStarts
<1>7. RespInv' /\ RecInv'
  BY <1>2, <1>3, StartKeeps
<1>8. LogInv'
  <2>1. \A q \in Ops : LogOpen(q)' => LogOpen(q)
    BY <1>2, <1>3 DEF LogOpen, Holds, Busy, Threads
  <2>. QED
    BY <1>2, <1>3, <1>5, <2>1 DEF JudgeInv, LogInv, Kind, content_log_name, OutputOf
<1>9. ArtInv'
  BY <1>2, ArtKept DEF JudgeInv, JudgeTypes
<1>10. JudgeTypes'
  BY <1>2, <1>3, <1>5 DEF JudgeInv, JudgeTypes, OutputOf
<1>. QED
  BY <1>5, <1>6, <1>7, <1>8, <1>9, <1>10 DEF JudgeInv

\* A subscription empties its directory.
LEMMA SubClearsStep ==
  ASSUME JudgeInv, NEW o \in Ops, SubClears(o)
  PROVE  JudgeInv'
<1>1. /\ UNCHANGED <<script, begun, proc, log, outs, resp, pending, act, result, cancel, recs,
                     published, seen>>
      /\ Taken(o, {"sub"})
      /\ arts' = arts \ InDir(o) /\ lost' = lost \union {a.by : a \in InDir(o)}
      /\ emptied' = emptied \union {o}
  BY DEF SubClears
<1>2. /\ Kind(o) = "sub" /\ o \in begun /\ proc[o].st = "none" /\ ~proc[o].got /\ ~proc[o].done
      /\ Kind(o) \in ContentKinds
      /\ \A p \in begun : Kind(p) \in ContentKinds => p <= o
  BY <1>1, TakenFacts
<1>3. OwnInv' /\ KindInv' /\ OrderInv' /\ Ops' = Ops
  BY <1>1, ThreadsKept
<1>4. ProcInv'
  BY <1>1, <1>3 DEF JudgeInv, ProcInv, Kind
<1>5. LogInv'
  BY <1>1, <1>3 DEF JudgeInv, LogInv, LogOpen, Holds, Busy, Kind, content_log_name, OutputOf
<1>6. RespInv'
  BY <1>1 DEF JudgeInv, RespInv, Busy, OutputOf
<1>7. RecInv'
  BY <1>1, RecordsKept DEF JudgeInv, RecInv
<1>8. ArtInv' /\ lost' \subseteq Ops
  <2>0. Places' = Places
    BY <1>1, <1>3 DEF Places, OutputOf
  <2>1. \A a \in arts :
          /\ a \in [dir : Places, by : Ops, full : BOOLEAN]
          /\ Kind(a.by) = "sub" /\ a.dir = OutputOf(a.by)
          /\ proc[a.by].got /\ a.by \notin lost /\ a.full = proc[a.by].done
    BY DEF JudgeInv, ArtInv
  <2>2. \A a \in arts : a.by \in Ops /\ a.by # o
    BY <1>2, <2>1
  <2>3. ASSUME NEW a \in arts'
        PROVE  /\ a \in [dir : Places, by : Ops, full : BOOLEAN]
               /\ Kind(a.by) = "sub" /\ a.dir = OutputOf(a.by)
               /\ proc[a.by].got /\ a.by \notin lost' /\ a.full = proc[a.by].done
               /\ a.full => \A q \in emptied' : OutputOf(q) = a.dir => a.by \in seen[q]
    <3>1. a \in arts /\ a.dir # OutputOf(o)
      BY <1>1 DEF InDir
    <3>2. a.by \notin lost'
      <4>1. ASSUME NEW b \in InDir(o), b.by = a.by PROVE FALSE
        BY <2>1, <3>1, <4>1 DEF InDir
      <4>. QED
        BY <1>1, <2>1, <3>1, <4>1
    <3>3. a.full => \A q \in emptied' : OutputOf(q) = a.dir => a.by \in seen[q]
      BY <1>1, <3>1 DEF JudgeInv, ArtInv
    <3>. QED
      BY <2>1, <2>2, <3>1, <3>2, <3>3
  <2>4. \A q \in Ops : Kind(q) = "sub" /\ proc[q].got => q \in lost' \/ \E a \in arts' : a.by = q
    <3>. SUFFICES ASSUME NEW q \in Ops, Kind(q) = "sub", proc[q].got
                  PROVE  q \in lost' \/ \E a \in arts' : a.by = q
      OBVIOUS
    <3>1. q \in lost \/ \E a \in arts : a.by = q
      BY DEF JudgeInv, ArtInv
    <3>. QED
      BY <1>1, <3>1
  <2>5. ASSUME NEW q \in lost'
        PROVE  /\ q \in Ops /\ Kind(q) = "sub" /\ proc[q].got
               /\ \E r \in begun : r > q /\ Kind(r) = "sub" /\ OutputOf(r) = OutputOf(q)
    <3>1. CASE q \in lost
      BY <3>1 DEF JudgeInv, JudgeTypes, ArtInv
    <3>2. ASSUME NEW a \in InDir(o), q = a.by
          PROVE  /\ q \in Ops /\ Kind(q) = "sub" /\ proc[q].got
                 /\ \E r \in begun : r > q /\ Kind(r) = "sub" /\ OutputOf(r) = OutputOf(q)
      <4>1. a \in arts /\ a.dir = OutputOf(o)
        BY DEF InDir
      <4>2. q \in Ops /\ Kind(q) = "sub" /\ q # o /\ proc[q].got /\ OutputOf(q) = OutputOf(o)
        BY <2>1, <2>2, <3>2, <4>1
      <4>3. q \in begun
        BY <4>2 DEF JudgeInv, ProcInv
      <4>4. o > q
        <5>1. o \in Nat /\ q \in Nat
          BY <4>2, OpFacts DEF JudgeInv, JudgeTypes
        <5>2. q <= o
          BY <1>2, <4>2, <4>3
        <5>. QED
          BY <4>2, <5>1, <5>2
      <4>. QED
        BY <1>2, <4>2, <4>4
    <3>. QED
      BY <1>1, <3>1, <3>2
  <2>6. /\ \A q \in emptied' : q \in begun /\ Kind(q) = "sub"
        /\ \A q \in Ops : Kind(q) = "sub" /\ proc[q].st # "none" => q \in emptied'
    BY <1>1, <1>2 DEF JudgeInv, ArtInv
  <2>. QED
    BY <1>1, <1>3, <2>0, <2>3, <2>4, <2>5, <2>6 DEF ArtInv, Kind, OutputOf
<1>9. JudgeTypes'
  BY <1>1, <1>3, <1>8 DEF JudgeInv, JudgeTypes, OutputOf
<1>. QED
  BY <1>3, <1>4, <1>5, <1>6, <1>7, <1>8, <1>9 DEF JudgeInv

\* ... starts its process, or the start raises.
LEMMA SubSpawnsStep ==
  ASSUME JudgeInv, NEW o \in Ops, SubSpawns(o)
  PROVE  JudgeInv'
<1>1. /\ UNCHANGED <<script, begun, outs, arts, resp, pending, result, cancel, recs, published,
                     seen, lost, emptied>>
      /\ Taken(o, {"sub"}) /\ o \in emptied /\ log' = Opened(o)
      /\ \/ proc' = Running(o) /\ act' = Turns("worker", "spawned", o, {})
         \/ proc' = proc /\ act' = [act EXCEPT !["worker"] = Idle]
  BY DEF SubSpawns, start_cefsubfile
<1>2. /\ Kind(o) = "sub" /\ o \in begun /\ proc[o].st = "none" /\ ~proc[o].got /\ ~proc[o].done
      /\ o \notin pending /\ o \in Nat
  BY <1>1, TakenFacts, OpFacts DEF JudgeInv, JudgeTypes
<1>3. /\ act'["worker"].ph \in {"idle", "spawned"} /\ act'["worker"].rest = {}
      /\ act'["worker"].ph # "idle" => act'["worker"].op = o /\ proc' = Running(o)
      /\ act'["main"] = act["main"] /\ act'["sched"] = act["sched"]
      /\ act' \in [Threads -> [ph : JudgePhases, op : Nat, rest : SUBSET Ops]]
  <2>1. CASE proc' = Running(o) /\ act' = Turns("worker", "spawned", o, {})
    BY <1>2, <2>1 DEF Turns, JudgeInv, JudgeTypes, Threads, JudgePhases
  <2>2. CASE proc' = proc /\ act' = [act EXCEPT !["worker"] = Idle]
    BY <2>2, WorkerIdles
  <2>. QED
    BY <1>1, <2>1, <2>2
<1>4. /\ RespInv' /\ RecInv'
      /\ proc' \in [Ops -> ProcState] /\ \A q \in Ops \ {o} : proc'[q] = proc[q]
      /\ proc'[o].got = proc[o].got /\ proc'[o].done = proc[o].done
      /\ proc'[o].status = proc[o].status /\ proc'[o].rc = proc[o].rc
      /\ proc'[o].st \in {"none", "run"}
      /\ proc' = Running(o) => proc'[o].st = "run"
  <2>1. proc' = proc \/ proc' = Running(o)
    BY <1>1
  <2>. QED
    BY <1>1, <1>3, <2>1, StartKeeps
<1>5. OwnInv' /\ KindInv' /\ OrderInv' /\ Ops' = Ops
  <2>1. act'["worker"].rest \cap pending' = {} /\ act'["worker"].rest \subseteq pending
    BY <1>3
  <2>. QED
    BY <1>1, <1>2, <1>3, <2>1, TakenFacts, WorkerTurns
<1>6. ProcInv'
  BY <1>1, <1>2, <1>3, <1>4, ProcStarts
<1>7. LogInv' /\ log' \in [Names -> [by : Nat, lines : SUBSET LogLines, text : LogTexts]]
  <2>1. \A q \in Ops : LogOpen(q)' => LogOpen(q) \/ q = o
    BY <1>1, <1>3 DEF LogOpen, Holds, Busy, Threads
  <2>. QED
    BY <1>1, <1>3, <1>4, <2>1, LogOpens
<1>8. ArtInv'
  BY <1>1, <1>4, ArtKept DEF JudgeInv, JudgeTypes
<1>9. JudgeTypes'
  BY <1>1, <1>3, <1>4, <1>5, <1>7 DEF JudgeInv, JudgeTypes, OutputOf
<1>. QED
  BY <1>4, <1>5, <1>6, <1>7, <1>8, <1>9 DEF JudgeInv

\* ... and is entered as pending.
LEMMA SubPendsStep ==
  ASSUME JudgeInv, SubPends
  PROVE  JudgeInv'
<1>1. PICK o : o = act["worker"].op
  OBVIOUS
<1>2. /\ UNCHANGED <<script, begun, proc, log, outs, arts, resp, result, cancel, recs, published,
                     seen, lost, emptied>>
      /\ act["worker"].ph = "spawned" /\ pending' = pending \union {o}
      /\ act' = [act EXCEPT !["worker"] = Idle]
  BY <1>1 DEF SubPends
<1>3. /\ act'["worker"].ph = "idle" /\ act'["worker"].rest = {}
      /\ act'["main"] = act["main"] /\ act'["sched"] = act["sched"]
      /\ act' \in [Threads -> [ph : JudgePhases, op : Nat, rest : SUBSET Ops]]
  BY <1>2, WorkerIdles
<1>4. AtStart(o) /\ o \in Ops /\ Kind(o) = "sub" /\ Holds("worker", o)
  BY <1>1, <1>2, AtStartFacts DEF AtStart, JudgeInv, KindInv, Holds, Busy
<1>5. OwnInv' /\ KindInv' /\ OrderInv' /\ Ops' = Ops
  <2>1. /\ act'["worker"].rest \cap pending' = {} /\ act'["worker"].rest \subseteq pending
        /\ pending' \subseteq pending \union {o}
    BY <1>2, <1>3
  <2>. QED
    BY <1>2, <1>3, <1>4, <2>1, WorkerTurns
<1>6. ProcInv'
  <2>1. proc[o].st # "none" /\ \A q \in pending' : proc[q].st # "none"
    BY <1>1, <1>2, <1>4 DEF JudgeInv, ProcInv, Threads
  <2>2. \A q \in Ops : proc[q].st = "run" =>
          /\ Kind(q) \in ContentKinds \ {"sub"} =>
                act'["worker"].op = q /\ act'["worker"].ph \in {"poll", "check"}
          /\ Kind(q) = "compute" => act'["sched"].op = q /\ act'["sched"].ph \in {"poll", "check"}
    BY <1>2, <1>3 DEF JudgeInv, ProcInv
  <2>3. \A t \in Threads : t = "worker" \/ act'[t] = act[t]
    BY <1>3 DEF Threads
  <2>4. \A t \in Threads : \A q \in act'[t].rest : proc[q].st # "none"
    BY <1>3, <2>3 DEF JudgeInv, ProcInv
  <2>5. \A t \in Threads : act'[t].ph \in {"judge", "publish"} => proc[act'[t].op].st # "run"
    BY <1>3, <2>3 DEF JudgeInv, ProcInv
  <2>6. ASSUME NEW t \in Threads, act'[t].ph \in {"spawned", "poll", "check", "judge"},
               Kind(act'[t].op) = "sub"
        PROVE  proc[act'[t].op].st # "none"
    BY <1>3, <2>3, <2>6 DEF JudgeInv, ProcInv
  <2>. QED
    BY <1>2, <1>3, <1>5, <2>1, <2>2, <2>4, <2>5, <2>6 DEF JudgeInv, ProcInv, Kind
<1>7. RespInv'
  BY <1>2, <1>3 DEF JudgeInv, RespInv, Busy, OutputOf
<1>8. RecInv'
  BY <1>2, RecordsKept DEF JudgeInv, RecInv
<1>9. LogInv'
  <2>1. \A q \in Ops : LogOpen(q)' => LogOpen(q)
    BY <1>2, <1>3, <1>4 DEF LogOpen, Holds, Busy, Threads
  <2>. QED
    BY <1>2, <1>3, <1>5, <2>1 DEF JudgeInv, LogInv, Kind, content_log_name, OutputOf
<1>10. ArtInv'
  BY <1>2, ArtKept DEF JudgeInv, JudgeTypes
<1>11. JudgeTypes'
  BY <1>2, <1>3, <1>4, <1>5 DEF JudgeInv, JudgeTypes, OutputOf
<1>. QED
  BY <1>5, <1>6, <1>7, <1>8, <1>9, <1>10, <1>11 DEF JudgeInv

\* A publication takes the subscriptions of its URI and starts, or the start raises.
LEMMA PubStartStep ==
  ASSUME JudgeInv, PubStart
  PROVE  JudgeInv'
<1>1. PICK o : o = act["worker"].op
  OBVIOUS
<1>2. /\ UNCHANGED <<script, begun, outs, arts, resp, result, cancel, recs, published, seen, lost, emptied>>
      /\ Taken(o, {"pub"}) /\ log' = Opened(o) /\ pending' = pending \ SubsOf(o)
      /\ \/ proc' = Running(o) /\ act' = Waits("worker", o, SubsOf(o))
         \/ proc' = proc /\ act' = [act EXCEPT !["worker"] = Idle]
  BY <1>1 DEF PubStart, run_cefpubfile
<1>3. /\ Kind(o) = "pub" /\ proc[o].st = "none" /\ o \notin pending /\ o \in Ops
      /\ SubsOf(o) \subseteq pending /\ pending \subseteq Ops /\ o \in Nat
  BY <1>2, TakenFacts, OpFacts DEF SubsOf, JudgeInv, JudgeTypes
<1>4. /\ act'["worker"].ph \in {"idle", "poll"} /\ act'["worker"].rest \subseteq SubsOf(o)
      /\ act'["worker"].ph = "idle" => act'["worker"].rest = {} /\ proc' = proc
      /\ act'["worker"].ph # "idle" => act'["worker"].op = o /\ proc' = Running(o)
      /\ act'["main"] = act["main"] /\ act'["sched"] = act["sched"]
      /\ act' \in [Threads -> [ph : JudgePhases, op : Nat, rest : SUBSET Ops]]
  <2>1. CASE proc' = Running(o) /\ act' = Waits("worker", o, SubsOf(o))
    BY <1>3, <2>1 DEF Waits, Turns, JudgeInv, JudgeTypes, Threads, JudgePhases
  <2>2. CASE proc' = proc /\ act' = [act EXCEPT !["worker"] = Idle]
    BY <2>2, WorkerIdles
  <2>. QED
    BY <1>2, <2>1, <2>2
<1>5. /\ RespInv' /\ RecInv'
      /\ proc' \in [Ops -> ProcState] /\ \A q \in Ops \ {o} : proc'[q] = proc[q]
      /\ proc'[o].got = proc[o].got /\ proc'[o].done = proc[o].done
      /\ proc'[o].status = proc[o].status /\ proc'[o].rc = proc[o].rc
      /\ proc'[o].st \in {"none", "run"}
      /\ proc' = proc => proc'[o].st = "none"
  <2>1. proc' = proc \/ proc' = Running(o)
    BY <1>2
  <2>. QED
    BY <1>2, <1>4, <2>1, StartKeeps
<1>6. OwnInv' /\ KindInv' /\ OrderInv' /\ Ops' = Ops
  <2>1. /\ act'["worker"].rest \cap pending' = {} /\ act'["worker"].rest \subseteq pending
        /\ pending' \subseteq pending \union {o} /\ o \notin pending'
    BY <1>2, <1>3, <1>4
  <2>. QED
    BY <1>2, <1>3, <1>4, <2>1, TakenFacts, WorkerTurns
<1>7. ProcInv'
  <2>1. /\ \A q \in pending' : q \in pending
        /\ \A q \in act'["worker"].rest : q \in pending
        /\ proc'[o].st = "run" => act'["worker"].ph = "poll"
    BY <1>2, <1>3, <1>4, <1>5
  <2>. QED
    BY <1>2, <1>3, <1>4, <1>5, <2>1, ProcStarts
<1>8. LogInv' /\ log' \in [Names -> [by : Nat, lines : SUBSET LogLines, text : LogTexts]]
  <2>1. \A q \in Ops : LogOpen(q)' => LogOpen(q) \/ q = o
    BY <1>2, <1>3, <1>4 DEF LogOpen, Holds, Busy, Threads
  <2>. QED
    BY <1>2, <1>3, <1>4, <1>5, <2>1, LogOpens
<1>9. ArtInv'
  BY <1>2, <1>3, <1>5, ArtKept DEF JudgeInv, JudgeTypes
<1>10. JudgeTypes'
  <2>1. pending' \subseteq Ops
    BY <1>2, <1>3
  <2>. QED
    BY <1>2, <1>4, <1>5, <1>6, <1>8, <2>1 DEF JudgeInv, JudgeTypes, OutputOf
<1>. QED
  BY <1>5, <1>6, <1>7, <1>8, <1>9, <1>10 DEF JudgeInv

\* The scheduler makes a compute call.
LEMMA ComputeStartStep ==
  ASSUME JudgeInv, NEW o \in Ops, ComputeStart(o)
  PROVE  JudgeInv'
<1>1. /\ UNCHANGED <<script, log, outs, arts, resp, pending, result, cancel, recs, published, seen, lost, emptied>>
      /\ begun' = begun \union {o} /\ proc' = Running(o) /\ act' = Waits("sched", o, {})
      /\ act["sched"].ph = "idle" /\ o \notin begun /\ Kind(o) = "compute" /\ Ops' = Ops
  BY DEF ComputeStart, Next1, Ops
<1>2. /\ act'["sched"] = [ph |-> "poll", op |-> o, rest |-> {}]
      /\ act'["main"] = act["main"] /\ act'["worker"] = act["worker"]
      /\ act' \in [Threads -> [ph : JudgePhases, op : Nat, rest : SUBSET Ops]]
  BY <1>1, OpFacts DEF Waits, Turns, JudgeInv, JudgeTypes, Threads, JudgePhases
<1>3. /\ proc[o].st = "none" /\ ~proc[o].got /\ ~proc[o].done /\ proc[o].status = "none"
      /\ o \notin pending /\ \A t \in Threads : ~Holds(t, o)
      /\ \A i \in DOMAIN recs : recs[i].op \in Ops \ {o}
  BY <1>1 DEF JudgeInv, JudgeTypes, ProcInv, OwnInv
<1>4. /\ proc' \in [Ops -> ProcState] /\ \A q \in Ops \ {o} : proc'[q] = proc[q]
      /\ proc'[o].got = proc[o].got /\ proc'[o].done = proc[o].done
      /\ proc'[o].status = proc[o].status /\ proc'[o].rc = proc[o].rc
      /\ proc'[o].st = "run"
  <2>1. proc \in [Ops -> ProcState] /\ proc[o] \in ProcState
    BY DEF JudgeInv, JudgeTypes
  <2>. QED
    BY <1>1, <2>1 DEF Running, ProcState
<1>5. OwnInv'
  BY <1>1, <1>2, <1>3 DEF JudgeInv, OwnInv, Holds, Busy, Threads
<1>6. KindInv'
  BY <1>1, <1>2 DEF JudgeInv, KindInv, Busy, Threads, Kind
<1>7. OrderInv'
  BY <1>1, <1>2 DEF JudgeInv, OrderInv, Busy, Kind, ContentKinds
<1>8. ProcInv'
  <2>1. \A t \in {"main", "worker"} : act[t].ph # "idle" => act[t].op \in Ops \ {o}
    BY <1>1 DEF JudgeInv, JudgeTypes, OwnInv, Threads
  <2>2. \A t \in Threads : act[t].rest \subseteq Ops \ {o}
    BY <1>3 DEF Holds, JudgeInv, JudgeTypes
  <2>3. /\ \A q \in Ops \ begun' : proc'[q].st = "none"
        /\ \A q \in Ops : proc'[q].st = "none" =>
             ~proc'[q].got /\ ~proc'[q].done /\ proc'[q].status = "none"
        /\ \A q \in Ops : proc'[q].done => proc'[q].got
        /\ \A q \in Ops : proc'[q].st \in {"exited", "killed"} => proc'[q].rc \in {"zero", "nonzero"}
    BY <1>1, <1>3, <1>4 DEF JudgeInv, ProcInv
  <2>4. \A q \in Ops : proc'[q].st = "run" =>
          /\ Kind(q) \in ContentKinds \ {"sub"} =>
                act'["worker"].op = q /\ act'["worker"].ph \in {"poll", "check"}
          /\ Kind(q) = "compute" => act'["sched"].op = q /\ act'["sched"].ph \in {"poll", "check"}
    BY <1>1, <1>2, <1>4 DEF JudgeInv, ProcInv, ContentKinds
  <2>5. \A t \in Threads : act'[t].ph \in {"judge", "publish"} => proc'[act'[t].op].st # "run"
    BY <1>2, <1>4, <2>1 DEF JudgeInv, ProcInv, Threads
  <2>6. /\ \A i \in DOMAIN recs : proc'[recs[i].op].st # "run"
        /\ act'["worker"].ph = "taken" => proc'[act'["worker"].op].st = "none"
        /\ \A q \in pending : proc'[q].st # "none"
    <3>1. \A i \in DOMAIN recs : proc'[recs[i].op].st # "run"
      BY <1>3, <1>4 DEF JudgeInv, ProcInv
    <3>2. act'["worker"].ph = "taken" => proc'[act'["worker"].op].st = "none"
      BY <1>2, <1>4, <2>1 DEF JudgeInv, ProcInv
    <3>3. pending \subseteq Ops \ {o}
      BY <1>3 DEF JudgeInv, JudgeTypes
    <3>4. \A q \in pending : proc'[q].st # "none"
      BY <1>4, <3>3 DEF JudgeInv, ProcInv
    <3>. QED
      BY <3>1, <3>2, <3>4
  <2>7. \A t \in Threads : \A q \in act'[t].rest : proc'[q].st # "none"
    BY <1>2, <1>4, <2>2 DEF JudgeInv, ProcInv, Threads
  <2>8. \A t \in Threads : act'[t].ph \in {"spawned", "poll", "check", "judge"} /\ Kind(act'[t].op) = "sub"
             => proc'[act'[t].op].st # "none"
    BY <1>1, <1>2, <1>4, <2>1 DEF JudgeInv, ProcInv, Threads
  <2>. QED
    BY <1>1, <2>3, <2>4, <2>5, <2>6, <2>7, <2>8 DEF ProcInv, Kind
<1>9. LogInv'
  <2>1. \A q \in Ops : LogOpen(q)' => LogOpen(q) \/ q = o
    BY <1>1, <1>2 DEF LogOpen, Holds, Busy, Threads
  <2>2. \A q \in Ops : LogOpen(q)' /\ Kind(q) \in ContentKinds => LogOpen(q)
    BY <1>1, <2>1 DEF ContentKinds
  <2>3. \A f \in Names : log[f].by # 0 => log[f].by \in Ops \ {o}
    BY <1>1 DEF JudgeInv, JudgeTypes, LogInv
  <2>4. act["worker"].ph # "idle" => act["worker"].op \in Ops \ {o}
    BY <1>1 DEF JudgeInv, JudgeTypes, OwnInv, Threads
  <2>5. \A f \in Names : log[f].by # 0 =>
          /\ log[f].by \in begun' /\ content_log_name(log[f].by) = f
          /\ Kind(log[f].by) \in ContentKinds
    BY <1>1 DEF JudgeInv, LogInv
  <2>6. \A f \in Names : f[1] = "get" /\ COMPLETED_MARKER \in log[f].lines =>
          log[f].by # 0 /\ proc'[log[f].by].done
    BY <1>4, <2>3 DEF JudgeInv, LogInv
  <2>7. \A q \in Ops : /\ Kind(q) = "get" /\ log[content_log_name(q)].by = q
                       /\ proc'[q].st = "exited" /\ proc'[q].done
          => COMPLETED_MARKER \in log[content_log_name(q)].lines
    BY <1>4 DEF JudgeInv, LogInv
  <2>8. \A q \in Ops : LogOpen(q)' /\ Kind(q) \in ContentKinds => q <= log[content_log_name(q)].by
    BY <2>2 DEF JudgeInv, LogInv
  <2>9. (act["worker"].ph \in {"poll", "check", "judge"} /\ Kind(act["worker"].op) = "get"
         /\ proc'[act["worker"].op].got)
          => OutputOf(act["worker"].op) \in outs
    BY <1>4, <2>4 DEF JudgeInv, LogInv
  <2>. QED
    BY <1>1, <1>2, <2>5, <2>6, <2>7, <2>8, <2>9 DEF LogInv, Kind, content_log_name, OutputOf
<1>10. ArtInv'
  BY <1>1, <1>4, ArtKept DEF JudgeInv, JudgeTypes
<1>11. RespInv'
  BY <1>1, <1>2, <1>3, <1>4 DEF RespInv
<1>12. RecInv'
  BY <1>1, <1>3, <1>4, RecordsKept DEF JudgeInv, RecInv
<1>13. JudgeTypes'
  BY <1>1, <1>2, <1>4 DEF JudgeInv, JudgeTypes, OutputOf
<1>. QED
  BY <1>5, <1>6, <1>7, <1>8, <1>9, <1>10, <1>11, <1>12, <1>13 DEF JudgeInv

-----------------------------------------------------------------------------
\* Waiting and judging.

\* A thread goes on with the operation it has in hand.
LEMMA PhaseTurns ==
  ASSUME JudgeInv, NEW t \in Threads, NEW x \in {"check", "judge", "publish"},
         act[t].ph \in {"poll", "check", "judge"}, x = "publish" => t = "sched",
         act' = [act EXCEPT ![t].ph = x], UNCHANGED <<script, begun, pending, recs>>
  PROVE  /\ OwnInv' /\ KindInv' /\ OrderInv' /\ Ops' = Ops
         /\ act' \in [Threads -> [ph : JudgePhases, op : Nat, rest : SUBSET Ops]]
         /\ act'[t].ph = x /\ act'[t].op = act[t].op /\ act'[t].rest = act[t].rest
         /\ \A u \in Threads \ {t} : act'[u] = act[u]
         /\ \A q \in Ops : LogOpen(q)' = LogOpen(q)
         /\ act[t].op \in Ops /\ Holds(t, act[t].op)
         /\ \A i \in DOMAIN recs : recs[i].op \in Ops \ {act[t].op}
<1>1. Ops' = Ops /\ act \in [Threads -> [ph : JudgePhases, op : Nat, rest : SUBSET Ops]]
  BY DEF Ops, JudgeInv, JudgeTypes
<1>2. /\ act' \in [Threads -> [ph : JudgePhases, op : Nat, rest : SUBSET Ops]]
      /\ act'[t].ph = x /\ act'[t].op = act[t].op /\ act'[t].rest = act[t].rest
      /\ \A u \in Threads \ {t} : act'[u] = act[u]
  BY <1>1 DEF JudgePhases
<1>3. \A u \in Threads : /\ Busy(u)' = Busy(u) /\ act'[u].op = act[u].op /\ act'[u].rest = act[u].rest
                         /\ (act'[u].ph = "idle") = (act[u].ph = "idle")
                         /\ (act'[u].ph = "taken") = (act[u].ph = "taken")
                         /\ act'[u].ph = "publish" => act[u].ph = "publish" \/ u = "sched"
  BY <1>2 DEF Busy
<1>4. \A u \in Threads, q \in Ops : Holds(u, q)' = Holds(u, q)
  BY <1>3 DEF Holds
<1>5. \A i \in DOMAIN recs : recs[i].op \in Ops
  BY DEF JudgeInv, JudgeTypes, OwnInv
<1>6. OwnInv'
  BY <1>1, <1>3, <1>4, <1>5 DEF JudgeInv, OwnInv
<1>7. KindInv'
  BY <1>1, <1>3 DEF JudgeInv, KindInv, Kind, Threads
<1>8. OrderInv'
  BY <1>1, <1>3 DEF JudgeInv, OrderInv, Kind, Threads
<1>9. \A q \in Ops : LogOpen(q)' = LogOpen(q)
  BY <1>3, <1>4 DEF LogOpen
<1>10. act[t].op \in Ops /\ Holds(t, act[t].op) /\ \A i \in DOMAIN recs : recs[i].op # act[t].op
  BY SMTT(30) DEF JudgeInv, JudgeTypes, OwnInv, Holds, Busy
<1>. QED
  BY <1>1, <1>2, <1>5, <1>6, <1>7, <1>8, <1>9, <1>10

\* ... while its process goes on or is terminated.
LEMMA ProcTurns ==
  ASSUME JudgeInv, NEW t \in Threads, NEW x \in {"check", "judge", "publish"},
         act[t].ph \in {"poll", "check", "judge"}, x = "publish" => t = "sched",
         act' = [act EXCEPT ![t].ph = x], UNCHANGED <<script, begun, pending, recs>>,
         \A q \in Ops \ {act[t].op} : proc'[q] = proc[q],
         \/ proc'[act[t].op] = proc[act[t].op]
         \/ /\ proc[act[t].op].st = "run" /\ proc'[act[t].op].st = "killed"
            /\ proc'[act[t].op].rc \in {"zero", "nonzero"}
            /\ proc'[act[t].op].got = proc[act[t].op].got
            /\ proc'[act[t].op].done = proc[act[t].op].done
            /\ proc'[act[t].op].status = proc[act[t].op].status,
         x \in {"judge", "publish"} => proc'[act[t].op].st # "run"
  PROVE  ProcInv'
<1>1. PICK o : o = act[t].op
  BY SMTT(30)
<1>2. /\ Ops' = Ops /\ o \in Ops /\ Holds(t, o)
      /\ act'[t].ph = x /\ act'[t].op = o /\ act'[t].rest = act[t].rest
      /\ \A u \in Threads \ {t} : act'[u] = act[u]
      /\ \A i \in DOMAIN recs : recs[i].op \in Ops \ {o}
  BY ZenonT(40), <1>1, PhaseTurns
<1>3. /\ \A q \in Ops \ {o} : proc'[q] = proc[q]
      /\ \/ proc'[o] = proc[o]
         \/ /\ proc[o].st = "run" /\ proc'[o].st = "killed" /\ proc'[o].rc \in {"zero", "nonzero"}
            /\ proc'[o].got = proc[o].got /\ proc'[o].done = proc[o].done
            /\ proc'[o].status = proc[o].status
      /\ x \in {"judge", "publish"} => proc'[o].st # "run"
  BY <1>1
<1>4. \A q \in Ops : /\ proc'[q].got = proc[q].got /\ proc'[q].done = proc[q].done
                     /\ proc'[q].status = proc[q].status
                     /\ (proc'[q].st = "none") = (proc[q].st = "none")
                     /\ proc'[q].st = "run" => proc[q].st = "run"
  BY <1>3
<1>5. /\ \A q \in Ops \ begun : proc'[q].st = "none"
      /\ \A q \in Ops : proc'[q].st = "none" =>
           ~proc'[q].got /\ ~proc'[q].done /\ proc'[q].status = "none"
      /\ \A q \in Ops : proc'[q].done => proc'[q].got
  BY <1>4 DEF JudgeInv, ProcInv
<1>6. \A q \in Ops : proc'[q].st \in {"exited", "killed"} => proc'[q].rc \in {"zero", "nonzero"}
  BY <1>3 DEF JudgeInv, ProcInv
<1>7. ASSUME NEW q \in Ops, proc'[q].st = "run"
      PROVE  /\ Kind(q) \in ContentKinds \ {"sub"} =>
                   act'["worker"].op = q /\ act'["worker"].ph \in {"poll", "check"}
             /\ Kind(q) = "compute" => act'["sched"].op = q /\ act'["sched"].ph \in {"poll", "check"}
  <2>1. proc[q].st = "run" /\ (x \in {"judge", "publish"} => q # o)
    BY <1>3, <1>4, <1>7
  <2>2. /\ Kind(q) \in ContentKinds \ {"sub"} =>
              act["worker"].op = q /\ act["worker"].ph \in {"poll", "check"}
        /\ Kind(q) = "compute" => act["sched"].op = q /\ act["sched"].ph \in {"poll", "check"}
    BY <2>1 DEF JudgeInv, ProcInv
  <2>. QED
    BY <1>1, <1>2, <2>1, <2>2 DEF Threads
<1>8. \A i \in DOMAIN recs : proc'[recs[i].op].st # "run"
  BY <1>2, <1>4 DEF JudgeInv, ProcInv
<1>9. \A u \in Threads : act[u].ph # "idle" => act[u].op \in Ops
  BY DEF JudgeInv, JudgeTypes, OwnInv
<1>10. \A u \in Threads : act'[u].ph \in {"judge", "publish"} => proc'[act'[u].op].st # "run"
  <2>. SUFFICES ASSUME NEW u \in Threads, act'[u].ph \in {"judge", "publish"}
                PROVE  proc'[act'[u].op].st # "run"
    OBVIOUS
  <2>1. CASE u = t
    BY <1>2, <1>3, <2>1
  <2>2. CASE u # t
    BY <1>2, <1>4, <1>9, <2>2 DEF JudgeInv, ProcInv
  <2>. QED
    BY <2>1, <2>2
<1>11. act'["worker"].ph = "taken" => proc'[act'["worker"].op].st = "none"
  <2>1. act'["worker"].ph = "taken" => act'["worker"] = act["worker"]
    BY <1>2 DEF Threads
  <2>. QED
    BY <1>4, <1>9, <2>1 DEF JudgeInv, ProcInv, Threads
<1>12. \A q \in pending : proc'[q].st # "none"
  BY <1>4 DEF JudgeInv, ProcInv, JudgeTypes
<1>13. \A u \in Threads : \A q \in act'[u].rest : proc'[q].st # "none"
  <2>1. \A u \in Threads : act'[u].rest = act[u].rest /\ act[u].rest \subseteq Ops
    BY <1>2 DEF JudgeInv, JudgeTypes
  <2>. QED
    BY <1>4, <2>1 DEF JudgeInv, ProcInv
<1>14. ASSUME NEW u \in Threads, act'[u].ph \in {"spawned", "poll", "check", "judge"},
              Kind(act'[u].op) = "sub"
       PROVE  proc'[act'[u].op].st # "none"
  <2>1. act'[u].op = act[u].op /\ act[u].ph \in {"spawned", "poll", "check", "judge"}
    BY <1>1, <1>2, <1>14
  <2>. QED
    BY <1>4, <1>9, <1>14, <2>1 DEF JudgeInv, ProcInv
<1>. QED
  BY <1>2, <1>5, <1>6, <1>7, <1>8, <1>10, <1>11, <1>12, <1>13, <1>14 DEF ProcInv, Kind

\* The wait sees the end, or that the process is running.
LEMMA WaitStep ==
  ASSUME JudgeInv, NEW t \in Threads, WaitEnds(t) \/ SeesRunning(t)
  PROVE  JudgeInv'
<1>1. /\ UNCHANGED <<script, begun, proc, log, outs, arts, resp, pending, result, cancel, recs,
                     published, seen, lost, emptied>>
      /\ act[t].ph = "poll"
  BY DEF WaitEnds, SeesRunning
<1>2. PICK x \in {"check", "judge"} : /\ act' = [act EXCEPT ![t].ph = x]
                                      /\ x = "judge" => proc[act[t].op].st # "run"
  BY DEF WaitEnds, SeesRunning
<1>3. /\ OwnInv' /\ KindInv' /\ OrderInv' /\ Ops' = Ops
      /\ act' \in [Threads -> [ph : JudgePhases, op : Nat, rest : SUBSET Ops]]
      /\ act'[t].ph = x /\ act'[t].op = act[t].op /\ act'[t].rest = act[t].rest
      /\ \A u \in Threads \ {t} : act'[u] = act[u]
      /\ \A q \in Ops : LogOpen(q)' = LogOpen(q)
  BY <1>1, <1>2, PhaseTurns
<1>4. ProcInv'
  BY <1>1, <1>2, ProcTurns
<1>5. LogInv'
  <2>1. /\ act'["worker"].op = act["worker"].op
        /\ act'["worker"].ph \in {"poll", "check", "judge"} => act["worker"].ph \in {"poll", "check", "judge"}
    BY <1>1, <1>3 DEF Threads
  <2>. QED
    BY <1>1, <1>3, <2>1 DEF JudgeInv, LogInv, Kind, OutputOf, content_log_name
<1>6. ArtInv'
  BY <1>1, ArtKept DEF JudgeInv, JudgeTypes
<1>7. RespInv'
  BY ZenonT(40), <1>1, <1>3 DEF JudgeInv, RespInv, Busy, OutputOf, Threads
<1>8. RecInv'
  BY <1>1, RecordsKept DEF JudgeInv, RecInv
<1>9. JudgeTypes'
  BY <1>1, <1>3 DEF JudgeInv, JudgeTypes, OutputOf
<1>. QED
  BY <1>3, <1>4, <1>5, <1>6, <1>7, <1>8, <1>9 DEF JudgeInv

\* The wait ends in a termination, of a process that may be gone already.
LEMMA TerminateStep ==
  ASSUME JudgeInv, NEW t \in Threads, NEW o, o = act[t].op, act[t].ph = "check", Terminated(o),
         act' = [act EXCEPT ![t].ph = "judge"],
         result' = [result EXCEPT ![o].cancelled = TRUE] \/ result' = [result EXCEPT ![o].timed = TRUE],
         UNCHANGED <<script, begun, outs, arts, resp, pending, cancel, recs, published, seen, lost, emptied>>
  PROVE  JudgeInv'
<1>1. /\ OwnInv' /\ KindInv' /\ OrderInv' /\ Ops' = Ops
      /\ act' \in [Threads -> [ph : JudgePhases, op : Nat, rest : SUBSET Ops]]
      /\ act'[t].ph = "judge" /\ act'[t].op = act[t].op /\ act'[t].rest = act[t].rest
      /\ \A u \in Threads \ {t} : act'[u] = act[u]
      /\ \A q \in Ops : LogOpen(q)' = LogOpen(q)
      /\ o \in Ops /\ \A i \in DOMAIN recs : recs[i].op \in Ops \ {o}
  BY PhaseTurns
<1>2. /\ proc \in [Ops -> ProcState] /\ proc[o] \in ProcState
      /\ log \in [Names -> [by : Nat, lines : SUBSET LogLines, text : LogTexts]]
      /\ result \in [Ops -> [timed : BOOLEAN, cancelled : BOOLEAN]]
      /\ result[o] \in [timed : BOOLEAN, cancelled : BOOLEAN]
  BY <1>1 DEF JudgeInv, JudgeTypes
<1>3. /\ result' \in [Ops -> [timed : BOOLEAN, cancelled : BOOLEAN]]
      /\ \A q \in Ops \ {o} : result'[q] = result[q]
  <2>1. CASE result' = [result EXCEPT ![o].cancelled = TRUE]
    BY <1>1, <1>2, <2>1
  <2>2. CASE result' = [result EXCEPT ![o].timed = TRUE]
    BY <1>1, <1>2, <2>2
  <2>. QED
    BY <2>1, <2>2
<1>4. \/ proc[o].st # "run" /\ proc' = proc /\ log' = log
      \/ /\ proc[o].st = "run"
         /\ \E rc \in {"zero", "nonzero"} : proc' = [proc EXCEPT ![o].st = "killed", ![o].rc = rc]
         /\ log' = log \/ log' \in LogAfter(o, TRUE)
         /\ Kind(o) = "compute" => log' = log
         /\ Kind(o) # "compute" => log' \in LogAfter(o, TRUE)
  BY DEF Terminated
<1>5. /\ proc' \in [Ops -> ProcState] /\ \A q \in Ops \ {o} : proc'[q] = proc[q]
      /\ proc'[o].st # "run" /\ proc'[o].got = proc[o].got /\ proc'[o].done = proc[o].done
      /\ proc'[o].status = proc[o].status /\ (proc'[o].st = "none") = (proc[o].st = "none")
      /\ \/ proc'[o] = proc[o]
         \/ /\ proc[o].st = "run" /\ proc'[o].st = "killed" /\ proc'[o].rc \in {"zero", "nonzero"}
            /\ proc'[o].got = proc[o].got /\ proc'[o].done = proc[o].done
            /\ proc'[o].status = proc[o].status
      /\ proc[o].st = "run" => proc'[o].st = "killed"
  <2>1. CASE proc[o].st # "run" /\ proc' = proc
    BY <1>2, <2>1
  <2>2. ASSUME NEW rc \in {"zero", "nonzero"}, proc[o].st = "run",
               proc' = [proc EXCEPT ![o].st = "killed", ![o].rc = rc]
        PROVE  /\ proc' \in [Ops -> ProcState] /\ \A q \in Ops \ {o} : proc'[q] = proc[q]
               /\ proc'[o].st = "killed" /\ proc'[o].rc = rc /\ proc'[o].got = proc[o].got
               /\ proc'[o].done = proc[o].done /\ proc'[o].status = proc[o].status
    BY ZenonT(40), <1>1, <1>2, <2>2 DEF ProcState
  <2>. QED
    BY <1>4, <2>1, <2>2
<1>6. ProcInv'
  BY <1>5, ProcTurns
<1>7. /\ act'["worker"].op = act["worker"].op
      /\ act'["worker"].ph \in {"poll", "check", "judge"} => act["worker"].ph \in {"poll", "check", "judge"}
      /\ act'["worker"].ph \in {"poll", "check", "judge"} => act["worker"].op \in Ops
  BY <1>1 DEF Threads, JudgeInv, JudgeTypes, OwnInv
<1>8. LogInv'
  <2>1. CASE log' = log
    <3>1. \A q \in Ops : /\ proc'[q].got = proc[q].got /\ proc'[q].done = proc[q].done
                         /\ proc'[q].st = "exited" => proc[q].st = "exited"
      BY <1>5
    <3>2. \A f \in Names : log[f].by # 0 => log[f].by \in Ops
      BY DEF JudgeInv, JudgeTypes, LogInv
    <3>3. \A f \in Names : f[1] = "get" /\ COMPLETED_MARKER \in log[f].lines =>
            log[f].by # 0 /\ proc'[log[f].by].done
      BY <3>1, <3>2 DEF JudgeInv, LogInv
    <3>4. \A q \in Ops : /\ Kind(q) = "get" /\ log[content_log_name(q)].by = q
                         /\ proc'[q].st = "exited" /\ proc'[q].done
            => COMPLETED_MARKER \in log[content_log_name(q)].lines
      BY <3>1 DEF JudgeInv, LogInv
    <3>5. (act'["worker"].ph \in {"poll", "check", "judge"} /\ Kind(act["worker"].op) = "get"
           /\ proc'[act["worker"].op].got) => OutputOf(act["worker"].op) \in outs
      BY <1>7, <3>1 DEF JudgeInv, LogInv
    <3>. QED
      BY <1>1, <1>7, <2>1, <3>3, <3>4, <3>5 DEF JudgeInv, LogInv, Kind, OutputOf, content_log_name
  <2>2. CASE proc[o].st = "run" /\ log' \in LogAfter(o, TRUE)
    BY <1>1, <1>5, <1>7, <2>2, LogEnds
  <2>. QED
    BY <1>4, <2>1, <2>2
<1>9. ArtInv'
  <2>1. \A q \in Ops : /\ proc'[q].got = proc[q].got /\ proc'[q].done = proc[q].done
                       /\ proc'[q].st # "none" => proc[q].st # "none"
    BY <1>5
  <2>2. ArtInv /\ lost \subseteq Ops
    BY DEF JudgeInv, JudgeTypes
  <2>. QED
    BY <2>1, <2>2, ArtKept
<1>10. RespInv'
  <2>1. /\ act'["sched"].op = act["sched"].op /\ Busy("sched")' = Busy("sched")
        /\ act'["sched"].ph # "publish" \/ act["sched"].ph = "publish"
    BY <1>1 DEF Busy, Threads
  <2>2. Busy("sched") => act["sched"].op \in Ops
    BY DEF JudgeInv, JudgeTypes, OwnInv, Busy, Threads
  <2>3. \A q \in Ops : proc'[q].status = proc[q].status
    BY <1>5
  <2>. QED
    BY <2>1, <2>2, <2>3 DEF JudgeInv, RespInv, OutputOf, Busy
<1>11. RecInv'
  BY <1>1, <1>3, <1>5, RecordsKept DEF JudgeInv, RecInv
<1>12. JudgeTypes'
  <2>1. log' \in [Names -> [by : Nat, lines : SUBSET LogLines, text : LogTexts]]
    <3>1. PICK l : l = log'
      OBVIOUS
    <3>2. l = log \/ l \in LogAfter(o, TRUE)
      BY <1>4, <3>1
    <3>3. l \in [Names -> [by : Nat, lines : SUBSET LogLines, text : LogTexts]]
      BY <1>1, <1>2, <3>2, LogAfterFacts DEF JudgeInv
    <3>. QED
      BY <3>1, <3>3
  <2>2. /\ Ops' = Ops /\ act' \in [Threads -> [ph : JudgePhases, op : Nat, rest : SUBSET Ops]]
        /\ proc' \in [Ops -> ProcState]
        /\ result' \in [Ops -> [timed : BOOLEAN, cancelled : BOOLEAN]]
    BY <1>1, <1>3, <1>5
  <2>3. Places' = Places /\ Places = {OutputOf(q) : q \in Ops}
    BY <2>2 DEF Places, OutputOf
  <2>. QED
    BY <2>1, <2>2, <2>3 DEF JudgeInv, JudgeTypes, Places
<1>. QED
  BY <1>1, <1>6, <1>8, <1>9, <1>10, <1>11, <1>12 DEF JudgeInv

\* A wait is cancelled or reaches its deadline.
LEMMA InterruptsStep ==
  ASSUME JudgeInv, NEW t \in Threads, Interrupts(t)
  PROVE  JudgeInv'
<1>1. PICK o : o = act[t].op
  OBVIOUS
<1>2. /\ act[t].ph = "check" /\ Terminated(o) /\ act' = [act EXCEPT ![t].ph = "judge"]
      /\ result' = [result EXCEPT ![o].cancelled = TRUE] \/ result' = [result EXCEPT ![o].timed = TRUE]
      /\ UNCHANGED <<script, begun, outs, arts, resp, pending, cancel, recs, published, seen, lost, emptied>>
  BY <1>1 DEF Interrupts
<1>. QED
  BY <1>1, <1>2, TerminateStep

\* A compute call reaches its deadline.
LEMMA CaptureTimesOutStep ==
  ASSUME JudgeInv, CaptureTimesOut
  PROVE  JudgeInv'
<1>1. PICK t : t = "sched"
  OBVIOUS
<1>2. PICK o : o = act[t].op
  OBVIOUS
<1>3. /\ act[t].ph = "check" /\ Terminated(o) /\ act' = [act EXCEPT ![t].ph = "judge"]
      /\ result' = [result EXCEPT ![o].cancelled = TRUE] \/ result' = [result EXCEPT ![o].timed = TRUE]
      /\ UNCHANGED <<script, begun, outs, arts, resp, pending, cancel, recs, published, seen, lost, emptied>>
  BY <1>1, <1>2 DEF CaptureTimesOut
<1>4. t \in Threads
  BY <1>1 DEF Threads
<1>. QED
  BY <1>2, <1>3, <1>4, TerminateStep

\* A sequence is one of its own elements.
LEMMA SeqOfItsOwn ==
  ASSUME NEW S, NEW z \in Seq(S)
  PROVE  z \in Seq({z[i] : i \in DOMAIN z})
<1>1. Len(z) \in Nat /\ DOMAIN z = 1..Len(z) /\ z = [i \in 1..Len(z) |-> z[i]]
  OBVIOUS
<1>. QED
  BY <1>1

\* A sequence and one more element.
LEMMA AppendFacts ==
  ASSUME NEW s, NEW e, NEW z, s \in Seq({s[i] : i \in DOMAIN s}), z = Append(s, e)
  PROVE  /\ Len(s) \in Nat /\ DOMAIN s = 1..Len(s) /\ DOMAIN z = 1..(Len(s) + 1)
         /\ \A i \in DOMAIN s : z[i] = s[i]
         /\ z[Len(s) + 1] = e
         /\ z \in Seq({z[i] : i \in DOMAIN z})
<1>. DEFINE S == {s[i] : i \in DOMAIN s} \union {e}
<1>1. s \in Seq(S) /\ Len(s) \in Nat /\ DOMAIN s = 1..Len(s)
  <2>1. \A i \in 1..Len(s) : s[i] \in S
    OBVIOUS
  <2>2. Len(s) \in Nat /\ DOMAIN s = 1..Len(s) /\ s = [i \in 1..Len(s) |-> s[i]]
    OBVIOUS
  <2>. QED
    BY <2>1, <2>2
<1>2. e \in S
  OBVIOUS
<1>. HIDE DEF S
<1>3. /\ z \in Seq(S) /\ Len(z) = Len(s) + 1 /\ DOMAIN z = 1..(Len(s) + 1)
      /\ \A i \in 1..Len(s) : z[i] = s[i]
      /\ z[Len(s) + 1] = e
  BY <1>1, <1>2
<1>4. z \in Seq({z[i] : i \in DOMAIN z})
  BY <1>3, SeqOfItsOwn
<1>. QED
  BY <1>1, <1>3, <1>4

\* The operation in hand is recorded: what is left of it is the call of the
\* subscribers.
LEMMA RecordStep ==
  ASSUME JudgeInv, NEW t \in Threads, NEW v, act[t].ph \in {"judge", "publish"}, Recorded(t, v),
         NEW r, r = [op |-> act[t].op, kind |-> Kind(act[t].op), v |-> v],
         UNCHANGED <<script, begun, proc, log, outs, arts, resp, pending, result, cancel, seen, lost, emptied>>,
         published \subseteq published',
         \A p \in published' : p.body = [by |-> p.call, ok |-> TRUE],
         Earned(r)', Honoured(r)'
  PROVE  JudgeInv'
<1>1. PICK o : o = act[t].op
  OBVIOUS
<1>2. /\ act' = [act EXCEPT ![t].ph = "notify"] /\ recs' = Append(recs, r) /\ Ops' = Ops
      /\ r.op = o /\ r.kind = Kind(o)
  <2>1. act' = [act EXCEPT ![t].ph = "notify"]
    BY Zenon DEF Recorded
  <2>2. recs' = Append(recs, r)
    BY Zenon DEF Recorded
  <2>3. Ops' = Ops
    BY Zenon DEF Ops
  <2>4. r.op = o /\ r.kind = Kind(o)
    BY <1>1
  <2>. QED
    BY <2>1, <2>2, <2>3, <2>4
<1>3. /\ act'[t].ph = "notify" /\ act'[t].op = o /\ act'[t].rest = act[t].rest
      /\ \A u \in Threads \ {t} : act'[u] = act[u]
      /\ act' \in [Threads -> [ph : JudgePhases, op : Nat, rest : SUBSET Ops]]
  BY ZenonT(40), <1>1, <1>2 DEF JudgeInv, JudgeTypes, JudgePhases
<1>4. PICK m : m = Len(recs) + 1
  OBVIOUS
<1>5. /\ DOMAIN recs = 1..(m - 1) /\ DOMAIN recs' = 1..m /\ m \in Nat \ {0}
      /\ \A i \in DOMAIN recs : recs'[i] = recs[i]
      /\ recs'[m] = r
      /\ recs' \in Seq({recs'[i] : i \in DOMAIN recs'})
  <2>1. PICK z : z = recs'
    OBVIOUS
  <2>2. recs \in Seq({recs[i] : i \in DOMAIN recs}) /\ z = Append(recs, r)
    BY <1>2, <2>1 DEF JudgeInv, RecInv
  <2>3. /\ Len(recs) \in Nat /\ DOMAIN recs = 1..Len(recs) /\ DOMAIN z = 1..(Len(recs) + 1)
        /\ \A i \in DOMAIN recs : z[i] = recs[i]
        /\ z[Len(recs) + 1] = r
        /\ z \in Seq({z[i] : i \in DOMAIN z})
    BY SMTT(60), <2>2, AppendFacts
  <2>. QED
    BY <1>4, <2>1, <2>3
<1>6. \A i \in DOMAIN recs' : i \in DOMAIN recs \/ i = m
  BY <1>5
<1>7. /\ Busy(t) /\ Holds(t, o) /\ o \in Ops /\ o \in begun /\ o \notin pending
      /\ o \notin act[t].rest
      /\ \A u \in Threads : u # t => ~Holds(u, o)
      /\ proc[o].st # "run"
  BY <1>1 DEF JudgeInv, JudgeTypes, OwnInv, ProcInv, Holds, Busy
<1>8. /\ \A u \in Threads, q \in Ops : Holds(u, q)' => Holds(u, q) /\ q # o
      /\ \A u \in Threads : act'[u].rest = act[u].rest /\ act'[u].op = act[u].op
      /\ \A u \in Threads : Busy(u)' => Busy(u) /\ act'[u] = act[u]
  BY <1>1, <1>3, <1>7 DEF Holds, Busy
<1>9. OwnInv'
  <2>1. \A u \in Threads : /\ act'[u].ph = "idle" => act'[u].rest = {}
                           /\ act'[u].ph # "idle" => act'[u].op \in begun
                           /\ Busy(u)' => act'[u].op \notin act'[u].rest
    BY <1>3, <1>7, <1>8 DEF JudgeInv, OwnInv
  <2>2. \A u \in Threads, q \in Ops : Holds(u, q)' =>
          q \in begun /\ q \notin pending /\ \A w \in Threads : w # u => ~Holds(w, q)'
    BY <1>8 DEF JudgeInv, OwnInv
  <2>3. \A i \in DOMAIN recs :
          /\ recs[i].op \in Ops /\ recs[i].op \in begun /\ recs[i].op \notin pending
          /\ \A u \in Threads : ~Holds(u, recs[i].op)
    BY DEF JudgeInv, JudgeTypes, OwnInv
  <2>4. ASSUME NEW i \in DOMAIN recs'
        PROVE  /\ recs'[i].op \in begun /\ recs'[i].op \notin pending
               /\ \A u \in Threads : ~Holds(u, recs[i].op)'
    <3>1. recs'[i].op \in Ops /\ recs'[i].op \in begun /\ recs'[i].op \notin pending
      BY <1>2, <1>5, <1>6, <1>7, <2>3
    <3>2. PICK q : q = recs'[i].op
      OBVIOUS
    <3>3. \A u \in Threads : ~Holds(u, q)'
      BY <1>2, <1>5, <1>6, <1>8, <2>3, <3>1, <3>2
    <3>. QED
      BY <3>1, <3>2, <3>3 DEF Holds
  <2>. QED
    BY <1>2, <2>1, <2>2, <2>4 DEF OwnInv, JudgeInv
<1>10. KindInv'
  BY <1>2, <1>3, <1>8 DEF JudgeInv, KindInv, Kind, Threads
<1>11. OrderInv'
  BY <1>2, <1>8 DEF JudgeInv, OrderInv, Kind, Threads
<1>12. ProcInv'
  <2>1. \A i \in DOMAIN recs' : proc[recs'[i].op].st # "run"
    BY <1>2, <1>5, <1>6, <1>7 DEF JudgeInv, ProcInv
  <2>2. \A q \in Ops : proc[q].st = "run" =>
          /\ Kind(q) \in ContentKinds \ {"sub"} =>
                act'["worker"].op = q /\ act'["worker"].ph \in {"poll", "check"}
          /\ Kind(q) = "compute" => act'["sched"].op = q /\ act'["sched"].ph \in {"poll", "check"}
    BY <1>3 DEF JudgeInv, ProcInv, Threads
  <2>3. /\ \A u \in Threads : act'[u].ph \in {"judge", "publish"} => proc[act'[u].op].st # "run"
        /\ act'["worker"].ph = "taken" => proc[act'["worker"].op].st = "none"
        /\ \A u \in Threads : \A q \in act'[u].rest : proc[q].st # "none"
        /\ \A u \in Threads :
             act'[u].ph \in {"spawned", "poll", "check", "judge"} /\ Kind(act'[u].op) = "sub"
                => proc[act'[u].op].st # "none"
    BY <1>3, <1>8 DEF JudgeInv, ProcInv, Threads
  <2>4. ProcInv /\ Ops' = Ops
    BY SMTT(30), <1>2 DEF JudgeInv
  <2>. QED
    BY <2>1, <2>2, <2>3, <2>4 DEF ProcInv, Kind
<1>13. LogInv'
  <2>1. \A q \in Ops : LogOpen(q)' => LogOpen(q)
    <3>. SUFFICES ASSUME NEW q \in Ops, LogOpen(q)' PROVE LogOpen(q)
      OBVIOUS
    <3>1. CASE q = o
      BY <1>7, <3>1 DEF LogOpen
    <3>2. CASE q # o
      BY <1>2, <1>3, <1>5, <1>6, <1>8, <3>2 DEF LogOpen
    <3>. QED
      BY <3>1, <3>2
  <2>2. /\ act'["worker"].op = act["worker"].op
        /\ act'["worker"].ph \in {"poll", "check", "judge"} => act["worker"].ph = act'["worker"].ph
    BY <1>3, <1>8 DEF Threads
  <2>3. LogInv /\ Ops' = Ops
    BY <1>2 DEF JudgeInv
  <2>. QED
    BY <2>1, <2>2, <2>3 DEF LogInv, Kind, OutputOf, content_log_name
<1>14. ArtInv'
  BY ArtKept DEF JudgeInv, JudgeTypes
<1>15. RespInv'
  <2>1. act'["sched"].ph = "publish" => act'["sched"] = act["sched"]
    BY <1>8 DEF Busy, Threads
  <2>2. Busy("sched")' => Busy("sched") /\ act'["sched"] = act["sched"]
    BY <1>8 DEF Threads
  <2>. QED
    BY <2>1, <2>2 DEF JudgeInv, RespInv, OutputOf
<1>16. RecInv'
  <2>1. ASSUME NEW i \in DOMAIN recs PROVE Earned(recs[i])' /\ Honoured(recs[i])'
    <3>1. recs'[i] = recs[i] /\ Earned(recs[i]) /\ Honoured(recs[i])
      BY <1>5 DEF JudgeInv, RecInv
    <3>2. Earned(recs[i])'
      BY <3>1 DEF Earned
    <3>3. Honoured(recs[i])'
      BY <3>1 DEF Honoured, Kind, OutputOf
    <3>. QED
      BY <3>2, <3>3
  <2>2. Earned(recs[m])' /\ Honoured(recs[m])'
    BY <1>4, <1>5 DEF Earned, Honoured
  <2>3. \A i \in DOMAIN recs' : Earned(recs[i])' /\ Honoured(recs[i])'
    BY <1>6, <2>1, <2>2
  <2>4. \A i \in DOMAIN recs' : recs'[i].kind = Kind(recs'[i].op)
    BY <1>2, <1>5, <1>6 DEF JudgeInv, RecInv
  <2>. QED
    BY <1>5, <2>3, <2>4 DEF RecInv, Kind
<1>17. JudgeTypes'
  <2>1. /\ Ops' = Ops /\ act' \in [Threads -> [ph : JudgePhases, op : Nat, rest : SUBSET Ops]]
        /\ JudgeTypes
    BY <1>2, <1>3 DEF JudgeInv
  <2>. QED
    BY <2>1 DEF JudgeTypes, OutputOf
<1>. QED
  BY <1>9, <1>10, <1>11, <1>12, <1>13, <1>14, <1>15, <1>16, <1>17 DEF JudgeInv

\* What the detectors say.
LEMMA VerdictFacts ==
  /\ \A rc, lines, out, S :
       from_runtime_get(rc, lines, out \in S).success = "yes" <=>
          rc = "zero" /\ COMPLETED_MARKER \in lines /\ out \in S
  /\ \A rc, a : \A timed, cancelled \in BOOLEAN :
       /\ from_runtime_sub(rc, timed, cancelled, a).success = "yes" <=>
             a # 0 /\ (rc = "zero" \/ timed \/ cancelled)
       /\ from_runtime_sub(rc, timed, cancelled, a).artifact = a
BY DEF from_runtime_get, from_runtime_sub, Judged, Tri

\* A command is judged by the evidence as it is now, and recorded.
LEMMA JudgeStep ==
  ASSUME JudgeInv, NEW t \in Threads, Judge(t)
  PROVE  JudgeInv'
<1>1. PICK o : o = act[t].op
  OBVIOUS
<1>2. /\ act[t].ph = "judge" /\ Kind(o) # "compute"
      /\ UNCHANGED <<script, begun, proc, log, outs, arts, resp, pending, result, cancel,
                     published, seen, lost, emptied>>
  BY <1>1 DEF Judge
<1>3. PICK v \in VerdictsOf(o) : Recorded(t, v)
  BY <1>1 DEF Judge
<1>4. PICK r : r = [op |-> o, kind |-> Kind(o), v |-> v]
  OBVIOUS
<1>5. r.op = o /\ r.kind = Kind(o) /\ r.v = v
  BY <1>4
<1>6. /\ o \in Ops /\ Busy(t) /\ proc[o].st # "run" /\ t # "sched"
      /\ proc[o] \in ProcState /\ result[o] \in [timed : BOOLEAN, cancelled : BOOLEAN]
      /\ Kind(o) \in ContentKinds /\ (Kind(o) # "sub" => t = "worker") /\ o # 0
  <2>1. Busy(t) /\ o \in Ops /\ proc[o].st # "run"
    BY <1>1, <1>2 DEF Busy, JudgeInv, JudgeTypes, OwnInv, ProcInv
  <2>2. /\ t = "main" => Kind(o) = "sub"
        /\ t = "worker" => Kind(o) \in ContentKinds
        /\ t # "sched"
    BY <1>1, <1>2, <2>1 DEF JudgeInv, KindInv
  <2>. QED
    BY <2>1, <2>2, OpFacts DEF Threads, ContentKinds, JudgeInv, JudgeTypes
<1>7. CASE Kind(o) = "get"
  <2>1. PICK lines, out : lines = log[content_log_name(o)].lines /\ out = OutputOf(o)
    OBVIOUS
  <2>3. v = from_runtime_get(proc[o].rc, lines, out \in outs)
    BY <1>3, <1>7, <2>1 DEF VerdictsOf, detect_get_success
  <2>4. v.success = "yes" <=> proc[o].rc = "zero" /\ COMPLETED_MARKER \in lines /\ OutputOf(o) \in outs
    BY <2>1, <2>3, VerdictFacts
  <2>5. log[content_log_name(o)].by = o /\ content_log_name(o) \in Names /\ content_log_name(o)[1] = "get"
    BY <1>1, <1>2, <1>6, <1>7, WorkerOwnsLog, OpFacts DEF JudgeInv, JudgeTypes
  <2>6. COMPLETED_MARKER \in lines => proc[o].done
    BY <2>1, <2>5 DEF JudgeInv, LogInv
  <2>7. proc[o].done => OutputOf(o) \in outs
    BY <1>1, <1>2, <1>6, <1>7 DEF JudgeInv, LogInv, ProcInv
  <2>8. proc[o].done /\ proc[o].st = "exited" => COMPLETED_MARKER \in lines
    BY <1>6, <1>7, <2>1, <2>5 DEF JudgeInv, LogInv
  <2>9. Earned(r)' /\ Honoured(r)'
    BY <1>2, <1>5, <1>7, <2>4, <2>6, <2>7, <2>8 DEF Earned, Honoured
  <2>10. \A p \in published' : p.body = [by |-> p.call, ok |-> TRUE]
    BY <1>2 DEF JudgeInv, RecInv
  <2>. QED
    BY <1>1, <1>2, <1>3, <1>4, <2>9, <2>10, RecordStep
<1>8. CASE Kind(o) = "sub"
  <2>0. PICK full : full = {a.by : a \in {b \in InDir(o) : b.full}}
    OBVIOUS
  <2>1. PICK a \in IF full = {} THEN {0} ELSE full :
          v = from_runtime_sub(proc[o].rc, result[o].timed, result[o].cancelled, a)
    BY <1>3, <1>8, <2>0 DEF VerdictsOf, detect_sub_success
  <2>2. /\ v.success = "yes" <=>
              a # 0 /\ (proc[o].rc = "zero" \/ result[o].timed \/ result[o].cancelled)
        /\ v.artifact = a
    BY <1>6, <2>1, VerdictFacts
  <2>3. proc[o].st # "none" /\ proc[o].rc \in {"zero", "nonzero"}
    BY <1>1, <1>2, <1>6, <1>8 DEF JudgeInv, ProcInv, ProcState
  <2>4. a # 0 => a \in seen[o]
    <3>. SUFFICES ASSUME a # 0 PROVE a \in seen[o]
      OBVIOUS
    <3>1. PICK b \in arts : b.dir = OutputOf(o) /\ b.full /\ a = b.by
      BY <2>0, <2>1 DEF InDir
    <3>. QED
      BY <1>6, <1>8, <2>3, <3>1 DEF JudgeInv, ArtInv
  <2>5. proc[o].done => o \in lost \/ a # 0
    <3>. SUFFICES ASSUME proc[o].done, o \notin lost PROVE a # 0
      OBVIOUS
    <3>1. PICK b \in arts : b.by = o
      BY <1>6, <1>8 DEF JudgeInv, ArtInv, ProcInv
    <3>2. b.dir = OutputOf(o) /\ b.full
      BY <3>1 DEF JudgeInv, ArtInv
    <3>3. o \in full
      BY <2>0, <3>1, <3>2 DEF InDir
    <3>4. full \subseteq Ops
      BY <2>0 DEF InDir, JudgeInv, ArtInv
    <3>5. \A q \in Ops : q # 0
      BY OpFacts DEF JudgeInv, JudgeTypes
    <3>. QED
      BY <2>1, <3>3, <3>4, <3>5
  <2>6. o \in lost => \E q \in begun : q > o /\ Kind(q) = "sub" /\ OutputOf(q) = OutputOf(o)
    BY DEF JudgeInv, ArtInv
  <2>7. Earned(r)'
    BY <1>2, <1>5, <1>8, <2>2, <2>4 DEF Earned
  <2>8. Honoured(r)'
    <3>1. v.success = "no" => ~(v.success = "yes")
      OBVIOUS
    <3>2. (proc[o].done /\ v.success = "no") =>
            \/ \E q \in begun : q > o /\ Kind(q) = "sub" /\ OutputOf(q) = OutputOf(o)
            \/ proc[o].rc = "nonzero" /\ ~result[o].timed /\ ~result[o].cancelled
      BY <2>2, <2>3, <2>5, <2>6, <3>1
    <3>. QED
      BY <1>2, <1>5, <1>8, <3>2 DEF Honoured, Kind, OutputOf
  <2>9. \A p \in published' : p.body = [by |-> p.call, ok |-> TRUE]
    BY <1>2 DEF JudgeInv, RecInv
  <2>. QED
    BY <1>1, <1>2, <1>3, <1>4, <2>7, <2>8, <2>9, RecordStep
<1>9. CASE Kind(o) \notin {"get", "sub"}
  <2>1. Earned(r)' /\ Honoured(r)'
    BY <1>2, <1>5, <1>9 DEF Earned, Honoured
  <2>2. \A p \in published' : p.body = [by |-> p.call, ok |-> TRUE]
    BY <1>2 DEF JudgeInv, RecInv
  <2>. QED
    BY <1>1, <1>2, <1>3, <1>4, <2>1, <2>2, RecordStep
<1>. QED
  BY <1>7, <1>8, <1>9

\* A compute call is judged: recorded, or its body is to be published.
LEMMA ComputeJudgeStep ==
  ASSUME JudgeInv, ComputeJudge
  PROVE  JudgeInv'
<1>1. PICK t : t = "sched"
  OBVIOUS
<1>2. PICK o : o = act[t].op
  OBVIOUS
<1>3. /\ act[t].ph = "judge" /\ t \in Threads
      /\ UNCHANGED <<script, begun, proc, log, outs, arts, resp, pending, result, cancel,
                     published, seen, lost, emptied>>
  BY <1>1 DEF ComputeJudge, Threads
<1>4. o \in Ops /\ Kind(o) = "compute" /\ proc[o].st # "run"
  BY <1>1, <1>2, <1>3 DEF JudgeInv, JudgeTypes, OwnInv, KindInv, ProcInv, Busy
<1>5. CASE HttpOk(o) /\ script[o].uri # ""
  <2>1. act' = [act EXCEPT ![t].ph = "publish"] /\ recs' = recs
    BY <1>1, <1>2, <1>5 DEF ComputeJudge
  <2>2. /\ OwnInv' /\ KindInv' /\ OrderInv' /\ Ops' = Ops
        /\ act' \in [Threads -> [ph : JudgePhases, op : Nat, rest : SUBSET Ops]]
        /\ act'[t].ph = "publish" /\ act'[t].op = act[t].op
        /\ \A u \in Threads \ {t} : act'[u] = act[u]
        /\ \A q \in Ops : LogOpen(q)' = LogOpen(q)
    BY <1>1, <1>3, <2>1, PhaseTurns
  <2>3. ProcInv'
    BY <1>1, <1>2, <1>3, <1>4, <2>1, ProcTurns
  <2>4. LogInv'
    <3>1. act'["worker"] = act["worker"] /\ LogInv
      BY <1>1, <2>2 DEF Threads, JudgeInv
    <3>. QED
      BY <1>3, <2>2, <3>1 DEF LogInv, Kind, OutputOf, content_log_name
  <2>5. ArtInv'
    BY <1>3, ArtKept DEF JudgeInv, JudgeTypes
  <2>6. RespInv'
    <3>1. proc[o].status = "2xx" /\ Busy("sched") /\ Busy("sched")'
      BY <1>1, <1>3, <1>5, <2>2 DEF HttpOk, Busy
    <3>. QED
      BY <1>1, <1>2, <1>3, <2>2, <3>1 DEF JudgeInv, RespInv, OutputOf
  <2>7. RecInv'
    BY <1>3, <2>1, RecordsKept DEF JudgeInv, RecInv
  <2>8. JudgeTypes'
    BY <1>3, <2>2 DEF JudgeInv, JudgeTypes, OutputOf
  <2>. QED
    BY <2>2, <2>3, <2>4, <2>5, <2>6, <2>7, <2>8 DEF JudgeInv
<1>6. CASE ~(HttpOk(o) /\ script[o].uri # "")
  <2>1. PICK v : /\ Recorded(t, v)
                 /\ v = CASE EnvFailure(o)                -> Outcome("no", "skipped")
                          [] HttpOk(o)                    -> Outcome("yes", "ok")
                          [] ~EnvFailure(o) /\ ~HttpOk(o) -> Outcome("no", "not-ok")
    BY <1>1, <1>2, <1>6 DEF ComputeJudge
  <2>2. ~(EnvFailure(o) /\ HttpOk(o))
    BY DEF EnvFailure, HttpOk
  <2>3. v.success = "yes" => HttpOk(o)
    BY <2>1, <2>2 DEF Outcome
  <2>4. PICK r : r = [op |-> o, kind |-> Kind(o), v |-> v]
    OBVIOUS
  <2>5. r.op = o /\ r.kind = "compute" /\ r.v = v
    BY <1>4, <2>4
  <2>6. Earned(r)' /\ Honoured(r)'
    BY <1>3, <1>6, <2>3, <2>5 DEF Earned, Honoured
  <2>7. \A p \in published' : p.body = [by |-> p.call, ok |-> TRUE]
    BY <1>3 DEF JudgeInv, RecInv
  <2>. QED
    BY <1>2, <1>3, <2>1, <2>4, <2>6, <2>7, RecordStep
<1>. QED
  BY <1>5, <1>6

\* The body of a compute call is published, and the call recorded.
LEMMA ComputePublishStep ==
  ASSUME JudgeInv, ComputePublish
  PROVE  JudgeInv'
<1>1. PICK t : t = "sched"
  OBVIOUS
<1>2. PICK o : o = act[t].op
  OBVIOUS
<1>3. /\ act[t].ph = "publish" /\ t \in Threads
      /\ published' = published \union {[call |-> o, body |-> resp[OutputOf(o)]]}
      /\ UNCHANGED <<script, begun, proc, log, outs, arts, resp, pending, result, cancel, seen, lost, emptied>>
  BY <1>1, <1>2 DEF ComputePublish, Threads
<1>4. PICK v : Recorded(t, v)
  BY <1>1 DEF ComputePublish
<1>5. o \in Ops /\ Kind(o) = "compute"
  BY <1>1, <1>2, <1>3 DEF JudgeInv, JudgeTypes, OwnInv, KindInv, Busy
<1>6. resp[OutputOf(o)] = [by |-> o, ok |-> TRUE]
  BY <1>1, <1>2, <1>3 DEF JudgeInv, RespInv, Busy
<1>7. PICK c : c = [call |-> o, body |-> resp[OutputOf(o)]]
  OBVIOUS
<1>8. c.call = o /\ c.body = [by |-> o, ok |-> TRUE] /\ published' = published \union {c}
  BY <1>3, <1>6, <1>7
<1>9. \A p \in published' : p.body = [by |-> p.call, ok |-> TRUE]
  BY <1>8 DEF JudgeInv, RecInv
<1>10. PICK r : r = [op |-> o, kind |-> Kind(o), v |-> v]
  OBVIOUS
<1>11. r.op = o /\ r.kind = "compute" /\ r.v = v
  BY <1>5, <1>10
<1>12. Earned(r)' /\ Honoured(r)'
  BY <1>8, <1>11 DEF Earned, Honoured
<1>. QED
  BY <1>2, <1>3, <1>4, <1>8, <1>9, <1>10, <1>12, RecordStep

\* The order of the naturals as a relation.
LessNat == {s \in Nat \X Nat : s[1] < s[2]}

\* The minimum of a set of naturals is its least member.
LEMMA MinFacts ==
  ASSUME NEW T, T \subseteq Nat, T # {}
  PROVE  Min(T) \in T /\ \A y \in T : Min(T) <= y
<1>1. IsWellFoundedOn(LessNat, Nat)
  BY NatLessThanWellFounded DEF OpToRel, LessNat
<1>2. PICK x \in T : \A y \in T : ~(<<y, x>> \in LessNat)
  BY <1>1, WFMin
<1>3. \A y, z \in Nat : y < z => <<y, z>> \in LessNat
  BY DEF LessNat
<1>4. ASSUME NEW y \in T PROVE x <= y
  <2>1. x \in Nat /\ y \in Nat /\ ~(y < x)
    BY <1>2, <1>3
  <2>. QED
    BY <2>1
<1>. QED
  BY <1>4 DEF Min

\* What is settled next is one of what is left.
LEMMA FollowingFacts ==
  ASSUME NEW o, NEW rest, rest \subseteq Nat, rest # {}
  PROVE  /\ Following(o, rest) \in rest
         /\ \A p \in rest : SameUri(Following(o, rest), p) => Following(o, rest) <= p
<1>1. PICK same : same = {p \in rest : script[p].uri = script[o].uri}
  OBVIOUS
<1>2. PICK T : T = IF same = {} THEN rest ELSE same
  OBVIOUS
<1>3. T \subseteq rest /\ T # {} /\ Following(o, rest) = Min(T)
  BY <1>1, <1>2 DEF Following
<1>4. Min(T) \in T /\ \A y \in T : Min(T) <= y
  BY <1>3, MinFacts
<1>5. \A p \in rest : SameUri(Min(T), p) => p \in T
  BY <1>1, <1>2, <1>4 DEF SameUri
<1>. QED
  BY <1>3, <1>4, <1>5

\* A thread goes on to the next subscription of those it has, or takes over what
\* is pending.
LEMMA Settles ==
  ASSUME JudgeInv, NEW t \in Threads, NEW H, NEW x \in H,
         \/ act[t].ph = "notify" /\ H = act[t].rest /\ pending' = pending
         \/ act[t].ph = "idle" /\ t = "main" /\ H = pending /\ pending' = {},
         act' = Waits(t, x, H \ {x}),
         UNCHANGED <<script, begun, proc, log, outs, arts, resp, result, cancel, recs,
                     published, seen, lost, emptied>>
  PROVE  JudgeInv'
<1>1. /\ H \subseteq Ops /\ H \subseteq begun /\ H \cap pending' = {} /\ pending' \subseteq pending
      /\ act[t].rest \subseteq H
  BY DEF JudgeInv, JudgeTypes, OwnInv, Holds
<1>2. /\ \A q \in H : Kind(q) = "sub" /\ proc[q].st # "none"
      /\ \A q \in H, u \in Threads : u # t => ~Holds(u, q)
      /\ \A i \in DOMAIN recs : recs[i].op \notin H
  <2>1. CASE act[t].ph = "notify" /\ H = act[t].rest
    <3>1. \A q \in H : Holds(t, q)
      BY <2>1 DEF Holds
    <3>. QED
      BY <1>1, <2>1, <3>1 DEF JudgeInv, OwnInv, KindInv, ProcInv
  <2>2. CASE H = pending
    BY <1>1, <2>2 DEF JudgeInv, OwnInv, KindInv, ProcInv
  <2>. QED
    BY <2>1, <2>2
<1>3. t # "sched"
  BY <1>1 DEF JudgeInv, KindInv
<1>4. Ops' = Ops /\ x \in Ops /\ x \in Nat /\ H \ {x} \subseteq Ops
  BY <1>1, OpFacts DEF Ops, JudgeInv, JudgeTypes
<1>5. act \in [Threads -> [ph : JudgePhases, op : Nat, rest : SUBSET Ops]]
  BY DEF JudgeInv, JudgeTypes
<1>6. PICK e : e = [ph |-> "poll", op |-> x, rest |-> H \ {x}]
  OBVIOUS
<1>7. /\ e.ph = "poll" /\ e.op = x /\ e.rest = H \ {x}
      /\ e \in [ph : JudgePhases, op : Nat, rest : SUBSET Ops] /\ act' = [act EXCEPT ![t] = e]
  BY <1>4, <1>6 DEF Waits, Turns, JudgePhases
<1>8. /\ act' \in [Threads -> [ph : JudgePhases, op : Nat, rest : SUBSET Ops]]
      /\ act'[t].ph = "poll" /\ act'[t].op = x /\ act'[t].rest = H \ {x}
      /\ \A u \in Threads \ {t} : act'[u] = act[u]
  BY <1>5, <1>7
<1>9. /\ \A q \in Ops : Holds(t, q)' <=> q \in H
      /\ \A u \in Threads \ {t}, q \in Ops : Holds(u, q)' <=> Holds(u, q)
      /\ \A q \in Ops : Holds(t, q) => q \in H
  BY <1>1, <1>8 DEF Holds, Busy
<1>10. OwnInv'
  <2>1. ASSUME NEW u \in Threads, NEW q \in Ops, Holds(u, q)'
        PROVE  q \in begun /\ q \notin pending' /\ \A w \in Threads : w # u => ~Holds(w, q)'
    <3>1. CASE u = t
      BY <1>1, <1>2, <1>9, <2>1, <3>1
    <3>2. CASE u # t
      <4>1. Holds(u, q) /\ q \notin H
        BY <1>2, <1>9, <2>1, <3>2
      <4>2. q \in begun /\ q \notin pending /\ \A w \in Threads : w # u => ~Holds(w, q)
        BY <4>1 DEF JudgeInv, OwnInv
      <4>. QED
        BY <1>1, <1>9, <3>2, <4>1, <4>2
    <3>. QED
      BY <3>1, <3>2
  <2>2. ASSUME NEW i \in DOMAIN recs
        PROVE  /\ recs[i].op \in begun /\ recs[i].op \notin pending'
               /\ \A u \in Threads : ~Holds(u, recs[i].op)'
    <3>1. /\ recs[i].op \in begun /\ recs[i].op \notin pending /\ recs[i].op \notin H
          /\ recs[i].op \in Ops /\ \A u \in Threads : ~Holds(u, recs[i].op)
      BY <1>2 DEF JudgeInv, OwnInv, JudgeTypes
    <3>2. ASSUME NEW u \in Threads PROVE ~Holds(u, recs[i].op)'
      BY <1>9, <3>1
    <3>. QED
      BY <1>1, <3>1, <3>2
  <2>3. \A u \in Threads : /\ act'[u].ph = "idle" => act'[u].rest = {}
                           /\ act'[u].ph # "idle" => act'[u].op \in begun
                           /\ Busy(u)' => act'[u].op \notin act'[u].rest
    BY ZenonT(40), <1>1, <1>8 DEF JudgeInv, OwnInv, Busy
  <2>4. \A i \in DOMAIN recs' :
          /\ recs'[i].op \in begun /\ recs'[i].op \notin pending'
          /\ \A u \in Threads : ~Holds(u, recs[i].op)'
    BY <2>2
  <2>5. pending' \subseteq begun
    BY <1>1 DEF JudgeInv, OwnInv
  <2>. QED
    BY <1>4, <2>1, <2>3, <2>4, <2>5 DEF OwnInv
<1>11. KindInv'
  <2>1. \A q \in pending' : Kind(q) = "sub"
    BY <1>1 DEF JudgeInv, KindInv
  <2>2. ASSUME NEW u \in Threads PROVE \A q \in act'[u].rest : Kind(q) = "sub"
    <3>1. CASE u = t
      BY <1>2, <1>8, <3>1
    <3>2. CASE u # t
      BY <1>8, <3>2 DEF JudgeInv, KindInv
    <3>. QED
      BY <3>1, <3>2
  <2>3. act'["sched"] = act["sched"]
    BY <1>3, <1>8 DEF Threads
  <2>4. \A u \in {"main", "worker"} :
          \/ act'[u] = act[u]
          \/ act'[u].ph = "poll" /\ Kind(act'[u].op) = "sub"
    BY ZenonT(40), <1>2, <1>8 DEF Threads
  <2>5. \A q : Kind(q)' = Kind(q)
    BY DEF Kind
  <2>6. KindInv
    BY DEF JudgeInv
  <2>. QED
    BY <2>1, <2>2, <2>3, <2>4, <2>5, <2>6 DEF KindInv, Busy, ContentKinds
<1>12. OrderInv'
  <2>1. \/ act'["worker"] = act["worker"]
        \/ act'["worker"].ph = "poll" /\ Kind(act'["worker"].op) = "sub"
    BY <1>2, <1>8 DEF Threads
  <2>2. \A q : Kind(q)' = Kind(q)
    BY DEF Kind
  <2>3. OrderInv /\ begun' = begun
    BY DEF JudgeInv
  <2>. QED
    BY <1>4, <2>1, <2>2, <2>3 DEF OrderInv, Busy
<1>13. ProcInv'
  <2>1. ASSUME NEW q \in Ops, proc[q].st = "run"
        PROVE  /\ Kind(q) \in ContentKinds \ {"sub"} =>
                     act'["worker"].op = q /\ act'["worker"].ph \in {"poll", "check"}
               /\ Kind(q) = "compute" => act'["sched"].op = q /\ act'["sched"].ph \in {"poll", "check"}
    <3>1. /\ Kind(q) \in ContentKinds \ {"sub"} =>
                act["worker"].op = q /\ act["worker"].ph \in {"poll", "check"}
          /\ Kind(q) = "compute" => act["sched"].op = q /\ act["sched"].ph \in {"poll", "check"}
      BY <2>1 DEF JudgeInv, ProcInv
    <3>2. act'["sched"] = act["sched"]
      BY <1>3, <1>8 DEF Threads
    <3>3. act["worker"].ph \in {"poll", "check"} => act'["worker"] = act["worker"]
      BY <1>8 DEF Threads
    <3>. QED
      BY <3>1, <3>2, <3>3
  <2>2. \A u \in Threads : act'[u].ph \in {"judge", "publish"} => proc[act'[u].op].st # "run"
    <3>. SUFFICES ASSUME NEW u \in Threads, act'[u].ph \in {"judge", "publish"}
                  PROVE  proc[act'[u].op].st # "run"
      OBVIOUS
    <3>1. act'[u] = act[u]
      BY <1>8
    <3>. QED
      BY <3>1 DEF JudgeInv, ProcInv
  <2>3. act'["worker"].ph = "taken" => proc[act'["worker"].op].st = "none"
    BY ZenonT(40), <1>8 DEF JudgeInv, ProcInv, Threads
  <2>4. \A q \in pending' : proc[q].st # "none"
    BY <1>1 DEF JudgeInv, ProcInv
  <2>5. \A u \in Threads : \A q \in act'[u].rest : proc[q].st # "none"
    <3>. SUFFICES ASSUME NEW u \in Threads, NEW q \in act'[u].rest PROVE proc[q].st # "none"
      OBVIOUS
    <3>1. CASE u = t
      BY <1>2, <1>8, <3>1
    <3>2. CASE u # t
      <4>1. act'[u] = act[u]
        BY <1>8, <3>2
      <4>. QED
        BY <4>1 DEF JudgeInv, ProcInv
    <3>. QED
      BY <3>1, <3>2
  <2>6. ASSUME NEW u \in Threads, act'[u].ph \in {"spawned", "poll", "check", "judge"}, Kind(act'[u].op) = "sub"
        PROVE  proc[act'[u].op].st # "none"
    <3>1. CASE u = t
      BY <1>2, <1>8, <3>1
    <3>2. CASE u # t
      <4>1. act'[u] = act[u]
        BY <1>8, <3>2
      <4>. QED
        BY <2>6, <4>1 DEF JudgeInv, ProcInv
    <3>. QED
      BY <3>1, <3>2
  <2>. QED
    BY ZenonT(40), <1>4, <2>1, <2>2, <2>3, <2>4, <2>5, <2>6 DEF JudgeInv, ProcInv, Kind
<1>14. LogInv'
  <2>1. \A q \in Ops : LogOpen(q)' => LogOpen(q)
    <3>. SUFFICES ASSUME NEW q \in Ops, LogOpen(q)' PROVE LogOpen(q)
      OBVIOUS
    <3>1. CASE q \in pending'
      BY <1>1, <3>1 DEF LogOpen
    <3>2. CASE \E u \in Threads : Holds(u, q)' /\ act'[u].ph # "taken"
      <4>1. PICK u \in Threads : Holds(u, q)' /\ act'[u].ph # "taken"
        BY <3>2
      <4>2. CASE u = t
        <5>1. q \in H
          BY <1>9, <4>1, <4>2
        <5>. QED
          BY <5>1 DEF LogOpen, Holds
      <4>3. CASE u # t
        BY <1>8, <1>9, <4>1, <4>3 DEF LogOpen
      <4>. QED
        BY <4>2, <4>3
    <3>3. CASE \E i \in DOMAIN recs : recs[i].op = q
      BY <3>3 DEF LogOpen
    <3>. QED
      BY <3>1, <3>2, <3>3 DEF LogOpen
  <2>2. act'["worker"] = act["worker"] \/ Kind(act'["worker"].op) # "get"
    BY <1>2, <1>8 DEF Threads
  <2>3. LogInv
    BY DEF JudgeInv
  <2>. QED
    BY <1>4, <2>1, <2>2, <2>3 DEF LogInv, Kind, OutputOf, content_log_name
<1>15. ArtInv'
  BY ArtKept DEF JudgeInv, JudgeTypes
<1>16. RespInv'
  <2>1. act'["sched"] = act["sched"]
    BY <1>3, <1>8 DEF Threads
  <2>. QED
    BY <2>1 DEF JudgeInv, RespInv, Busy, OutputOf
<1>17. RecInv'
  BY RecordsKept DEF JudgeInv, RecInv
<1>18. JudgeTypes'
  <2>1. pending' \subseteq Ops
    BY <1>1 DEF JudgeInv, JudgeTypes
  <2>2. act' \in [Threads -> [ph : JudgePhases, op : Nat, rest : SUBSET Ops]]
    BY <1>8
  <2>3. {OutputOf(q) : q \in Ops}' = {OutputOf(q) : q \in Ops}
    BY <1>4 DEF OutputOf
  <2>4. /\ script \in Scripts /\ begun \subseteq Ops /\ lost \subseteq Ops
        /\ emptied \subseteq Ops /\ cancel \in BOOLEAN
        /\ proc \in [Ops -> ProcState]
        /\ log \in [Names -> [by : Nat, lines : SUBSET LogLines, text : LogTexts]]
        /\ resp \in [{OutputOf(q) : q \in Ops} -> [by : Nat, ok : BOOLEAN]]
        /\ result \in [Ops -> [timed : BOOLEAN, cancelled : BOOLEAN]]
        /\ seen \in [Ops -> SUBSET Ops]
    BY DEF JudgeInv, JudgeTypes
  <2>. QED
    BY <1>4, <2>1, <2>2, <2>3, <2>4 DEF JudgeTypes
<1>. QED
  BY <1>10, <1>11, <1>12, <1>13, <1>14, <1>15, <1>16, <1>17, <1>18 DEF JudgeInv

\* The subscribers of the sink were called: the thread goes on, or becomes idle.
LEMMA NotifyStep ==
  ASSUME JudgeInv, NEW t \in Threads, Notify(t)
  PROVE  JudgeInv'
<1>1. /\ act[t].ph = "notify"
      /\ UNCHANGED <<script, begun, proc, log, outs, arts, resp, pending, result, cancel, recs,
                     published, seen, lost, emptied>>
  BY DEF Notify
<1>2. CASE act[t].rest # {}
  <2>1. PICK x, H : H = act[t].rest /\ x = Following(act[t].op, H)
    OBVIOUS
  <2>2. H \subseteq Nat /\ H # {}
    BY <1>2, <2>1, OpFacts DEF JudgeInv, JudgeTypes
  <2>3. x \in H
    BY <2>1, <2>2, FollowingFacts
  <2>4. act' = Waits(t, x, H \ {x})
    BY <1>2, <2>1 DEF Notify
  <2>. QED
    BY <1>1, <2>1, <2>3, <2>4, Settles
<1>3. CASE act[t].rest = {}
  <2>1. act' = [act EXCEPT ![t] = Idle] /\ Ops' = Ops
    BY <1>3 DEF Notify, Ops, Idle
  <2>2. act \in [Threads -> [ph : JudgePhases, op : Nat, rest : SUBSET Ops]]
    BY DEF JudgeInv, JudgeTypes
  <2>3. /\ act' \in [Threads -> [ph : JudgePhases, op : Nat, rest : SUBSET Ops]]
        /\ act'[t].ph = "idle" /\ act'[t].rest = {}
        /\ \A u \in Threads \ {t} : act'[u] = act[u]
    BY <2>1, <2>2 DEF Idle, JudgePhases
  <2>4. /\ \A u \in Threads, q \in Ops : Holds(u, q)' <=> Holds(u, q)
        /\ \A u \in Threads : Busy(u)' <=> Busy(u)
        /\ \A u \in Threads : act'[u].rest = act[u].rest
        /\ \A u \in Threads : act'[u].ph # "idle" => act'[u] = act[u]
    BY <1>1, <1>3, <2>3 DEF Holds, Busy
  <2>5. OwnInv'
    <3>1. \A i \in DOMAIN recs : recs[i].op \in Ops
      BY DEF JudgeInv, JudgeTypes, OwnInv
    <3>2. \A u \in Threads : /\ act'[u].ph = "idle" => act'[u].rest = {}
                             /\ act'[u].ph # "idle" => act'[u].op \in begun
                             /\ Busy(u)' => act'[u].op \notin act'[u].rest
      BY <2>3, <2>4 DEF JudgeInv, OwnInv, Busy
    <3>3. \A i \in DOMAIN recs : \A u \in Threads : ~Holds(u, recs[i].op)'
      BY <1>1, <2>4, <3>1 DEF JudgeInv, OwnInv
    <3>. QED
      BY <1>1, <2>1, <2>4, <3>1, <3>2, <3>3 DEF JudgeInv, OwnInv
  <2>6. \A u \in Threads : Busy(u)' => act'[u] = act[u]
    BY <2>4 DEF Busy
  <2>7. KindInv'
    BY <1>1, <2>3, <2>4, <2>6 DEF JudgeInv, KindInv, Kind, Threads
  <2>8. OrderInv'
    BY <1>1, <2>1, <2>4, <2>6 DEF JudgeInv, OrderInv, Kind, Threads
  <2>9. ProcInv'
    <3>1. ASSUME NEW q \in Ops, proc[q].st = "run"
          PROVE  /\ Kind(q) \in ContentKinds \ {"sub"} =>
                       act'["worker"].op = q /\ act'["worker"].ph \in {"poll", "check"}
                 /\ Kind(q) = "compute" => act'["sched"].op = q /\ act'["sched"].ph \in {"poll", "check"}
      <4>1. /\ Kind(q) \in ContentKinds \ {"sub"} =>
                  act["worker"].op = q /\ act["worker"].ph \in {"poll", "check"}
            /\ Kind(q) = "compute" => act["sched"].op = q /\ act["sched"].ph \in {"poll", "check"}
        BY <3>1 DEF JudgeInv, ProcInv
      <4>2. \A u \in Threads : act[u].ph \in {"poll", "check"} => act'[u] = act[u]
        BY <1>1, <2>3
      <4>. QED
        BY <4>1, <4>2 DEF Threads
    <3>2. \A u \in Threads : act'[u].ph \in {"judge", "publish"} => proc[act'[u].op].st # "run"
      BY <2>4 DEF JudgeInv, ProcInv
    <3>3. act'["worker"].ph = "taken" => proc[act'["worker"].op].st = "none"
      BY <2>4 DEF JudgeInv, ProcInv, Threads
    <3>4. \A u \in Threads : \A q \in act'[u].rest : proc[q].st # "none"
      BY <2>4 DEF JudgeInv, ProcInv
    <3>5. \A u \in Threads :
            act'[u].ph \in {"spawned", "poll", "check", "judge"} /\ Kind(act'[u].op) = "sub"
               => proc[act'[u].op].st # "none"
      BY <2>4 DEF JudgeInv, ProcInv
    <3>. QED
      BY <1>1, <2>1, <3>1, <3>2, <3>3, <3>4, <3>5 DEF JudgeInv, ProcInv, Kind
  <2>10. LogInv'
    <3>1. \A q \in Ops : LogOpen(q)' => LogOpen(q)
      BY <1>1, <2>3, <2>4 DEF LogOpen
    <3>2. act'["worker"].ph # "idle" => act'["worker"] = act["worker"]
      BY <2>4 DEF Threads
    <3>3. LogInv
      BY DEF JudgeInv
    <3>. QED
      BY <1>1, <2>1, <3>1, <3>2, <3>3 DEF LogInv, Kind, OutputOf, content_log_name
  <2>11. ArtInv'
    BY <1>1, ArtKept DEF JudgeInv, JudgeTypes
  <2>12. RespInv'
    <3>1. act'["sched"].ph # "idle" => act'["sched"] = act["sched"]
      BY <2>4 DEF Threads
    <3>. QED
      BY <1>1, <3>1 DEF JudgeInv, RespInv, Busy, OutputOf
  <2>13. RecInv'
    BY <1>1, RecordsKept DEF JudgeInv, RecInv
  <2>14. JudgeTypes'
    BY <1>1, <2>1, <2>3 DEF JudgeInv, JudgeTypes, OutputOf
  <2>. QED
    BY <2>5, <2>7, <2>8, <2>9, <2>10, <2>11, <2>12, <2>13, <2>14 DEF JudgeInv
<1>. QED
  BY <1>2, <1>3

\* The main thread takes what is pending over.
LEMMA MainSettlesStep ==
  ASSUME JudgeInv, MainSettles
  PROVE  JudgeInv'
<1>1. /\ act["main"].ph = "idle" /\ pending # {} /\ pending' = {}
      /\ UNCHANGED <<script, begun, proc, log, outs, arts, resp, result, cancel, recs,
                     published, seen, lost, emptied>>
  BY DEF MainSettles
<1>2. PICK x, H, t : H = pending /\ x = Min(H) /\ t = "main"
  OBVIOUS
<1>3. H \subseteq Nat /\ H # {}
  BY <1>1, <1>2, OpFacts DEF JudgeInv, JudgeTypes
<1>4. x \in H
  BY <1>2, <1>3, MinFacts
<1>5. act' = Waits(t, x, H \ {x}) /\ t \in Threads
  BY <1>2 DEF MainSettles, Threads
<1>. QED
  BY <1>1, <1>2, <1>4, <1>5, Settles

\* Nothing that the invariant is about happens.
LEMMA JudgeFrame ==
  ASSUME JudgeInv, UNCHANGED <<script, begun, proc, log, outs, arts, resp, pending, act, result,
                               recs, published, seen, lost, emptied>>,
         cancel' \in BOOLEAN
  PROVE  JudgeInv'
<1>1. OwnInv' /\ KindInv' /\ OrderInv' /\ Ops' = Ops
  BY ThreadsKept
<1>2. ProcInv'
  BY <1>1 DEF JudgeInv, ProcInv, Kind
<1>3. LogInv'
  <2>1. \A q \in Ops : LogOpen(q)' => LogOpen(q)
    BY DEF LogOpen, Holds, Busy
  <2>2. LogInv
    BY DEF JudgeInv
  <2>. QED
    BY <1>1, <2>1, <2>2 DEF LogInv, Kind, OutputOf, content_log_name
<1>4. ArtInv'
  BY ArtKept DEF JudgeInv, JudgeTypes
<1>5. RespInv'
  BY DEF JudgeInv, RespInv, Busy, OutputOf
<1>6. RecInv'
  BY RecordsKept DEF JudgeInv, RecInv
<1>7. JudgeTypes'
  BY <1>1 DEF JudgeInv, JudgeTypes, OutputOf
<1>. QED
  BY <1>1, <1>2, <1>3, <1>4, <1>5, <1>6, <1>7 DEF JudgeInv

\* At the start nothing was dispatched, written or recorded.
LEMMA JudgeInitially ==
  ASSUME JudgeInit
  PROVE  JudgeInv
<1>1. /\ \A o \in Ops : /\ proc[o].st = "none" /\ proc[o].rc = "none" /\ ~proc[o].got
                        /\ ~proc[o].done /\ proc[o].status = "none"
      /\ \A t \in Threads : act[t].ph = "idle" /\ act[t].rest = {} /\ act[t].op = 0
      /\ \A f \in Names : log[f].by = 0 /\ log[f].lines = {} /\ log[f].text = <<>>
      /\ begun = {} /\ pending = {} /\ lost = {} /\ emptied = {} /\ arts = {}
      /\ published = {} /\ recs = <<>>
  BY DEF JudgeInit, NoProc, Idle, EmptyLog
<1>2. DOMAIN recs = {} /\ recs \in Seq({recs[i] : i \in DOMAIN recs})
  BY <1>1
<1>3. \A t \in Threads : ~Busy(t)
  BY <1>1 DEF Busy
<1>4. \A o \in Ops : ~LogOpen(o)
  BY <1>1, <1>2, <1>3 DEF LogOpen, Holds
<1>5. JudgeTypes
  <2>1. proc \in [Ops -> ProcState]
    BY DEF JudgeInit, NoProc, ProcState
  <2>2. log \in [Names -> [by : Nat, lines : SUBSET LogLines, text : LogTexts]]
    BY DEF JudgeInit, EmptyLog, LogTexts
  <2>3. resp \in [{OutputOf(o) : o \in Ops} -> [by : Nat, ok : BOOLEAN]]
    BY DEF JudgeInit
  <2>4. act \in [Threads -> [ph : JudgePhases, op : Nat, rest : SUBSET Ops]]
    BY DEF JudgeInit, Idle, JudgePhases
  <2>. QED
    BY <1>1, <2>1, <2>2, <2>3, <2>4 DEF JudgeInit, JudgeTypes
<1>6. OwnInv
  BY <1>1, <1>2, <1>3 DEF OwnInv, Holds
<1>7. KindInv
  BY <1>1, <1>3 DEF KindInv, Threads
<1>8. ProcInv
  BY <1>1, <1>2 DEF ProcInv, Threads
<1>9. OrderInv
  BY <1>1, <1>3 DEF OrderInv, Threads
<1>10. LogInv
  <2>1. \A o \in Ops : ~proc[o].done
    BY <1>1
  <2>2. \A f \in Names : log[f].by = 0 /\ log[f].lines = {}
    BY <1>1
  <2>3. act["worker"].ph = "idle"
    BY <1>1 DEF Threads
  <2>. QED
    BY <1>4, <2>1, <2>2, <2>3 DEF LogInv
<1>11. ArtInv
  BY <1>1 DEF ArtInv
<1>12. RespInv
  BY <1>1, <1>3 DEF RespInv, Threads
<1>13. RecInv
  BY <1>1, <1>2 DEF RecInv
<1>. QED
  BY <1>5, <1>6, <1>7, <1>8, <1>9, <1>10, <1>11, <1>12, <1>13 DEF JudgeInv

\* Every step keeps the invariant.
LEMMA JudgeSteps ==
  ASSUME JudgeInv, [JudgeNext]_judgeVars
  PROVE  JudgeInv'
<1>1. CASE Processes
  <2>1. PICK p \in Ops : \/ GetReceives(p) \/ GetCompletes(p) \/ SubCreates(p) \/ SubWrites(p)
                         \/ Exits(p) \/ CurlExits(p)
    BY <1>1 DEF Processes
  <2>. QED
    BY <2>1, GetStep, SubCreatesStep, SubWritesStep, ExitsStep, CurlExitsStep
<1>2. CASE Dispatch
  BY <1>2, TakeStep, RunStartStep, RunRaisesStep, SubClearsStep, SubSpawnsStep,
     SubPendsStep, ComputeStartStep, PubStartStep,
     PubCancelledStep DEF Dispatch
<1>3. CASE Settle
  BY <1>3, WaitStep, InterruptsStep, JudgeStep, NotifyStep, CaptureTimesOutStep, ComputeJudgeStep,
     ComputePublishStep DEF Settle
<1>4. CASE Cancel
  BY <1>4, JudgeFrame DEF Cancel
<1>5. CASE MainSettles
  BY <1>5, MainSettlesStep
<1>6. CASE UNCHANGED judgeVars
  BY <1>6, JudgeFrame DEF judgeVars, JudgeInv, JudgeTypes
<1>. QED
  BY <1>1, <1>2, <1>3, <1>4, <1>5, <1>6 DEF JudgeNext

\* Operations, processes, evidence and records always agree as JudgeInv says, for all
\* scripts, texts and interleavings of the three threads and the processes.
THEOREM JudgeInvariant == JudgeSpec => []JudgeInv
BY JudgeInitially, JudgeSteps, PTL DEF JudgeSpec

\* A record says success exactly when content was delivered, as far as the files can
\* tell (result_detect.py, compute_client.py), for all scripts: a get and a compute call
\* succeed on their own delivery, a subscription on content that arrived in its
\* directory since it emptied it, its own or that of another one still running there.
THEOREM JudgeSuccess == JudgeSpec => []SuccessIffDelivery
<1>1. JudgeInv => SuccessIffDelivery
  <2>. SUFFICES ASSUME JudgeInv PROVE SuccessIffDelivery
    OBVIOUS
  <2>1. SuccessIsDelivery
    BY DEF JudgeInv, RecInv, Earned, Successes, SuccessIsDelivery
  <2>2. DeliveryIsSuccess
    BY DEF JudgeInv, RecInv, Honoured, DeliveryIsSuccess
  <2>. QED
    BY <2>1, <2>2 DEF SuccessIffDelivery
<1>. QED
  BY <1>1, JudgeInvariant, PTL

\* The order is kept when no subscription is taken over, and no thread goes on to another
\* one out of order.
LEMMA QueueKept ==
  ASSUME JudgeInv, QueueInv, UNCHANGED <<script, recs>>, pending' \subseteq pending,
         MainLast', RestAfter',
         \A t \in Threads, o \in Ops : Kind(o) = "sub" /\ Holds(t, o)' =>
            Holds(t, o) /\ (act'[t].ph \notin {"taken", "spawned"} => act[t].ph \notin {"taken", "spawned"}),
         \A o \in Ops : Holds("main", o)' => Holds("main", o)
  PROVE  QueueInv'
<1>1. /\ Ops' = Ops
      /\ \A o : Kind(o)' = Kind(o) /\ content_log_name(o)' = content_log_name(o)
      /\ \A o, p : SameUri(o, p)' = SameUri(o, p)
  BY DEF Ops, Kind, content_log_name, SameUri
<1>2. RecsAscend'
  BY <1>1 DEF QueueInv, RecsAscend, content_log_name, SameUri
<1>3. RecsFirst'
  <2>. SUFFICES ASSUME NEW i \in DOMAIN recs, NEW o \in Ops, recs[i].kind = "sub", Kind(o) = "sub",
                       SameUri(recs[i].op, o), o \in pending' \/ \E t \in Threads : Holds(t, o)'
                PROVE  recs[i].op < o
    BY <1>1 DEF RecsFirst, SameUri, Kind
  <2>1. o \in pending \/ \E t \in Threads : Holds(t, o)
    OBVIOUS
  <2>. QED
    BY <2>1 DEF QueueInv, RecsFirst
<1>4. PendingAfter'
  <2>. SUFFICES ASSUME NEW t \in Threads, NEW o \in Ops, NEW p \in pending', Holds(t, o)',
                       act'[t].ph \notin {"taken", "spawned"}, Kind(o) = "sub", SameUri(o, p)
                PROVE  t = "main" /\ o < p
    BY <1>1 DEF PendingAfter
  <2>1. Holds(t, o) /\ act[t].ph \notin {"taken", "spawned"} /\ p \in pending
    OBVIOUS
  <2>. QED
    BY <2>1 DEF QueueInv, PendingAfter
<1>5. OneSettles'
  <2>. SUFFICES ASSUME NEW o \in Ops, NEW p \in Ops, Holds("main", o)', Holds("worker", p)',
                       Kind(p) = "sub", SameUri(o, p), act'["worker"].ph \notin {"taken", "spawned"}
                PROVE  FALSE
    BY <1>1 DEF OneSettles
  <2>1. Holds("main", o) /\ Holds("worker", p) /\ act["worker"].ph \notin {"taken", "spawned"}
    BY DEF Threads
  <2>. QED
    BY <2>1 DEF QueueInv, OneSettles
<1>. QED
  BY <1>2, <1>3, <1>4, <1>5 DEF QueueInv

\* What processes do, and a cancellation, keep the order.
LEMMA QueueProcesses ==
  ASSUME JudgeInv, QueueInv, UNCHANGED <<script, begun, pending, act, recs>>,
         cancel => cancel'
  PROVE  QueueInv'
<1>1. Ops' = Ops /\ \A o : Kind(o)' = Kind(o)
  BY DEF Ops, Kind
<1>2. MainLast'
  BY <1>1 DEF QueueInv, MainLast
<1>3. RestAfter'
  BY <1>1 DEF QueueInv, RestAfter, SameUri, Kind
<1>4. \A t \in Threads, o \in Ops : Holds(t, o)' <=> Holds(t, o)
  BY DEF Holds, Busy
<1>. QED
  BY <1>2, <1>3, <1>4, QueueKept DEF Threads

\* What the worker takes comes after all that was dispatched before.
LEMMA QueueTakes ==
  ASSUME JudgeInv, QueueInv, NEW o \in Ops, Take(o)
  PROVE  QueueInv'
<1>1. /\ act["worker"].ph = "idle" /\ ~cancel /\ o \in Ops \ begun /\ Kind(o) \in ContentKinds
      /\ act' = Turns("worker", "taken", o, {})
      /\ UNCHANGED <<script, pending, cancel, recs>> /\ begun' = begun \union {o}
  BY DEF Take, Next1
<1>2. /\ act'["worker"].ph = "taken" /\ act'["worker"].op = o /\ act'["worker"].rest = {}
      /\ act'["main"] = act["main"] /\ act'["sched"] = act["sched"]
  BY <1>1 DEF Turns, Threads, JudgeInv, JudgeTypes
<1>3. /\ Ops' = Ops
      /\ \A p : Kind(p)' = Kind(p) /\ content_log_name(p)' = content_log_name(p)
      /\ \A p, q : SameUri(p, q)' = SameUri(p, q)
  BY <1>1 DEF Ops, Kind, content_log_name, SameUri
<1>4. act["main"].ph = "idle"
  BY <1>1 DEF QueueInv, MainLast
<1>5. /\ \A t \in {"main", "sched"}, q \in Ops : Holds(t, q)' <=> Holds(t, q)
      /\ \A q \in Ops : Holds("worker", q)' <=> q = o
  BY <1>2 DEF Holds, Busy
<1>6. MainLast'
  BY <1>2, <1>4 DEF MainLast
<1>7. RecsAscend'
  BY <1>1, <1>3 DEF QueueInv, RecsAscend, content_log_name, SameUri
<1>8. RecsFirst'
  <2>. SUFFICES ASSUME NEW i \in DOMAIN recs, NEW q \in Ops, recs[i].kind = "sub", Kind(q) = "sub",
                       SameUri(recs[i].op, q), q \in pending \/ \E t \in Threads : Holds(t, q)'
                PROVE  recs[i].op < q
    BY <1>1, <1>3 DEF RecsFirst, SameUri, Kind
  <2>1. CASE q = o
    <3>1. recs[i].op \in begun /\ Kind(recs[i].op) = "sub"
      BY DEF JudgeInv, OwnInv, RecInv
    <3>. QED
      BY <1>1, <2>1, <3>1 DEF JudgeInv, OrderInv, ContentKinds
  <2>2. CASE q # o
    <3>1. q \in pending \/ \E t \in Threads : Holds(t, q)
      BY <1>5, <2>2 DEF Threads
    <3>. QED
      BY <3>1 DEF QueueInv, RecsFirst
  <2>. QED
    BY <2>1, <2>2
<1>9. RestAfter'
  BY <1>2, <1>3 DEF QueueInv, RestAfter, Threads, SameUri, Kind
<1>10. PendingAfter'
  BY <1>1, <1>2, <1>3, <1>5 DEF QueueInv, PendingAfter, Threads
<1>11. OneSettles'
  BY <1>2 DEF OneSettles
<1>. QED
  BY <1>6, <1>7, <1>8, <1>9, <1>10, <1>11 DEF QueueInv

\* The worker is done with what it took and takes nothing over.
LEMMA QueueWorker ==
  ASSUME JudgeInv, QueueInv, NEW o, NEW kinds, Taken(o, kinds),
         UNCHANGED <<script, begun, cancel, recs>>, pending' = pending,
         act'["main"] = act["main"], act'["sched"] = act["sched"],
         act'["worker"].ph \in {"idle", "spawned", "poll", "judge"}, act'["worker"].rest = {},
         act'["worker"].ph # "idle" => act'["worker"].op = o,
         act'["worker"].ph \in {"poll", "judge"} => Kind(o) # "sub"
  PROVE  QueueInv'
<1>1. Ops' = Ops /\ \A q : Kind(q)' = Kind(q)
  BY DEF Ops, Kind
<1>2. act["worker"].ph = "taken" /\ act["worker"].op = o
  BY DEF Taken
<1>3. MainLast'
  BY <1>1, <1>2 DEF QueueInv, MainLast
<1>4. RestAfter'
  BY <1>1 DEF QueueInv, RestAfter, Threads, SameUri, Kind
<1>5. \A t \in {"main", "sched"}, q \in Ops : Holds(t, q)' <=> Holds(t, q)
  BY DEF Holds, Busy
<1>6. \A q \in Ops : Kind(q) = "sub" /\ Holds("worker", q)' =>
         Holds("worker", q) /\ act'["worker"].ph = "spawned"
  BY <1>2 DEF Holds, Busy
<1>7. \A t \in Threads, q \in Ops : Kind(q) = "sub" /\ Holds(t, q)' =>
         Holds(t, q) /\ (act'[t].ph \notin {"taken", "spawned"} => act[t].ph \notin {"taken", "spawned"})
  BY <1>5, <1>6 DEF Threads
<1>. QED
  BY <1>3, <1>4, <1>5, <1>7, QueueKept DEF Threads

\* A put, get or ccninfo starts or fails to.
LEMMA QueueRuns ==
  ASSUME JudgeInv, QueueInv, NEW o \in Ops, RunStart(o) \/ RunRaises(o)
  PROVE  QueueInv'
<1>. DEFINE K == {"get", "put", "ccninfo"}
<1>1. /\ UNCHANGED <<script, begun, cancel, recs>> /\ pending' = pending /\ Taken(o, K) /\ Kind(o) # "sub"
      /\ \/ act' = Turns("worker", "poll", o, {}) \/ act' = Turns("worker", "judge", o, {})
         \/ act' = [act EXCEPT !["worker"] = Idle]
  BY DEF RunStart, RunRaises, Taken, Waits
<1>2. /\ act'["main"] = act["main"] /\ act'["sched"] = act["sched"]
      /\ act'["worker"].ph \in {"idle", "poll", "judge"} /\ act'["worker"].rest = {}
      /\ act'["worker"].ph # "idle" => act'["worker"].op = o
  BY <1>1 DEF Turns, Idle, Threads, JudgeInv, JudgeTypes
<1>. HIDE DEF K
<1>. QED
  BY <1>1, <1>2, QueueWorker

\* A publication that is cancelled takes nothing over.
LEMMA QueuePubCancelled ==
  ASSUME JudgeInv, QueueInv, PubCancelled
  PROVE  QueueInv'
<1>1. PICK o, K : o = act["worker"].op /\ K = {"pub"}
  OBVIOUS
<1>2. /\ UNCHANGED <<script, begun, cancel, recs>> /\ pending' = pending /\ Taken(o, K)
      /\ act' = [act EXCEPT !["worker"] = Idle]
  BY <1>1 DEF PubCancelled
<1>3. /\ act'["main"] = act["main"] /\ act'["sched"] = act["sched"]
      /\ act'["worker"].ph = "idle" /\ act'["worker"].rest = {}
  BY <1>2, WorkerIdles
<1>. QED
  BY <1>2, <1>3, QueueWorker

\* A subscription empties its directory, and starts or fails to.
LEMMA QueueSpawns ==
  ASSUME JudgeInv, QueueInv, NEW o \in Ops, SubClears(o) \/ SubSpawns(o)
  PROVE  QueueInv'
<1>1. CASE SubClears(o)
  BY <1>1, QueueProcesses DEF SubClears
<1>2. CASE SubSpawns(o)
  <2>1. PICK K : K = {"sub"}
    OBVIOUS
  <2>2. /\ UNCHANGED <<script, begun, cancel, recs>> /\ pending' = pending /\ Taken(o, K)
        /\ \/ act' = Turns("worker", "spawned", o, {})
           \/ act' = [act EXCEPT !["worker"] = Idle]
    BY <1>2, <2>1 DEF SubSpawns
  <2>3. /\ act'["main"] = act["main"] /\ act'["sched"] = act["sched"]
        /\ act'["worker"].ph \in {"idle", "spawned"} /\ act'["worker"].rest = {}
        /\ act'["worker"].ph # "idle" => act'["worker"].op = o
    BY <2>2 DEF Turns, Idle, Threads, JudgeInv, JudgeTypes
  <2>. QED
    BY <2>2, <2>3, QueueWorker
<1>. QED
  BY <1>1, <1>2

\* A subscription becomes pending, after those the main thread settles.
LEMMA QueueSubscribes ==
  ASSUME JudgeInv, QueueInv, SubPends
  PROVE  QueueInv'
<1>0. PICK o : o = act["worker"].op
  OBVIOUS
<1>1. /\ UNCHANGED <<script, begun, cancel, recs>> /\ AtStart(o) /\ act["worker"].ph = "spawned"
      /\ pending' = pending \union {o} /\ act' = [act EXCEPT !["worker"] = Idle]
  BY <1>0 DEF SubPends, AtStart
<1>2. /\ act["worker"].op = o /\ Kind(o) = "sub" /\ o \in Ops /\ o \in begun
      /\ \A p \in begun : Kind(p) \in ContentKinds => p <= o
      /\ \A t \in Threads : t # "worker" => ~Holds(t, o)
  BY <1>0, <1>1, AtStartFacts DEF JudgeInv, KindInv
<1>3. /\ act'["main"] = act["main"] /\ act'["sched"] = act["sched"]
      /\ act'["worker"].ph = "idle" /\ act'["worker"].rest = {}
  BY <1>1, WorkerIdles
<1>4. /\ Ops' = Ops
      /\ \A p : Kind(p)' = Kind(p) /\ content_log_name(p)' = content_log_name(p)
      /\ \A p, q : SameUri(p, q)' = SameUri(p, q)
  BY <1>1 DEF Ops, Kind, content_log_name, SameUri
<1>5. /\ \A t \in {"main", "sched"}, q \in Ops : Holds(t, q)' <=> Holds(t, q)
      /\ \A q \in Ops : ~Holds("worker", q)'
      /\ Holds("worker", o)
  BY <1>1, <1>2, <1>3 DEF Holds, Busy
<1>6. MainLast'
  BY <1>1, <1>3, <1>4 DEF QueueInv, MainLast
<1>7. RecsAscend'
  BY <1>1, <1>4 DEF QueueInv, RecsAscend, content_log_name, SameUri
<1>8. RecsFirst'
  <2>. SUFFICES ASSUME NEW i \in DOMAIN recs, NEW q \in Ops, recs[i].kind = "sub", Kind(q) = "sub",
                       SameUri(recs[i].op, q), q \in pending' \/ \E t \in Threads : Holds(t, q)'
                PROVE  recs[i].op < q
    BY <1>1, <1>4 DEF RecsFirst, SameUri, Kind
  <2>1. q \in pending \/ \E t \in Threads : Holds(t, q)
    BY <1>1, <1>5 DEF Threads
  <2>. QED
    BY <2>1 DEF QueueInv, RecsFirst
<1>9. RestAfter'
  BY <1>1, <1>3, <1>4 DEF QueueInv, RestAfter, Threads, SameUri, Kind
<1>10. PendingAfter'
  <2>. SUFFICES ASSUME NEW t \in Threads, NEW q \in Ops, NEW p \in pending', Holds(t, q)',
                       act'[t].ph \notin {"taken", "spawned"}, Kind(q) = "sub", SameUri(q, p)
                PROVE  t = "main" /\ q < p
    BY <1>4 DEF PendingAfter
  <2>1. t \in {"main", "sched"} /\ Holds(t, q) /\ act[t].ph \notin {"taken", "spawned"}
    BY <1>3, <1>5 DEF Threads
  <2>2. CASE p \in pending
    BY <2>1, <2>2 DEF QueueInv, PendingAfter, Threads
  <2>3. CASE p = o
    <3>1. q # o /\ q \in begun /\ q <= o
      BY <1>2, <2>1 DEF JudgeInv, OwnInv, Threads, ContentKinds
    <3>2. t # "sched"
      BY <2>1 DEF JudgeInv, KindInv, Holds
    <3>3. q \in Nat /\ o \in Nat
      BY <1>2, OpFacts DEF JudgeInv, JudgeTypes
    <3>. QED
      BY <2>1, <2>3, <3>1, <3>2, <3>3
  <2>. QED
    BY <1>1, <2>2, <2>3
<1>11. OneSettles'
  BY <1>4, <1>5 DEF OneSettles
<1>. QED
  BY <1>6, <1>7, <1>8, <1>9, <1>10, <1>11 DEF QueueInv

\* A publication takes over all pending subscriptions of its URI.
LEMMA QueuePublishes ==
  ASSUME JudgeInv, QueueInv, PubStart
  PROVE  QueueInv'
<1>1. PICK o : o = act["worker"].op
  OBVIOUS
<1>2. /\ UNCHANGED <<script, begun, cancel, recs>> /\ Taken(o, {"pub"})
      /\ pending' = pending \ SubsOf(o)
      /\ \/ act' = Waits("worker", o, SubsOf(o)) \/ act' = [act EXCEPT !["worker"] = Idle]
  BY <1>1 DEF PubStart
<1>3. /\ act["worker"].ph = "taken" /\ Kind(o) = "pub" /\ SubsOf(o) \subseteq pending
      /\ \A p \in SubsOf(o), q \in pending' : ~SameUri(p, q)
  BY <1>2 DEF Taken, SubsOf, SameUri
<1>4. /\ act'["main"] = act["main"] /\ act'["sched"] = act["sched"]
      /\ act'["worker"].ph \in {"idle", "poll"} /\ act'["worker"].rest \subseteq SubsOf(o)
      /\ act'["worker"].ph # "idle" => act'["worker"].op = o
  BY <1>2 DEF Waits, Turns, Idle, Threads, JudgeInv, JudgeTypes
<1>5. /\ Ops' = Ops
      /\ \A p : Kind(p)' = Kind(p) /\ content_log_name(p)' = content_log_name(p)
      /\ \A p, q : SameUri(p, q)' = SameUri(p, q)
  BY <1>2 DEF Ops, Kind, content_log_name, SameUri
<1>6. /\ \A t \in {"main", "sched"}, q \in Ops : Holds(t, q)' <=> Holds(t, q)
      /\ \A q \in Ops : Holds("worker", q)' /\ Kind(q) = "sub" => q \in SubsOf(o)
  BY <1>3, <1>4 DEF Holds, Busy
<1>7. MainLast'
  BY <1>2, <1>3, <1>4, <1>5 DEF QueueInv, MainLast
<1>8. RecsAscend'
  BY <1>2, <1>5 DEF QueueInv, RecsAscend, content_log_name, SameUri
<1>9. RecsFirst'
  <2>. SUFFICES ASSUME NEW i \in DOMAIN recs, NEW q \in Ops, recs[i].kind = "sub", Kind(q) = "sub",
                       SameUri(recs[i].op, q), q \in pending' \/ \E t \in Threads : Holds(t, q)'
                PROVE  recs[i].op < q
    BY <1>2, <1>5 DEF RecsFirst, SameUri, Kind
  <2>1. q \in pending \/ \E t \in Threads : Holds(t, q)
    BY <1>2, <1>3, <1>6 DEF Threads
  <2>. QED
    BY <2>1 DEF QueueInv, RecsFirst
<1>10. RestAfter'
  BY <1>2, <1>3, <1>4, <1>5 DEF QueueInv, RestAfter, Threads, SameUri, Kind
<1>11. PendingAfter'
  <2>. SUFFICES ASSUME NEW t \in Threads, NEW q \in Ops, NEW p \in pending', Holds(t, q)',
                       act'[t].ph \notin {"taken", "spawned"}, Kind(q) = "sub", SameUri(q, p)
                PROVE  t = "main" /\ q < p
    BY <1>5 DEF PendingAfter
  <2>1. t \in {"main", "sched"} /\ Holds(t, q) /\ act[t].ph \notin {"taken", "spawned"} /\ p \in pending
    BY <1>2, <1>3, <1>4, <1>6 DEF Threads
  <2>. QED
    BY <2>1 DEF QueueInv, PendingAfter, Threads
<1>12. OneSettles'
  <2>. SUFFICES ASSUME NEW q \in Ops, NEW p \in Ops, Holds("main", q)', Holds("worker", p)',
                       Kind(p) = "sub", SameUri(q, p)
                PROVE  FALSE
    BY <1>5 DEF OneSettles
  <2>1. p \in pending /\ Holds("main", q)
    BY <1>3, <1>6
  <2>2. act["main"].ph # "idle"
    BY <2>1 DEF JudgeInv, OwnInv, Holds, Busy, Threads
  <2>. QED
    BY <1>3, <2>1, <2>2 DEF QueueInv, MainLast
<1>. QED
  BY <1>7, <1>8, <1>9, <1>10, <1>11, <1>12 DEF QueueInv

\* A compute call starts.
LEMMA QueueComputes ==
  ASSUME JudgeInv, QueueInv, NEW o \in Ops, ComputeStart(o)
  PROVE  QueueInv'
<1>1. /\ UNCHANGED <<script, cancel, recs>> /\ pending' = pending /\ begun' = begun \union {o}
      /\ Kind(o) = "compute" /\ act' = Waits("sched", o, {})
  BY DEF ComputeStart, Next1
<1>2. /\ act'["main"] = act["main"] /\ act'["worker"] = act["worker"]
      /\ act'["sched"].ph = "poll" /\ act'["sched"].op = o /\ act'["sched"].rest = {}
  BY <1>1 DEF Waits, Turns, Threads, JudgeInv, JudgeTypes
<1>3. Ops' = Ops /\ \A q : Kind(q)' = Kind(q)
  BY <1>1 DEF Ops, Kind
<1>4. MainLast'
  BY <1>1, <1>2, <1>3 DEF QueueInv, MainLast
<1>5. RestAfter'
  BY <1>1, <1>2, <1>3 DEF QueueInv, RestAfter, Threads, SameUri, Kind
<1>6. /\ \A t \in {"main", "worker"}, q \in Ops : Holds(t, q)' <=> Holds(t, q)
      /\ \A q \in Ops : Kind(q) = "sub" => ~Holds("sched", q)'
  BY <1>1, <1>2 DEF Holds, Busy
<1>7. \A t \in Threads, q \in Ops : Kind(q) = "sub" /\ Holds(t, q)' =>
         Holds(t, q) /\ (act'[t].ph \notin {"taken", "spawned"} => act[t].ph \notin {"taken", "spawned"})
  BY <1>2, <1>6 DEF Threads
<1>. QED
  BY <1>1, <1>4, <1>5, <1>6, <1>7, QueueKept DEF Threads

\* A thread goes on with the operation in hand.
LEMMA QueueTurns ==
  ASSUME JudgeInv, QueueInv, NEW t \in Threads, NEW x \in {"check", "judge", "publish"},
         act[t].ph \in {"poll", "check", "judge"}, x = "publish" => t = "sched",
         act' = [act EXCEPT ![t].ph = x], UNCHANGED <<script, begun, pending, cancel, recs>>
  PROVE  QueueInv'
<1>1. /\ Ops' = Ops /\ act'[t].ph = x /\ act'[t].op = act[t].op /\ act'[t].rest = act[t].rest
      /\ \A u \in Threads \ {t} : act'[u] = act[u]
  BY PhaseTurns
<1>2. \A u \in Threads : /\ act'[u].op = act[u].op /\ act'[u].rest = act[u].rest
                         /\ Busy(u)' <=> Busy(u)
                         /\ act'[u].ph = "idle" <=> act[u].ph = "idle"
                         /\ act'[u].ph \in {"taken", "spawned"} <=> act[u].ph \in {"taken", "spawned"}
                         /\ act'[u].ph \in {"poll", "check", "judge"}
                               => act[u].ph \in {"poll", "check", "judge"}
  BY <1>1 DEF Busy
<1>3. \A q : Kind(q)' = Kind(q)
  BY DEF Kind
<1>4. MainLast'
  BY <1>1, <1>2, <1>3 DEF QueueInv, MainLast, Threads
<1>5. RestAfter'
  BY <1>1, <1>2, <1>3 DEF QueueInv, RestAfter, SameUri, Kind
<1>6. \A u \in Threads, q \in Ops : Holds(u, q)' <=> Holds(u, q)
  BY <1>2 DEF Holds
<1>. QED
  BY <1>2, <1>4, <1>5, <1>6, QueueKept DEF Threads

\* The operation in hand is recorded, after every earlier one of its name and URI.
LEMMA QueueRecords ==
  ASSUME JudgeInv, QueueInv, NEW t \in Threads, NEW v, act[t].ph \in {"judge", "publish"},
         Recorded(t, v), UNCHANGED <<script, begun, pending, cancel>>
  PROVE  QueueInv'
<1>1. PICK o : o = act[t].op
  OBVIOUS
<1>2. PICK r : r = [op |-> o, kind |-> Kind(o), v |-> v]
  OBVIOUS
<1>3. /\ act' = [act EXCEPT ![t].ph = "notify"] /\ recs' = Append(recs, r)
      /\ r.op = o /\ r.kind = Kind(o)
  BY <1>1, <1>2 DEF Recorded
<1>4. /\ act'[t].ph = "notify" /\ act'[t].op = o /\ act'[t].rest = act[t].rest
      /\ \A u \in Threads \ {t} : act'[u] = act[u]
  BY <1>1, <1>3 DEF JudgeInv, JudgeTypes
<1>5. PICK m : m = Len(recs) + 1
  OBVIOUS
<1>6. /\ DOMAIN recs = 1..(m - 1) /\ DOMAIN recs' = 1..m /\ m \in Nat \ {0}
      /\ \A i \in DOMAIN recs : recs'[i] = recs[i]
      /\ recs'[m] = r
  <2>1. recs \in Seq({recs[i] : i \in DOMAIN recs})
    BY DEF JudgeInv, RecInv
  <2>2. PICK z : z = recs'
    OBVIOUS
  <2>3. z = Append(recs, r)
    BY <1>3, <2>2
  <2>4. /\ Len(recs) \in Nat /\ DOMAIN recs = 1..Len(recs) /\ DOMAIN z = 1..(Len(recs) + 1)
        /\ \A i \in DOMAIN recs : z[i] = recs[i]
        /\ z[Len(recs) + 1] = r
    BY <2>1, <2>3, AppendFacts
  <2>. QED
    BY <1>5, <2>2, <2>4
<1>7. /\ Ops' = Ops /\ o \in Ops /\ o \in begun /\ Busy(t) /\ Holds(t, o) /\ Ops \subseteq Nat
      /\ \A i \in DOMAIN recs : /\ recs[i].op \in begun /\ recs[i].op \in Ops /\ recs[i].op # o
                               /\ recs[i].kind = Kind(recs[i].op)
  BY <1>1, OpFacts DEF Ops, JudgeInv, JudgeTypes, OwnInv, RecInv, Busy, Holds
<1>8. /\ \A p : Kind(p)' = Kind(p) /\ content_log_name(p)' = content_log_name(p)
      /\ \A p, q : SameUri(p, q)' = SameUri(p, q)
      /\ \A p, q : content_log_name(p) = content_log_name(q) => Kind(p) = Kind(q)
  BY DEF Kind, content_log_name, SameUri
<1>9. /\ \A u \in Threads, q \in Ops : Holds(u, q)' => Holds(u, q)
      /\ \A q \in Ops : Holds(t, q)' => q \in act[t].rest
  BY <1>1, <1>4, <1>7 DEF Holds, Busy
<1>10. MainLast'
  <2>1. \A u \in Threads : /\ act'[u].ph = "idle" <=> act[u].ph = "idle"
                           /\ act'[u].ph \in {"taken", "spawned"} <=> act[u].ph \in {"taken", "spawned"}
                           /\ act'[u].rest = act[u].rest
    BY <1>4
  <2>. QED
    BY <1>7, <1>8, <2>1 DEF QueueInv, MainLast, Threads
<1>11. ASSUME NEW i \in DOMAIN recs, content_log_name(recs[i].op) = content_log_name(o),
              SameUri(recs[i].op, o), recs[i].kind \in ContentKinds
       PROVE  recs[i].op < o
  <2>1. Kind(recs[i].op) = Kind(o) /\ recs[i].kind = Kind(o)
    BY <1>7, <1>8, <1>11
  <2>2. CASE Kind(o) = "sub"
    BY <1>7, <1>11, <2>1, <2>2 DEF QueueInv, RecsFirst
  <2>3. CASE Kind(o) # "sub"
    <3>1. t = "worker"
      BY <1>1, <1>7, <1>11, <2>1, <2>3 DEF JudgeInv, KindInv, Threads, ContentKinds
    <3>2. recs[i].op <= o
      BY <1>1, <1>7, <1>11, <2>1, <2>3, <3>1 DEF JudgeInv, OrderInv
    <3>3. recs[i].op \in Nat /\ o \in Nat /\ recs[i].op # o
      BY <1>7
    <3>. QED
      BY <3>2, <3>3
  <2>. QED
    BY <2>2, <2>3
<1>12. RecsAscend'
  <2>. SUFFICES ASSUME NEW i \in 1..m, NEW j \in 1..m, i < j, recs'[i].kind \in ContentKinds,
                       content_log_name(recs'[i].op) = content_log_name(recs'[j].op),
                       SameUri(recs'[i].op, recs'[j].op)
                PROVE  recs'[i].op < recs'[j].op
    BY <1>6, <1>8 DEF RecsAscend, content_log_name, SameUri
  <2>1. i \in DOMAIN recs /\ recs'[i] = recs[i]
    BY <1>6
  <2>2. CASE j = m
    BY <1>3, <1>6, <1>11, <2>1, <2>2
  <2>3. CASE j # m
    <3>1. j \in DOMAIN recs /\ recs'[j] = recs[j]
      BY <1>6, <2>3
    <3>. QED
      BY <2>1, <3>1 DEF QueueInv, RecsAscend
  <2>. QED
    BY <2>2, <2>3
<1>13. ASSUME Kind(o) = "sub", NEW p \in Ops, Kind(p) = "sub", SameUri(o, p),
              p \in pending \/ \E u \in Threads : Holds(u, p)'
       PROVE  o < p
  <2>1. t # "sched" /\ act[t].ph = "judge"
    BY <1>1, <1>7, <1>13 DEF JudgeInv, KindInv, Threads
  <2>2. CASE p \in pending
    BY <1>7, <1>13, <2>1, <2>2 DEF QueueInv, PendingAfter
  <2>3. CASE p \in act[t].rest
    BY <1>1, <1>13, <2>1, <2>3 DEF QueueInv, RestAfter
  <2>4. ASSUME NEW u \in Threads, Holds(u, p)', u # t PROVE o < p
    <3>1. Holds(u, p)
      BY <1>9, <2>4
    <3>2. u # "sched"
      BY <1>13, <3>1 DEF JudgeInv, KindInv, Holds
    <3>3. CASE t = "worker"
      <4>1. u = "main"
        BY <2>4, <3>2, <3>3 DEF Threads
      <4>2. SameUri(p, o)
        BY <1>13 DEF SameUri
      <4>. QED
        BY <1>7, <1>13, <2>1, <3>1, <3>3, <4>1, <4>2 DEF QueueInv, OneSettles
    <3>4. CASE t = "main"
      <4>1. u = "worker"
        BY <2>4, <3>2, <3>4 DEF Threads
      <4>2. act["worker"].ph \in {"taken", "spawned"}
        BY <1>7, <1>13, <3>1, <3>4, <4>1 DEF QueueInv, OneSettles
      <4>3. act["worker"].op = p /\ Busy("worker")
        BY <3>1, <4>1, <4>2 DEF QueueInv, MainLast, Holds, Busy
      <4>4. o <= p
        BY <1>7, <1>13, <4>2, <4>3 DEF JudgeInv, OrderInv, ContentKinds
      <4>5. o # p
        BY <1>7, <2>4, <3>1 DEF JudgeInv, OwnInv
      <4>. QED
        BY <1>7, <4>4, <4>5
    <3>. QED
      BY <2>1, <3>3, <3>4 DEF Threads
  <2>. QED
    BY <1>9, <1>13, <2>2, <2>3, <2>4
<1>14. RecsFirst'
  <2>. SUFFICES ASSUME NEW i \in 1..m, NEW p \in Ops, recs'[i].kind = "sub", Kind(p) = "sub",
                       SameUri(recs'[i].op, p), p \in pending \/ \E u \in Threads : Holds(u, p)'
                PROVE  recs'[i].op < p
    BY <1>6, <1>7, <1>8 DEF RecsFirst, SameUri, Kind
  <2>1. CASE i = m
    BY <1>3, <1>6, <1>13, <2>1
  <2>2. CASE i # m
    <3>1. i \in DOMAIN recs /\ recs'[i] = recs[i]
      BY <1>6, <2>2
    <3>2. p \in pending \/ \E u \in Threads : Holds(u, p)
      BY <1>9
    <3>. QED
      BY <3>1, <3>2 DEF QueueInv, RecsFirst
  <2>. QED
    BY <2>1, <2>2
<1>15. RestAfter'
  <2>. SUFFICES ASSUME NEW u \in Threads, act'[u].ph \in {"poll", "check", "judge"},
                       Kind(act'[u].op) = "sub", NEW p \in act'[u].rest, SameUri(act'[u].op, p)
                PROVE  act'[u].op < p
    BY <1>8 DEF RestAfter, SameUri, Kind
  <2>1. act'[u] = act[u]
    BY <1>4
  <2>. QED
    BY <2>1 DEF QueueInv, RestAfter
<1>16. PendingAfter'
  <2>. SUFFICES ASSUME NEW u \in Threads, NEW q \in Ops, NEW p \in pending, Holds(u, q)',
                       act'[u].ph \notin {"taken", "spawned"}, Kind(q) = "sub", SameUri(q, p)
                PROVE  u = "main" /\ q < p
    BY <1>7, <1>8 DEF PendingAfter
  <2>1. Holds(u, q) /\ act[u].ph \notin {"taken", "spawned"}
    BY <1>4, <1>9
  <2>. QED
    BY <2>1 DEF QueueInv, PendingAfter
<1>17. OneSettles'
  <2>. SUFFICES ASSUME NEW q \in Ops, NEW p \in Ops, Holds("main", q)', Holds("worker", p)',
                       Kind(p) = "sub", SameUri(q, p), act'["worker"].ph \notin {"taken", "spawned"}
                PROVE  FALSE
    BY <1>7, <1>8 DEF OneSettles
  <2>1. Holds("main", q) /\ Holds("worker", p) /\ act["worker"].ph \notin {"taken", "spawned"}
    BY <1>4, <1>9 DEF Threads
  <2>. QED
    BY <2>1 DEF QueueInv, OneSettles
<1>. QED
  BY <1>10, <1>12, <1>14, <1>15, <1>16, <1>17 DEF QueueInv

\* After a record comes the next subscription in order.
LEMMA QueueNotifies ==
  ASSUME JudgeInv, QueueInv, NEW t \in Threads, Notify(t)
  PROVE  QueueInv'
<1>1. act[t].ph = "notify" /\ UNCHANGED <<script, begun, pending, cancel, recs>>
  BY DEF Notify
<1>2. Ops' = Ops /\ \A q : Kind(q)' = Kind(q)
  BY <1>1 DEF Ops, Kind
<1>3. PICK H, x : H = act[t].rest /\ x = Following(act[t].op, H)
  OBVIOUS
<1>4. H # {} => x \in H /\ \A p \in H : SameUri(x, p) => x <= p
  <2>1. H \subseteq Nat
    BY <1>3, OpFacts DEF JudgeInv, JudgeTypes
  <2>. QED
    BY <1>3, <2>1, FollowingFacts
<1>5. \/ H = {} /\ act' = [act EXCEPT ![t] = Idle]
      \/ H # {} /\ act' = Waits(t, x, H \ {x})
  BY <1>3 DEF Notify
<1>6. /\ \A u \in Threads \ {t} : act'[u] = act[u]
      /\ \/ H = {} /\ act'[t].ph = "idle" /\ act'[t].rest = {}
         \/ H # {} /\ act'[t].ph = "poll" /\ act'[t].op = x /\ act'[t].rest = H \ {x}
  BY <1>5 DEF Waits, Turns, Idle, JudgeInv, JudgeTypes
<1>7. \A u \in Threads, q \in Ops : Holds(u, q)' <=> Holds(u, q)
  BY <1>1, <1>3, <1>4, <1>6 DEF Holds, Busy
<1>8. \A u \in Threads : /\ act'[u].ph # "idle" => act[u].ph # "idle"
                         /\ act'[u].ph \in {"taken", "spawned"} => act'[u] = act[u]
                         /\ act[u].ph \in {"taken", "spawned"} => act'[u] = act[u]
  BY <1>1, <1>6
<1>9. MainLast'
  BY <1>1, <1>2, <1>8 DEF QueueInv, MainLast, Threads
<1>10. RestAfter'
  <2>. SUFFICES ASSUME NEW u \in Threads, act'[u].ph \in {"poll", "check", "judge"},
                       Kind(act'[u].op) = "sub", NEW p \in act'[u].rest, SameUri(act'[u].op, p)
                PROVE  act'[u].op < p
    BY <1>1, <1>2 DEF RestAfter, SameUri, Kind
  <2>1. CASE u = t
    <3>1. x \in H /\ p \in H /\ x # p /\ act'[u].op = x /\ x <= p
      BY <1>4, <1>6, <2>1
    <3>2. x \in Nat /\ p \in Nat
      BY <1>3, <3>1, OpFacts DEF JudgeInv, JudgeTypes
    <3>. QED
      BY <3>1, <3>2
  <2>2. CASE u # t
    <3>1. act'[u] = act[u]
      BY <1>6, <2>2
    <3>. QED
      BY <3>1 DEF QueueInv, RestAfter
  <2>. QED
    BY <2>1, <2>2
<1>. QED
  BY <1>1, <1>7, <1>8, <1>9, <1>10, QueueKept DEF Threads

\* The main thread takes over all pending subscriptions, the first one first.
LEMMA QueueSettles ==
  ASSUME JudgeInv, QueueInv, MainSettles
  PROVE  QueueInv'
<1>1. /\ act["main"].ph = "idle" /\ pending # {} /\ pending' = {}
      /\ cancel \/ (act["worker"].ph = "idle" /\ Next1(ContentKinds) = {})
      /\ UNCHANGED <<script, begun, cancel, recs>>
  BY DEF MainSettles
<1>2. PICK x, H : H = pending /\ x = Min(H)
  OBVIOUS
<1>3. H \subseteq Nat /\ H # {} /\ H \subseteq Ops /\ Ops \subseteq Nat
  BY <1>1, <1>2, OpFacts DEF JudgeInv, JudgeTypes
<1>4. x \in H /\ \A y \in H : x <= y
  BY <1>2, <1>3, MinFacts
<1>5. act' = Waits("main", x, H \ {x})
  BY <1>2 DEF MainSettles
<1>6. /\ act'["main"].ph = "poll" /\ act'["main"].op = x /\ act'["main"].rest = H \ {x}
      /\ act'["worker"] = act["worker"] /\ act'["sched"] = act["sched"]
  BY <1>5 DEF Waits, Turns, Threads, JudgeInv, JudgeTypes
<1>7. /\ Ops' = Ops
      /\ \A p : Kind(p)' = Kind(p) /\ content_log_name(p)' = content_log_name(p)
      /\ \A p, q : SameUri(p, q)' = SameUri(p, q)
  BY <1>1 DEF Ops, Kind, content_log_name, SameUri
<1>8. /\ \A q \in Ops : Holds("main", q)' <=> q \in H
      /\ \A t \in {"worker", "sched"}, q \in Ops : Holds(t, q)' <=> Holds(t, q)
  BY <1>4, <1>6 DEF Holds, Busy
<1>9. MainLast'
  <2>1. ASSUME Next1(ContentKinds) = {}, NEW q \in Ops \ begun, Kind(q) \in ContentKinds PROVE FALSE
    <3>1. PICK T : T = {p \in Ops \ begun : Kind(p) \in ContentKinds}
      OBVIOUS
    <3>2. T \subseteq Nat /\ T # {}
      BY <1>3, <2>1, <3>1
    <3>3. Min(T) \in T /\ \A y \in T : Min(T) <= y
      BY <3>2, MinFacts
    <3>4. Min(T) \in Next1(ContentKinds)
      BY <3>1, <3>3 DEF Next1
    <3>. QED
      BY <2>1, <3>4
  <2>2. cancel \/ \A q \in Ops \ begun : Kind(q) \notin ContentKinds
    BY <1>1, <2>1
  <2>. QED
    BY <1>1, <1>6, <1>7, <2>2 DEF QueueInv, MainLast
<1>10. RecsAscend'
  BY <1>1, <1>7 DEF QueueInv, RecsAscend, content_log_name, SameUri
<1>11. RecsFirst'
  <2>. SUFFICES ASSUME NEW i \in DOMAIN recs, NEW q \in Ops, recs[i].kind = "sub", Kind(q) = "sub",
                       SameUri(recs[i].op, q), \E t \in Threads : Holds(t, q)'
                PROVE  recs[i].op < q
    BY <1>1, <1>7 DEF RecsFirst, SameUri, Kind
  <2>1. q \in pending \/ \E t \in Threads : Holds(t, q)
    BY <1>2, <1>8 DEF Threads
  <2>. QED
    BY <2>1 DEF QueueInv, RecsFirst
<1>12. RestAfter'
  <2>. SUFFICES ASSUME NEW u \in Threads, act'[u].ph \in {"poll", "check", "judge"},
                       Kind(act'[u].op) = "sub", NEW p \in act'[u].rest, SameUri(act'[u].op, p)
                PROVE  act'[u].op < p
    BY <1>1, <1>7 DEF RestAfter, SameUri, Kind
  <2>1. CASE u = "main"
    <3>1. x \in Nat /\ p \in Nat /\ p # x /\ x <= p /\ act'[u].op = x
      BY <1>3, <1>4, <1>6, <2>1
    <3>. QED
      BY <3>1
  <2>2. CASE u # "main"
    <3>1. act'[u] = act[u]
      BY <1>6, <2>2 DEF Threads
    <3>. QED
      BY <3>1 DEF QueueInv, RestAfter
  <2>. QED
    BY <2>1, <2>2
<1>13. PendingAfter'
  BY <1>1 DEF PendingAfter
<1>14. OneSettles'
  <2>. SUFFICES ASSUME NEW q \in Ops, NEW p \in Ops, Holds("main", q)', Holds("worker", p)',
                       Kind(p) = "sub", SameUri(q, p), act'["worker"].ph \notin {"taken", "spawned"}
                PROVE  FALSE
    BY <1>7 DEF OneSettles
  <2>1. q \in pending /\ Holds("worker", p) /\ act["worker"].ph \notin {"taken", "spawned"} /\ SameUri(p, q)
    BY <1>2, <1>6, <1>8 DEF SameUri
  <2>. QED
    BY <2>1 DEF QueueInv, PendingAfter, Threads
<1>. QED
  BY <1>9, <1>10, <1>11, <1>12, <1>13, <1>14 DEF QueueInv

\* Every step keeps the order.
LEMMA QueueSteps ==
  ASSUME JudgeInv, QueueInv, [JudgeNext]_judgeVars
  PROVE  QueueInv'
<1>1. CASE Processes
  <2>1. UNCHANGED <<script, begun, pending, act, recs, cancel>>
    BY <1>1
       DEF Processes, GetReceives, GetCompletes, SubCreates, SubWrites, Exits, CurlExits
  <2>. QED
    BY <2>1, QueueProcesses
<1>2. CASE Dispatch
  BY <1>2, QueueTakes, QueueRuns, QueueSpawns, QueueSubscribes, QueueComputes, QueuePublishes,
     QueuePubCancelled DEF Dispatch
<1>3. ASSUME NEW t \in Threads, WaitEnds(t) \/ SeesRunning(t) \/ Interrupts(t)
      PROVE  QueueInv'
  <2>1. PICK x \in {"check", "judge"} : act' = [act EXCEPT ![t].ph = x]
    BY <1>3 DEF WaitEnds, SeesRunning, Interrupts
  <2>2. act[t].ph \in {"poll", "check"} /\ UNCHANGED <<script, begun, pending, cancel, recs>>
    BY <1>3 DEF WaitEnds, SeesRunning, Interrupts
  <2>. QED
    BY <2>1, <2>2, QueueTurns
<1>4. ASSUME NEW t \in Threads, Judge(t) PROVE QueueInv'
  <2>1. PICK v : Recorded(t, v)
    BY <1>4 DEF Judge
  <2>2. act[t].ph = "judge" /\ UNCHANGED <<script, begun, pending, cancel>>
    BY <1>4 DEF Judge
  <2>. QED
    BY <2>1, <2>2, QueueRecords
<1>5. CASE CaptureTimesOut \/ ComputeJudge \/ ComputePublish
  <2>1. PICK t : t = "sched"
    OBVIOUS
  <2>2. t \in Threads /\ act[t].ph \in {"check", "judge", "publish"}
        /\ UNCHANGED <<script, begun, pending, cancel>>
    BY <1>5, <2>1 DEF CaptureTimesOut, ComputeJudge, ComputePublish, Threads
  <2>3. \/ /\ act[t].ph \in {"check", "judge"} /\ recs' = recs
           /\ \E x \in {"judge", "publish"} : act' = [act EXCEPT ![t].ph = x]
        \/ act[t].ph \in {"judge", "publish"} /\ \E v : Recorded(t, v)
    BY <1>5, <2>1 DEF CaptureTimesOut, ComputeJudge, ComputePublish
  <2>4. CASE act[t].ph \in {"judge", "publish"} /\ \E v : Recorded(t, v)
    BY <2>2, <2>4, QueueRecords
  <2>5. CASE /\ act[t].ph \in {"check", "judge"} /\ recs' = recs
             /\ \E x \in {"judge", "publish"} : act' = [act EXCEPT ![t].ph = x]
    BY <2>1, <2>2, <2>5, QueueTurns
  <2>. QED
    BY <2>3, <2>4, <2>5
<1>6. CASE Settle
  BY <1>3, <1>4, <1>5, <1>6, QueueNotifies DEF Settle
<1>7. CASE Cancel \/ UNCHANGED judgeVars
  BY <1>7, QueueProcesses DEF Cancel, judgeVars
<1>. QED
  BY <1>1, <1>2, <1>6, <1>7, QueueSettles DEF JudgeNext

\* At the start there is nothing to order.
LEMMA QueueInitially ==
  ASSUME JudgeInit
  PROVE  QueueInv
<1>1. /\ \A t \in Threads : act[t].ph = "idle" /\ act[t].rest = {}
      /\ pending = {} /\ DOMAIN recs = {}
  BY DEF JudgeInit, Idle
<1>2. MainLast /\ RestAfter
  BY <1>1 DEF MainLast, RestAfter, Threads
<1>3. RecsAscend /\ RecsFirst /\ PendingAfter
  BY <1>1 DEF RecsAscend, RecsFirst, PendingAfter
<1>4. OneSettles
  BY <1>1 DEF OneSettles, Holds, Busy, Threads
<1>. QED
  BY <1>2, <1>3, <1>4 DEF QueueInv

\* The records of one log file and one URI are in the order in which content_ops.py
\* dispatched the operations, although two threads settle subscriptions.
THEOREM JudgeOrder == JudgeSpec => []QueueInv
BY JudgeInvariant, QueueInitially, QueueSteps, PTL DEF JudgeSpec

\* A set of positions that is not empty has a last one.
LEMMA LastPosition ==
  ASSUME NEW k \in Nat, NEW T, T \subseteq 1..k, T # {}
  PROVE  \E x \in T : \A y \in T : x >= y
<1>1. PICK U : U = {k - y : y \in T}
  OBVIOUS
<1>2. U \subseteq Nat /\ U # {}
  <2>1. \A y \in T : y \in 1..k
    OBVIOUS
  <2>2. \A y \in 1..k : k - y \in Nat
    OBVIOUS
  <2>3. \A y \in T : k - y \in U
    BY <1>1
  <2>4. \A z \in U : \E y \in T : z = k - y
    BY <1>1
  <2>. QED
    BY <2>1, <2>2, <2>3, <2>4
<1>3. Min(U) \in U /\ \A z \in U : Min(U) <= z
  BY <1>2, MinFacts
<1>4. PICK x \in T : Min(U) = k - x
  BY <1>1, <1>3
<1>5. ASSUME NEW y \in T PROVE x >= y
  <2>1. x \in 1..k /\ y \in 1..k
    OBVIOUS
  <2>2. k - y \in U
    BY <1>1
  <2>3. k - x <= k - y
    BY <1>3, <1>4, <2>2
  <2>. QED
    BY <2>1, <2>3
<1>. QED
  BY <1>5

\* What the summary reads from the text of a log.
LEMMA ParsedFacts ==
  /\ \A lines : ParsedSuccess("get", lines) \in {"yes", "no"}
  /\ \A lines : ParsedSuccess("get", lines) = "yes" => COMPLETED_MARKER \in lines
  /\ \A lines : ParsedSuccess("sub", lines) \in {"no", "none"}
BY DEF ParsedSuccess, from_log, Tri

\* The summary joins a log with the record of the operation that opened it last, and its
\* success column never invents a delivery, for all scripts.
THEOREM JudgeSummary == JudgeSpec => []CsvFollows
<1>1. JudgeInv /\ QueueInv => CsvFollows
  <2>. SUFFICES ASSUME JudgeInv, QueueInv, NEW f \in Names
                PROVE  /\ OneUri(f) /\ log[f].by \in {recs[i].op : i \in RecordsOf(f)}
                            => results_by_log_name(f).op = log[f].by
                       /\ Settled(f) /\ RowSuccess(f) = "yes"
                            => /\ f[1] = "get" => proc[log[f].by].done
                               /\ f[1] = "sub" => \E o \in begun : content_log_name(o) = f /\ seen[o] # {}
    BY DEF CsvFollows
  <2>1. ASSUME RecordsOf(f) # {}
        PROVE  \E m \in RecordsOf(f) : /\ results_by_log_name(f) = recs[m]
                                       /\ \A j \in RecordsOf(f) : m >= j
    <3>1. Len(recs) \in Nat /\ DOMAIN recs = 1..Len(recs)
      BY DEF JudgeInv, RecInv
    <3>2. \E x \in RecordsOf(f) : \A y \in RecordsOf(f) : x >= y
      <4>1. PICK T, k : T = RecordsOf(f) /\ k = Len(recs)
        OBVIOUS
      <4>2. T \subseteq 1..k /\ k \in Nat /\ T # {}
        BY <2>1, <3>1, <4>1 DEF RecordsOf
      <4>3. \E x \in T : \A y \in T : x >= y
        BY <4>2, LastPosition
      <4>. QED
        BY <4>1, <4>3
    <3>3. PICK m : m = CHOOSE i \in RecordsOf(f) : \A j \in RecordsOf(f) : i >= j
      OBVIOUS
    <3>4. m \in RecordsOf(f) /\ \A j \in RecordsOf(f) : m >= j
      BY <3>2, <3>3
    <3>. QED
      BY <3>3, <3>4 DEF results_by_log_name
  <2>2. ASSUME OneUri(f), log[f].by \in {recs[i].op : i \in RecordsOf(f)}
        PROVE  results_by_log_name(f).op = log[f].by
    <3>1. PICK j \in RecordsOf(f) : recs[j].op = log[f].by
      BY <2>2
    <3>2. PICK m \in RecordsOf(f) : results_by_log_name(f) = recs[m] /\ m >= j
      BY <2>1, <3>1
    <3>3. /\ recs[m].op \in Ops /\ recs[j].op \in Ops /\ recs[j].kind = Kind(recs[j].op)
          /\ j \in DOMAIN recs /\ m \in DOMAIN recs
          /\ content_log_name(recs[j].op) = f /\ content_log_name(recs[m].op) = f
      BY DEF RecordsOf, JudgeInv, JudgeTypes, OwnInv, RecInv
    <3>4. recs[j].op \in Nat \ {0} /\ recs[m].op \in Nat
      BY <3>3, OpFacts DEF JudgeInv, JudgeTypes
    <3>5. Kind(recs[j].op) \in ContentKinds /\ Kind(recs[m].op) = Kind(recs[j].op)
      <4>1. Kind(recs[j].op) \in ContentKinds
        BY <3>1, <3>4 DEF JudgeInv, LogInv
      <4>. QED
        BY <3>3, <4>1 DEF content_log_name
    <3>6. recs[m].op <= recs[j].op
      BY <3>1, <3>3, <3>5 DEF JudgeInv, LogInv, LogOpen
    <3>7. CASE m = j
      BY <3>1, <3>2, <3>7
    <3>8. CASE m # j
      <4>1. j < m
        <5>1. j \in Nat /\ m \in Nat
          BY <3>3 DEF JudgeInv, RecInv
        <5>. QED
          BY <3>2, <3>8, <5>1
      <4>2. SameUri(recs[j].op, recs[m].op)
        BY <2>2, <3>3 DEF OneUri, SameUri
      <4>3. recs[j].op < recs[m].op
        BY <3>3, <3>5, <4>1, <4>2 DEF QueueInv, RecsAscend
      <4>. QED
        BY <3>4, <3>6, <4>3
    <3>. QED
      BY <3>7, <3>8
  <2>3. ASSUME RowSuccess(f) = "yes", f[1] = "get"
        PROVE  proc[log[f].by].done
    <3>1. ParsedSuccess("get", log[f].lines) = "yes"
      BY <2>3, ParsedFacts DEF RowSuccess
    <3>2. COMPLETED_MARKER \in log[f].lines
      BY <3>1, ParsedFacts
    <3>. QED
      BY <2>3, <3>2 DEF JudgeInv, LogInv
  <2>4. ASSUME RowSuccess(f) = "yes", f[1] = "sub"
        PROVE  \E o \in begun : content_log_name(o) = f /\ seen[o] # {}
    <3>1. RecordsOf(f) # {} /\ results_by_log_name(f).v.success = "yes"
      <4>1. ParsedSuccess("sub", log[f].lines) \in {"no", "none"}
        BY ParsedFacts
      <4>. QED
        BY <2>4, <4>1 DEF RowSuccess
    <3>2. PICK m \in RecordsOf(f) : results_by_log_name(f) = recs[m]
      BY <2>1, <3>1
    <3>3. m \in DOMAIN recs /\ content_log_name(recs[m].op) = f /\ recs[m].op \in begun
      BY DEF RecordsOf, JudgeInv, OwnInv
    <3>4. recs[m].kind = "sub"
      BY <2>4, <3>3, OpFacts DEF JudgeInv, JudgeTypes, RecInv
    <3>5. recs[m].v.artifact \in seen[recs[m].op]
      BY <3>1, <3>2, <3>3, <3>4 DEF JudgeInv, RecInv, Earned
    <3>. QED
      BY <3>3, <3>5
  <2>. QED
    BY <2>2, <2>3, <2>4
<1>. QED
  BY <1>1, JudgeInvariant, JudgeOrder, PTL

-----------------------------------------------------------------------------
(* Judgment: sums over URIs and over reasons. *)

\* The entry of a set that a fold takes first.
FirstOf(s) == CHOOSE x \in s : TRUE

\* A fold that adds up the sizes of disjoint sets, one for each entry of U.
AddsUp(it, U, E) ==
  it = [s \in SUBSET U |->
          IF s = {} THEN 0 ELSE it[s \ {FirstOf(s)}] + Cardinality(E[FirstOf(s)])]

\* All that the sets of s hold.
Gathered(E, s) == UNION {E[u] : u \in s}

\* A set more, which is disjoint from the others.
LEMMA AllUnfolds ==
  ASSUME NEW U, NEW X, IsFiniteSet(X), NEW E \in [U -> SUBSET X],
         \A u, w \in U : u # w => E[u] \cap E[w] = {},
         NEW s, s \subseteq U, s # {}, NEW x, x = FirstOf(s)
  PROVE  /\ x \in s
         /\ Cardinality(Gathered(E, s)) = Cardinality(Gathered(E, s \ {x})) + Cardinality(E[x])
<1>0. FirstOf(s) \in s
  BY DEF FirstOf
<1>1. PICK A, B : A = Gathered(E, s \ {x}) /\ B = E[x]
  OBVIOUS
<1>2. x \in s /\ x \in U
  BY <1>0, <1>1
<1>3. B \subseteq X
  BY <1>1, <1>2
<1>4. \A u \in U : E[u] \subseteq X
  OBVIOUS
<1>5. A \subseteq X
  BY <1>1, <1>4 DEF Gathered
<1>6. IsFiniteSet(A) /\ IsFiniteSet(B)
  BY <1>3, <1>5, FS_Subset
<1>7. A \cap B = {}
  <2>. SUFFICES ASSUME NEW y \in A, y \in B PROVE FALSE
    OBVIOUS
  <2>1. PICK u \in s \ {x} : y \in E[u]
    BY <1>1 DEF Gathered
  <2>2. u \in U /\ u # x /\ y \in E[x]
    BY <1>1, <2>1
  <2>. QED
    BY <1>2, <2>1, <2>2
<1>8. Gathered(E, s) = A \cup B
  <2>1. ASSUME NEW y \in Gathered(E, s) PROVE y \in A \cup B
    <3>1. PICK u \in s : y \in E[u]
      BY DEF Gathered
    <3>. QED
      BY <1>1, <3>1 DEF Gathered
  <2>2. A \subseteq Gathered(E, s)
    BY <1>1 DEF Gathered
  <2>3. B \subseteq Gathered(E, s)
    BY <1>1, <1>2 DEF Gathered
  <2>. QED
    BY <2>1, <2>2, <2>3
<1>9. /\ IsFiniteSet(A \cup B)
      /\ Cardinality(A \cup B) = Cardinality(A) + Cardinality(B) - Cardinality(A \cap B)
  BY <1>6, FS_Union
<1>10. Cardinality(A) \in Nat /\ Cardinality(B) \in Nat /\ Cardinality(A \cup B) \in Nat
  BY <1>6, <1>9, FS_CardinalityType
<1>11. Cardinality(A \cap B) = 0
  BY <1>7, FS_EmptySet
<1>12. Cardinality(A \cup B) = Cardinality(A) + Cardinality(B)
  BY <1>9, <1>10, <1>11
<1>. QED
  BY <1>0, <1>1, <1>8, <1>10, <1>12

\* The fold exists, and it is the size of the union.
LEMMA FoldExists ==
  ASSUME NEW U, NEW X, IsFiniteSet(X), NEW E \in [U -> SUBSET X],
         \A u, w \in U : u # w => E[u] \cap E[w] = {}
  PROVE  \E it : AddsUp(it, U, E)
<1>1. PICK it : it = [s \in SUBSET U |-> Cardinality(Gathered(E, s))]
  OBVIOUS
<1>2. ASSUME NEW s \in SUBSET U
      PROVE  it[s] = IF s = {} THEN 0 ELSE it[s \ {FirstOf(s)}] + Cardinality(E[FirstOf(s)])
  <2>1. CASE s = {}
    <3>1. Gathered(E, s) = {}
      BY <2>1 DEF Gathered
    <3>2. it[s] = Cardinality({})
      BY <1>1, <3>1
    <3>. QED
      BY <2>1, <3>2, FS_EmptySet
  <2>2. CASE s # {}
    <3>1. PICK x : x = FirstOf(s)
      OBVIOUS
    <3>2. Cardinality(Gathered(E, s)) = Cardinality(Gathered(E, s \ {x})) + Cardinality(E[x])
      <4>1. s \subseteq U
        OBVIOUS
      <4>. QED
        BY <2>2, <3>1, <4>1, AllUnfolds
    <3>3. /\ it[s] = Cardinality(Gathered(E, s))
          /\ it[s \ {x}] = Cardinality(Gathered(E, s \ {x}))
      BY <1>1, <3>1
    <3>. QED
      BY <2>2, <3>1, <3>2, <3>3
  <2>. QED
    BY <2>1, <2>2
<1>3. it = [s \in SUBSET U |->
              IF s = {} THEN 0 ELSE it[s \ {FirstOf(s)}] + Cardinality(E[FirstOf(s)])]
  BY <1>1, <1>2
<1>. QED
  BY <1>3 DEF AddsUp

LEMMA FoldIsCount ==
  ASSUME NEW U, IsFiniteSet(U), NEW X, IsFiniteSet(X), NEW E \in [U -> SUBSET X],
         \A u, w \in U : u # w => E[u] \cap E[w] = {},
         NEW it, AddsUp(it, U, E)
  PROVE  it[U] = Cardinality(Gathered(E, U))
<1>. DEFINE Bad == {s \in SUBSET U : it[s] # Cardinality(Gathered(E, s))}
            T == {Cardinality(s) : s \in Bad}
<1>1. \A s \in SUBSET U : IsFiniteSet(s) /\ Cardinality(s) \in Nat
  BY FS_Subset, FS_CardinalityType
<1>2. ASSUME Bad # {} PROVE FALSE
  <2>1. T \subseteq Nat /\ T # {}
    BY <1>1, <1>2
  <2>2. Min(T) \in T /\ \A y \in T : Min(T) <= y
    <3>. HIDE DEF T
    <3>. QED
      BY <2>1, MinFacts
  <2>3. PICK s \in Bad : Min(T) = Cardinality(s)
    BY <2>2
  <2>4. \A r \in Bad : Cardinality(s) <= Cardinality(r)
    BY <2>2, <2>3
  <2>5. s # {}
    <3>1. it[{}] = 0
      BY DEF AddsUp
    <3>2. Gathered(E, {}) = {}
      BY DEF Gathered
    <3>3. Cardinality(Gathered(E, {})) = 0
      BY <3>2, FS_EmptySet
    <3>. QED
      BY <3>1, <3>3
  <2>6. PICK x, r : x = FirstOf(s) /\ r = s \ {x}
    OBVIOUS
  <2>7. /\ x \in s
        /\ Cardinality(Gathered(E, s)) = Cardinality(Gathered(E, r)) + Cardinality(E[x])
    BY <2>5, <2>6, AllUnfolds
  <2>8. it[s] = it[r] + Cardinality(E[x])
    BY <2>5, <2>6 DEF AddsUp
  <2>9. r \in SUBSET U /\ Cardinality(r) = Cardinality(s) - 1
    BY <1>1, <2>6, <2>7, FS_RemoveElement
  <2>10. r \notin Bad
    BY <1>1, <2>4, <2>9
  <2>11. it[r] = Cardinality(Gathered(E, r))
    BY <2>9, <2>10
  <2>. QED
    BY <2>3, <2>7, <2>8, <2>11
<1>. QED
  BY <1>2

\* The totals of the analysis are the numbers of records that count.
LEMMA TotalIsCount ==
  ASSUME NEW X, IsFiniteSet(X), IsFiniteSet(Uris), DOMAIN recs = X
  PROVE  FoldSet(LAMBDA u, m : m + summarize(u).total, 0, Uris) =
            Cardinality(UNION {Evaluated(u) : u \in Uris})
<1>1. PICK E : E = [u \in Uris |-> Evaluated(u)]
  OBVIOUS
<1>2. E \in [Uris -> SUBSET X] /\ \A u \in Uris : E[u] = Evaluated(u)
  BY <1>1 DEF Evaluated, Consumed
<1>3. \A u, w \in Uris : u # w => E[u] \cap E[w] = {}
  BY <1>2 DEF Evaluated
<1>4. \A u \in Uris : summarize(u).total = Cardinality(E[u])
  BY <1>2 DEF summarize
<1>5. PICK U : U = Uris
  OBVIOUS
<1>. DEFINE F(it) == it = [s \in SUBSET Uris |->
                IF s = {} THEN 0
                ELSE it[s \ {CHOOSE x \in s : TRUE}] + summarize(CHOOSE x \in s : TRUE).total]
<1>6. \A it : F(it) <=> AddsUp(it, U, E)
  <2>1. ASSUME NEW it, NEW s \in SUBSET Uris
        PROVE  (IF s = {} THEN 0
                ELSE it[s \ {CHOOSE x \in s : TRUE}] + summarize(CHOOSE x \in s : TRUE).total)
               = (IF s = {} THEN 0 ELSE it[s \ {FirstOf(s)}] + Cardinality(E[FirstOf(s)]))
    BY <1>4 DEF FirstOf
  <2>. QED
    BY ZenonT(40), <1>5, <2>1 DEF AddsUp
<1>7. \E it : F(it)
  <2>1. E \in [U -> SUBSET X] /\ \A u, w \in U : u # w => E[u] \cap E[w] = {}
    BY <1>2, <1>3, <1>5
  <2>2. \E it : AddsUp(it, U, E)
    BY <2>1, FoldExists
  <2>. HIDE DEF F
  <2>. QED
    BY <1>6, <2>2
<1>8. \E it : F(it) /\ FoldSet(LAMBDA u, m : m + summarize(u).total, 0, Uris) = it[Uris]
  BY <1>7 DEF FoldSet, MapThenFoldSet
<1>9. PICK it : F(it) /\ FoldSet(LAMBDA u, m : m + summarize(u).total, 0, Uris) = it[Uris]
  BY <1>8
<1>10. AddsUp(it, U, E)
  BY <1>6, <1>9
<1>11. it[U] = Cardinality(Gathered(E, U))
  BY <1>2, <1>3, <1>5, <1>10, FoldIsCount
<1>12. Gathered(E, U) = UNION {Evaluated(u) : u \in Uris}
  BY <1>2, <1>5 DEF Gathered
<1>. QED
  BY <1>5, <1>9, <1>11, <1>12

\* The records of a URI that succeeded.
Succeeded(u) == {i \in Evaluated(u) : Classified(i).ok}

LEMMA SuccessIsCount ==
  ASSUME NEW X, IsFiniteSet(X), IsFiniteSet(Uris), DOMAIN recs = X
  PROVE  FoldSet(LAMBDA u, m : m + summarize(u).success, 0, Uris) =
            Cardinality(UNION {Succeeded(u) : u \in Uris})
<1>1. PICK E : E = [u \in Uris |-> Succeeded(u)]
  OBVIOUS
<1>2. E \in [Uris -> SUBSET X] /\ \A u \in Uris : E[u] = Succeeded(u)
  BY <1>1 DEF Succeeded, Evaluated, Consumed
<1>3. \A u, w \in Uris : u # w => E[u] \cap E[w] = {}
  BY <1>2 DEF Succeeded, Evaluated
<1>4. \A u \in Uris : summarize(u).success = Cardinality(E[u])
  BY <1>2 DEF summarize, Succeeded
<1>5. PICK U : U = Uris
  OBVIOUS
<1>. DEFINE F(it) == it = [s \in SUBSET Uris |->
                IF s = {} THEN 0
                ELSE it[s \ {CHOOSE x \in s : TRUE}] + summarize(CHOOSE x \in s : TRUE).success]
<1>6. \A it : F(it) <=> AddsUp(it, U, E)
  <2>1. ASSUME NEW it, NEW s \in SUBSET Uris
        PROVE  (IF s = {} THEN 0
                ELSE it[s \ {CHOOSE x \in s : TRUE}] + summarize(CHOOSE x \in s : TRUE).success)
               = (IF s = {} THEN 0 ELSE it[s \ {FirstOf(s)}] + Cardinality(E[FirstOf(s)]))
    BY <1>4 DEF FirstOf
  <2>. QED
    BY ZenonT(40), <1>5, <2>1 DEF AddsUp
<1>7. \E it : F(it)
  <2>1. E \in [U -> SUBSET X] /\ \A u, w \in U : u # w => E[u] \cap E[w] = {}
    BY <1>2, <1>3, <1>5
  <2>2. \E it : AddsUp(it, U, E)
    BY <2>1, FoldExists
  <2>. HIDE DEF F
  <2>. QED
    BY <1>6, <2>2
<1>8. \E it : F(it) /\ FoldSet(LAMBDA u, m : m + summarize(u).success, 0, Uris) = it[Uris]
  BY <1>7 DEF FoldSet, MapThenFoldSet
<1>9. PICK it : F(it) /\ FoldSet(LAMBDA u, m : m + summarize(u).success, 0, Uris) = it[Uris]
  BY <1>8
<1>10. AddsUp(it, U, E)
  BY <1>6, <1>9
<1>11. it[U] = Cardinality(Gathered(E, U))
  BY <1>2, <1>3, <1>5, <1>10, FoldIsCount
<1>12. Gathered(E, U) = UNION {Succeeded(u) : u \in Uris}
  BY <1>2, <1>5 DEF Gathered
<1>. QED
  BY <1>5, <1>9, <1>11, <1>12

\* A fold that adds up the values of a function.
AddsValues(it, f) ==
  it = [s \in SUBSET DOMAIN f |->
          IF s = {} THEN 0 ELSE f[FirstOf(s)] + it[s \ {FirstOf(s)}]]

\* The sum of a function of three arguments.
LEMMA SumOfThree ==
  ASSUME NEW a, NEW b, NEW c, a # b, a # c, b # c, NEW f \in [{a, b, c} -> Nat]
  PROVE  /\ \E it : AddsValues(it, f)
         /\ \A it : AddsValues(it, f) => it[DOMAIN f] = f[a] + f[b] + f[c]
<1>. DEFINE D == {a, b, c}
            G(it) == it = [s \in SUBSET D |->
                IF s = {} THEN 0 ELSE f[FirstOf(s)] + it[s \ {FirstOf(s)}]]
            v(s, x) == IF x \in s THEN f[x] ELSE 0
<1>0. \A s : s # {} => FirstOf(s) \in s
  BY DEF FirstOf
<1>4. DOMAIN f = D
  OBVIOUS
<1>1. \A it : AddsValues(it, f) <=> G(it)
  BY <1>4 DEF AddsValues
<1>2. f[a] \in Nat /\ f[b] \in Nat /\ f[c] \in Nat
  OBVIOUS
<1>3. \E it : G(it)
  <2>1. PICK it : it = [s \in SUBSET D |-> v(s, a) + v(s, b) + v(s, c)]
    OBVIOUS
  <2>2. ASSUME NEW s \in SUBSET D
        PROVE  it[s] = IF s = {} THEN 0 ELSE f[FirstOf(s)] + it[s \ {FirstOf(s)}]
    <3>1. CASE s = {}
      BY <2>1, <3>1
    <3>2. CASE s # {}
      <4>1. PICK x, r : x = FirstOf(s) /\ r = s \ {x}
        OBVIOUS
      <4>2. x \in s /\ x \in D /\ r \in SUBSET D /\ \A y : y \in r <=> y \in s /\ y # x
        BY <1>0, <3>2, <4>1
      <4>3. /\ it[s] = v(s, a) + v(s, b) + v(s, c)
            /\ it[r] = v(r, a) + v(r, b) + v(r, c)
        BY <2>1, <4>2
      <4>4. it[s] = f[x] + it[r]
        BY <1>2, <4>2, <4>3
      <4>. QED
        BY <3>2, <4>1, <4>4
    <3>. QED
      BY <3>1, <3>2
  <2>3. G(it)
    <3>1. it = [s \in SUBSET D |-> it[s]]
      BY <2>1
    <3>. HIDE DEF D, v
    <3>. QED
      BY <2>2, <3>1
  <2>. QED
    BY <2>3
<1>5. \E it : AddsValues(it, f)
  <2>. HIDE DEF G
  <2>. QED
    BY <1>1, <1>3
<1>6. SUFFICES ASSUME NEW it, G(it) PROVE it[D] = f[a] + f[b] + f[c]
  <2>. HIDE DEF G, D
  <2>. QED
    BY <1>1, <1>4, <1>5
<1>7. /\ it[{}] = 0
      /\ \A s \in SUBSET D : s # {} => it[s] = f[FirstOf(s)] + it[s \ {FirstOf(s)}]
  BY <1>6
<1>8. ASSUME NEW x \in D PROVE it[{x}] = f[x]
  <2>1. FirstOf({x}) = x /\ {x} \ {x} = {}
    BY <1>0
  <2>2. it[{x}] = f[x] + it[{}]
    BY <1>7, <2>1
  <2>. QED
    BY <1>2, <1>7, <2>2
<1>9. ASSUME NEW x \in D, NEW y \in D, x # y PROVE it[{x, y}] = f[x] + f[y]
  <2>1. FirstOf({x, y}) \in {x, y} /\ {x, y} \ {x} = {y} /\ {x, y} \ {y} = {x}
    BY <1>0, <1>9
  <2>2. it[{x, y}] = f[x] + it[{y}] \/ it[{x, y}] = f[y] + it[{x}]
    BY <1>7, <2>1
  <2>3. f[x] \in Nat /\ f[y] \in Nat
    BY <1>2
  <2>4. it[{x}] = f[x] /\ it[{y}] = f[y]
    BY <1>8
  <2>. QED
    BY <2>2, <2>3, <2>4
<1>10. /\ D \ {a} = {b, c} /\ D \ {b} = {a, c} /\ D \ {c} = {a, b}
       /\ FirstOf(D) \in D /\ D # {} /\ D \in SUBSET D
  BY <1>0
<1>11. \/ it[D] = f[a] + it[{b, c}] \/ it[D] = f[b] + it[{a, c}] \/ it[D] = f[c] + it[{a, b}]
  <2>1. it[D] = f[FirstOf(D)] + it[D \ {FirstOf(D)}]
    BY <1>7, <1>10
  <2>2. FirstOf(D) = a \/ FirstOf(D) = b \/ FirstOf(D) = c
    BY <1>10
  <2>. QED
    BY <1>10, <2>1, <2>2
<1>12. it[{b, c}] = f[b] + f[c] /\ it[{a, c}] = f[a] + f[c] /\ it[{a, b}] = f[a] + f[b]
  BY <1>9
<1>. HIDE DEF D, G
<1>. QED
  BY <1>2, <1>11, <1>12

-----------------------------------------------------------------------------
(* Judgment: the dashboard. *)

\* The thread calls the subscribers; and how many records they were called with.
Calling(t) == act[t].ph = "notify"
InCall(t) == IF Calling(t) THEN 1 ELSE 0
Called == Len(recs) - (InCall("worker") + InCall("main") + InCall("sched"))

Points == [total : Nat, success : Nat]
RecSet == {recs[i] : i \in DOMAIN recs}

\* A get that is judged had a process.
GetsRan ==
    act["worker"].ph \in {"poll", "check", "judge"} /\ Kind(act["worker"].op) = "get" =>
       proc[act["worker"].op].st # "none"

\* An operation has one record, and one that failed says why.
RecsOnce == \A i, j \in DOMAIN recs : recs[i].op = recs[j].op => i = j
RecsExplain ==
    \A i \in DOMAIN recs : recs[i].kind \in {"get", "sub"} =>
       recs[i].v.success = "yes" \/ failure_reasons(recs[i].v) # {}

\* The subscribers are called with a record, by one thread.
CallsInv ==
    /\ \A t \in Threads : Calling(t) => \E i \in DOMAIN recs : recs[i].op = act[t].op
    /\ \A t, u \in Threads : Calling(t) /\ Calling(u) /\ act[t].op = act[u].op => t = u

\* The dashboard holds records it was called with, each once, as many as fit, and
\* all of them as long as they fit.
DashHolds ==
    /\ Called \in Nat
    /\ dash.ops \in Seq(RecSet)
    /\ \A k \in DOMAIN dash.ops, t \in Threads : Calling(t) => dash.ops[k].op # act[t].op
    /\ \A k, l \in DOMAIN dash.ops : dash.ops[k].op = dash.ops[l].op => k = l
    /\ Len(dash.ops) = IF Called < MAX_OPERATIONS THEN Called ELSE MAX_OPERATIONS
    /\ Called <= MAX_OPERATIONS => \A i \in DOMAIN recs :
          \/ \E t \in Threads : Calling(t) /\ act[t].op = recs[i].op
          \/ \E k \in DOMAIN dash.ops : dash.ops[k] = recs[i]

\* Its last point counts what it holds.
DashCounts ==
    /\ dash.hist \in Seq(Points)
    /\ Len(dash.ops) # 0 => Len(dash.hist) # 0 /\ dash.hist[Len(dash.hist)] = Point(dash.ops)

DashInv == GetsRan /\ RecsOnce /\ RecsExplain /\ CallsInv /\ DashHolds /\ DashCounts

\* A bounded sequence and one more entry.
LEMMA BoundedFacts ==
  ASSUME NEW S, NEW s \in Seq(S), NEW x \in S, NEW max \in Nat \ {0}, NEW z, z = Bounded(s, x, max)
  PROVE  /\ z \in Seq(S) /\ Len(z) \in Nat \ {0} /\ z[Len(z)] = x
         /\ Len(s) < max => /\ Len(z) = Len(s) + 1
                            /\ \A k \in 1..Len(s) : z[k] = s[k]
         /\ Len(s) >= max => /\ Len(z) = Len(s)
                             /\ \A k \in 1..(Len(s) - 1) : z[k] = s[k + 1]
<1>1. CASE Len(s) < max
  <2>1. z = Append(s, x)
    BY <1>1 DEF Bounded
  <2>. QED
    BY <1>1, <2>1
<1>2. CASE Len(s) >= max
  <2>1. z = Append(Tail(s), x) /\ s # <<>> /\ Len(s) \in Nat \ {0}
    BY <1>2 DEF Bounded
  <2>2. PICK w : w = Tail(s)
    OBVIOUS
  <2>3. w \in Seq(S) /\ Len(w) = Len(s) - 1 /\ \A k \in 1..(Len(s) - 1) : w[k] = s[k + 1]
    BY <2>1, <2>2
  <2>4. z = Append(w, x)
    BY <2>1, <2>2
  <2>. QED
    BY <1>2, <2>1, <2>3, <2>4
<1>. QED
  BY <1>1, <1>2

\* Counts of a sequence are naturals.
LEMMA PointType ==
  ASSUME NEW S, NEW s \in Seq(S)
  PROVE  Point(s) \in Points /\ IsFiniteSet(DOMAIN s) /\ IsFiniteSet(Counted(s))
<1>1. IsFiniteSet(DOMAIN s)
  BY FS_Interval
<1>2. PICK A, B : A = Counted(s) /\ B = {i \in Counted(s) : s[i].v.success = "yes"}
  OBVIOUS
<1>3. A \subseteq DOMAIN s /\ B \subseteq DOMAIN s
  BY <1>2 DEF Counted
<1>4. IsFiniteSet(A) /\ Cardinality(A) \in Nat /\ Cardinality(B) \in Nat
  BY <1>1, <1>3, FS_Subset, FS_CardinalityType
<1>. QED
  BY <1>1, <1>2, <1>4 DEF Point, Points

\* Nothing happens to the dashboard while no call of the subscribers begins or ends.
LEMMA DashKept ==
  ASSUME JudgeInv, DashInv, UNCHANGED <<script, recs, dash>>, GetsRan',
         \A t \in Threads : /\ Calling(t)' <=> Calling(t)
                            /\ Calling(t) => act'[t].op = act[t].op
  PROVE  DashInv'
<1>1. RecsOnce' /\ RecsExplain' /\ DashCounts'
  BY DEF DashInv, RecsOnce, RecsExplain, DashCounts, Point, Counted
<1>2. CallsInv'
  BY DEF DashInv, CallsInv
<1>3. Called' = Called /\ RecSet' = RecSet
  BY DEF Called, InCall, RecSet, Threads
<1>4. DashHolds'
  BY <1>3 DEF DashInv, DashHolds
<1>. QED
  BY <1>1, <1>2, <1>4 DEF DashInv

\* A new record: the subscribers are about to be called with it.
LEMMA DashRecords ==
  ASSUME JudgeInv, DashInv, NEW t \in Threads, NEW v, act[t].ph \in {"judge", "publish"},
         Recorded(t, v), UNCHANGED <<script, proc, dash>>,
         Kind(act[t].op) \in {"get", "sub"} => v.success = "yes" \/ failure_reasons(v) # {}
  PROVE  DashInv'
<1>1. PICK o, r : o = act[t].op /\ r = [op |-> o, kind |-> Kind(o), v |-> v]
  OBVIOUS
<1>2. /\ act' = [act EXCEPT ![t].ph = "notify"] /\ recs' = Append(recs, r)
      /\ r.op = o /\ r.kind = Kind(o) /\ r.v = v
  BY <1>1 DEF Recorded
<1>3. /\ act'[t].ph = "notify" /\ act'[t].op = o /\ ~Calling(t)
      /\ \A u \in Threads \ {t} : act'[u] = act[u]
  BY <1>1, <1>2 DEF JudgeInv, JudgeTypes, Calling
<1>4. PICK m : m = Len(recs) + 1
  OBVIOUS
<1>5. /\ DOMAIN recs = 1..(m - 1) /\ DOMAIN recs' = 1..m /\ m \in Nat \ {0} /\ Len(recs') = m
      /\ \A i \in DOMAIN recs : recs'[i] = recs[i]
      /\ recs'[m] = r
  <2>1. recs \in Seq({recs[i] : i \in DOMAIN recs})
    BY DEF JudgeInv, RecInv
  <2>2. PICK z : z = recs'
    OBVIOUS
  <2>3. z = Append(recs, r)
    BY <1>2, <2>2
  <2>4. /\ Len(recs) \in Nat /\ DOMAIN recs = 1..Len(recs) /\ DOMAIN z = 1..(Len(recs) + 1)
        /\ \A i \in DOMAIN recs : z[i] = recs[i]
        /\ z[Len(recs) + 1] = r
    BY <2>1, <2>3, AppendFacts
  <2>5. Len(z) = Len(recs) + 1
    BY <2>1, <2>3, <2>4
  <2>. QED
    BY <1>4, <2>2, <2>4, <2>5
<1>6. \A i \in DOMAIN recs' : i \in DOMAIN recs \/ i = m
  BY <1>5
<1>7. DOMAIN recs \subseteq DOMAIN recs' /\ m \in DOMAIN recs' /\ m \notin DOMAIN recs
  BY <1>5
<1>8. o \in Ops /\ Holds(t, o) /\ \A i \in DOMAIN recs : recs[i].op # o
  <2>1. Holds(t, o)
    BY <1>1 DEF Holds, Busy
  <2>2. o \in Ops
    BY <1>1 DEF JudgeInv, OwnInv, JudgeTypes
  <2>. QED
    BY <2>1, <2>2 DEF JudgeInv, OwnInv
<1>9. GetsRan'
  BY <1>3, <1>2 DEF DashInv, GetsRan, Kind, Threads
<1>10. RecsOnce'
  BY <1>2, <1>5, <1>6, <1>8 DEF DashInv, RecsOnce
<1>11. RecsExplain'
  BY <1>1, <1>2, <1>5, <1>6 DEF DashInv, RecsExplain
<1>12. \A u \in Threads : Calling(u)' <=> Calling(u) \/ u = t
  BY <1>3 DEF Calling
<1>13. \A u \in Threads : Calling(u) => act'[u].op = act[u].op /\ u # t
  BY <1>3
<1>14. \A u \in Threads : Calling(u) => \E i \in DOMAIN recs : recs[i].op = act[u].op
  BY DEF DashInv, CallsInv
<1>15. \A u \in Threads : Calling(u) => act[u].op # o
  BY <1>8, <1>14
<1>16. CallsInv'
  <2>1. ASSUME NEW u \in Threads, Calling(u)'
        PROVE  \E i \in DOMAIN recs' : recs'[i].op = act'[u].op
    <3>1. CASE u = t
      BY <1>2, <1>3, <1>5, <1>7, <3>1
    <3>2. CASE u # t
      BY <1>5, <1>7, <1>12, <1>13, <1>14, <2>1, <3>2
    <3>. QED
      BY <3>1, <3>2
  <2>2. ASSUME NEW u \in Threads, NEW w \in Threads, Calling(u)', Calling(w)',
               act'[u].op = act'[w].op
        PROVE  u = w
    <3>1. CASE Calling(u) /\ Calling(w)
      BY <1>13, <2>2, <3>1 DEF DashInv, CallsInv
    <3>2. CASE ~Calling(u) \/ ~Calling(w)
      BY <1>3, <1>12, <1>13, <1>15, <2>2, <3>2
    <3>. QED
      BY <3>1, <3>2
  <2>. QED
    BY <2>1, <2>2 DEF CallsInv
<1>17. Called' = Called
  <2>1. \A u \in Threads : InCall(u)' = IF u = t THEN 1 ELSE InCall(u)
    BY <1>12 DEF InCall
  <2>2. \A u \in Threads : InCall(u) \in {0, 1}
    BY DEF InCall
  <2>3. InCall(t) = 0
    BY <1>3 DEF InCall
  <2>4. Len(recs) \in Nat /\ Len(recs') = Len(recs) + 1
    BY <1>4, <1>5 DEF JudgeInv, RecInv
  <2>. QED
    BY <2>1, <2>2, <2>3, <2>4 DEF Called, Threads
<1>18. DashHolds'
  <2>1. RecSet \subseteq RecSet'
    BY <1>5, <1>7 DEF RecSet
  <2>2. dash.ops \in Seq(RecSet')
    <3>1. PICK S, T, s : S = RecSet /\ T = RecSet' /\ s = dash.ops
      OBVIOUS
    <3>2. S \subseteq T /\ s \in Seq(S)
      BY <2>1, <3>1 DEF DashInv, DashHolds
    <3>3. s \in Seq(T)
      BY <3>2
    <3>. QED
      BY <3>1, <3>3
  <2>3. \A k \in DOMAIN dash.ops : dash.ops[k].op # o
    <3>1. PICK S, s : S = RecSet /\ s = dash.ops
      OBVIOUS
    <3>2. s \in Seq(S)
      BY <3>1 DEF DashInv, DashHolds
    <3>3. \A k \in DOMAIN s : s[k] \in S
      BY <3>2
    <3>4. \A x \in S : x.op # o
      BY <1>8, <3>1 DEF RecSet
    <3>. QED
      BY <3>1, <3>3, <3>4
  <2>4. ASSUME NEW k \in DOMAIN dash.ops, NEW u \in Threads, Calling(u)'
        PROVE  dash.ops[k].op # act'[u].op
    BY <1>3, <1>12, <1>13, <2>3, <2>4 DEF DashInv, DashHolds
  <2>5. ASSUME Called <= MAX_OPERATIONS, NEW i \in DOMAIN recs'
        PROVE  \/ \E u \in Threads : Calling(u)' /\ act'[u].op = recs'[i].op
               \/ \E k \in DOMAIN dash.ops : dash.ops[k] = recs'[i]
    <3>1. CASE i = m
      BY <1>2, <1>3, <1>5, <1>12, <3>1
    <3>2. CASE i \in DOMAIN recs
      <4>1. \/ \E u \in Threads : Calling(u) /\ act[u].op = recs[i].op
            \/ \E k \in DOMAIN dash.ops : dash.ops[k] = recs[i]
        BY <2>5, <3>2 DEF DashInv, DashHolds
      <4>. QED
        BY <1>5, <1>12, <1>13, <3>2, <4>1
    <3>. QED
      BY <1>6, <3>1, <3>2
  <2>. QED
    BY <1>17, <2>2, <2>4, <2>5 DEF DashInv, DashHolds
<1>19. DashCounts'
  BY DEF DashInv, DashCounts, Point, Counted
<1>. QED
  BY <1>9, <1>10, <1>11, <1>16, <1>18, <1>19 DEF DashInv

\* The subscribers were called with a record: the dashboard takes it in.
LEMMA DashNotifies ==
  ASSUME JudgeInv, DashInv, NEW t \in Threads, Notify(t)
  PROVE  DashInv'
<1>1. /\ act[t].ph = "notify" /\ UNCHANGED <<script, proc, recs>>
      /\ dash' = record_operation(RecordOf(act[t].op))
  BY DEF Notify
<1>2. PICK H, x, o : H = act[t].rest /\ x = Following(act[t].op, H) /\ o = act[t].op
  OBVIOUS
<1>3. H # {} => x \in H
  <2>1. H \subseteq Nat
    BY <1>2, OpFacts DEF JudgeInv, JudgeTypes
  <2>. QED
    BY <1>2, <2>1, FollowingFacts
<1>4. \/ H = {} /\ act' = [act EXCEPT ![t] = Idle]
      \/ H # {} /\ act' = Waits(t, x, H \ {x})
  BY <1>2 DEF Notify
<1>5. /\ \A u \in Threads \ {t} : act'[u] = act[u]
      /\ \/ H = {} /\ act'[t].ph = "idle"
         \/ H # {} /\ act'[t].ph = "poll" /\ act'[t].op = x
  BY <1>4 DEF Waits, Turns, Idle, JudgeInv, JudgeTypes
<1>6. H # {} => Kind(x) = "sub"
  BY <1>2, <1>3 DEF JudgeInv, KindInv
<1>7. GetsRan'
  BY <1>1, <1>5, <1>6 DEF DashInv, GetsRan, Kind, Threads
<1>8. \A u \in Threads : /\ Calling(u)' <=> Calling(u) /\ u # t
                         /\ u # t => act'[u] = act[u]
  BY <1>1, <1>5 DEF Calling
<1>9. Calling(t)
  BY <1>1 DEF Calling
<1>10. PICK i0 \in DOMAIN recs : recs[i0].op = o /\ RecordOf(o) = recs[i0]
  <2>1. \E i \in DOMAIN recs : recs[i].op = o
    BY <1>2, <1>9 DEF DashInv, CallsInv
  <2>. QED
    BY <2>1 DEF RecordOf
<1>11. PICK r, s, S, z, h, g : /\ r = recs[i0] /\ s = dash.ops /\ S = RecSet
                               /\ z = Bounded(s, r, MAX_OPERATIONS)
                               /\ h = dash.hist /\ g = Bounded(h, Point(z), MAX_HISTORY)
  OBVIOUS
<1>12. dash'.ops = z /\ dash'.hist = g
  BY <1>1, <1>2, <1>10, <1>11 DEF record_operation
<1>13. s \in Seq(S) /\ r \in S /\ h \in Seq(Points) /\ r.op = o
  BY <1>10, <1>11 DEF DashInv, DashHolds, DashCounts, RecSet
<1>14. MAX_OPERATIONS \in Nat \ {0} /\ MAX_HISTORY \in Nat \ {0}
  BY BoundsAssumption
<1>15. /\ z \in Seq(S) /\ Len(z) \in Nat \ {0} /\ z[Len(z)] = r
       /\ Len(s) < MAX_OPERATIONS => /\ Len(z) = Len(s) + 1
                                     /\ \A k \in 1..Len(s) : z[k] = s[k]
       /\ Len(s) >= MAX_OPERATIONS => /\ Len(z) = Len(s)
                                      /\ \A k \in 1..(Len(s) - 1) : z[k] = s[k + 1]
  BY <1>11, <1>13, <1>14, BoundedFacts
<1>16. Point(z) \in Points
  BY <1>15, PointType
<1>17. g \in Seq(Points) /\ Len(g) \in Nat \ {0} /\ g[Len(g)] = Point(z)
  BY <1>11, <1>13, <1>14, <1>16, BoundedFacts
<1>18. DashCounts'
  <2>1. Point(z)' = Point(dash'.ops)
    BY <1>12 DEF Point, Counted
  <2>. QED
    BY <1>12, <1>17 DEF DashCounts, Point, Counted
<1>19. RecsOnce' /\ RecsExplain'
  BY <1>1 DEF DashInv, RecsOnce, RecsExplain
<1>20. CallsInv'
  BY <1>1, <1>8 DEF DashInv, CallsInv
<1>21. Called' = Called + 1 /\ Called \in Nat /\ RecSet' = RecSet
  <2>1. \A u \in Threads : InCall(u)' = IF u = t THEN 0 ELSE InCall(u)
    BY <1>8 DEF InCall
  <2>2. \A u \in Threads : InCall(u) \in {0, 1}
    BY DEF InCall
  <2>3. InCall(t) = 1
    BY <1>9 DEF InCall
  <2>4. Len(recs) \in Nat /\ Len(recs') = Len(recs)
    BY <1>1 DEF JudgeInv, RecInv
  <2>5. Called \in Nat /\ RecSet' = RecSet
    BY <1>1 DEF DashInv, DashHolds, RecSet
  <2>. QED
    BY <2>1, <2>2, <2>3, <2>4, <2>5 DEF Called, Threads
<1>22. /\ Len(s) \in Nat /\ DOMAIN s = 1..Len(s) /\ DOMAIN z = 1..Len(z)
  BY <1>13, <1>15
<1>23. Len(s) = IF Called < MAX_OPERATIONS THEN Called ELSE MAX_OPERATIONS
  BY <1>11 DEF DashInv, DashHolds
<1>24. \A k \in DOMAIN z : \/ k = Len(z)
                           \/ \E l \in DOMAIN s : z[k] = s[l] /\ l = IF Len(s) < MAX_OPERATIONS THEN k ELSE k + 1
  <2>. SUFFICES ASSUME NEW k \in DOMAIN z, k # Len(z)
                PROVE  \E l \in DOMAIN s :
                          z[k] = s[l] /\ l = IF Len(s) < MAX_OPERATIONS THEN k ELSE k + 1
    OBVIOUS
  <2>1. CASE Len(s) < MAX_OPERATIONS
    <3>1. k \in 1..Len(s) /\ z[k] = s[k]
      <4>1. Len(z) = Len(s) + 1 /\ \A j \in 1..Len(s) : z[j] = s[j]
        BY <1>15, <2>1
      <4>2. k \in 1..Len(s)
        BY <1>22, <4>1
      <4>. QED
        BY <4>1, <4>2
    <3>. QED
      BY <1>22, <2>1, <3>1
  <2>2. CASE Len(s) >= MAX_OPERATIONS
    <3>1. k \in 1..(Len(s) - 1) /\ z[k] = s[k + 1]
      <4>1. Len(z) = Len(s) /\ \A j \in 1..(Len(s) - 1) : z[j] = s[j + 1]
        BY <1>15, <2>2
      <4>2. k \in 1..(Len(s) - 1)
        BY <1>22, <4>1
      <4>. QED
        BY <4>1, <4>2
    <3>2. k + 1 \in DOMAIN s /\ ~(Len(s) < MAX_OPERATIONS)
      BY <1>14, <1>22, <2>2, <3>1
    <3>. QED
      BY <3>1, <3>2
  <2>. QED
    BY <1>14, <1>22, <2>1, <2>2
<1>25. \A l \in DOMAIN s : s[l].op # o
  BY <1>2, <1>9, <1>11 DEF DashInv, DashHolds
<1>26. \A k, l \in DOMAIN s : s[k].op = s[l].op => k = l
  BY <1>11 DEF DashInv, DashHolds
<1>27. DashHolds'
  <2>1. ASSUME NEW k \in DOMAIN z, NEW u \in Threads, Calling(u)'
        PROVE  z[k].op # act'[u].op
    <3>1. Calling(u) /\ u # t /\ act'[u].op = act[u].op
      BY <1>8, <2>1
    <3>2. act[u].op # o
      BY <1>2, <1>9, <3>1 DEF DashInv, CallsInv
    <3>3. \A l \in DOMAIN s : s[l].op # act[u].op
      BY <1>11, <3>1 DEF DashInv, DashHolds
    <3>. QED
      BY <1>13, <1>15, <1>24, <3>1, <3>2, <3>3
  <2>2. ASSUME NEW k \in DOMAIN z, NEW l \in DOMAIN z, z[k].op = z[l].op PROVE k = l
    <3>1. CASE k = Len(z) \/ l = Len(z)
      BY <1>13, <1>15, <1>24, <1>25, <2>2, <3>1
    <3>2. CASE k # Len(z) /\ l # Len(z)
      <4>1. PICK a \in DOMAIN s : z[k] = s[a] /\ a = IF Len(s) < MAX_OPERATIONS THEN k ELSE k + 1
        BY <1>24, <3>2
      <4>2. PICK b \in DOMAIN s : z[l] = s[b] /\ b = IF Len(s) < MAX_OPERATIONS THEN l ELSE l + 1
        BY <1>24, <3>2
      <4>3. a = b
        BY <1>26, <2>2, <4>1, <4>2
      <4>. QED
        BY <1>22, <4>1, <4>2, <4>3
    <3>. QED
      BY <3>1, <3>2
  <2>3. Len(z) = IF Called + 1 < MAX_OPERATIONS THEN Called + 1 ELSE MAX_OPERATIONS
    <3>1. /\ Len(s) < MAX_OPERATIONS => Len(z) = Len(s) + 1
          /\ Len(s) >= MAX_OPERATIONS => Len(z) = Len(s)
      BY <1>15
    <3>2. PICK c, l, y : c = Called /\ l = Len(s) /\ y = Len(z)
      OBVIOUS
    <3>3. c \in Nat /\ l \in Nat
      BY <1>21, <1>22, <3>2
    <3>. QED
      BY <1>14, <1>23, <3>1, <3>2, <3>3
  <2>4. ASSUME Called + 1 <= MAX_OPERATIONS, NEW i \in DOMAIN recs
        PROVE  \/ \E u \in Threads : Calling(u)' /\ act'[u].op = recs[i].op
               \/ \E k \in DOMAIN z : z[k] = recs[i]
    <3>1. Len(s) < MAX_OPERATIONS /\ Called <= MAX_OPERATIONS
      BY <1>14, <1>21, <1>23, <2>4
    <3>2. \/ \E u \in Threads : Calling(u) /\ act[u].op = recs[i].op
          \/ \E k \in DOMAIN s : s[k] = recs[i]
      BY <1>11, <3>1 DEF DashInv, DashHolds
    <3>3. CASE \E k \in DOMAIN s : s[k] = recs[i]
      <4>1. PICK k \in DOMAIN s : s[k] = recs[i]
        BY <3>3
      <4>2. z[k] = s[k] /\ k \in DOMAIN z
        <5>1. Len(z) = Len(s) + 1 /\ \A j \in 1..Len(s) : z[j] = s[j]
          BY <1>15, <3>1
        <5>2. k \in 1..Len(s) /\ k \in 1..Len(z)
          BY <1>22, <5>1
        <5>. QED
          BY <1>22, <5>1, <5>2
      <4>. QED
        BY <4>1, <4>2
    <3>4. CASE \E u \in Threads \ {t} : Calling(u) /\ act[u].op = recs[i].op
      BY <1>8, <3>4
    <3>5. CASE act[t].op = recs[i].op
      <4>1. i = i0
        BY <1>2, <1>10, <3>5 DEF DashInv, RecsOnce
      <4>. QED
        BY <1>11, <1>15, <1>22, <4>1
    <3>. QED
      BY <3>2, <3>3, <3>4, <3>5
  <2>. QED
    BY <1>1, <1>11, <1>12, <1>15, <1>21, <2>1, <2>2, <2>3, <2>4 DEF DashHolds
<1>. QED
  BY <1>7, <1>18, <1>19, <1>20, <1>27 DEF DashInv

\* A process that was started stays so.
LEMMA StartedStays ==
  ASSUME JudgeInv, JudgeNext
  PROVE  \A o \in Ops : proc[o].st # "none" => proc'[o].st # "none"
<1>0. proc \in [Ops -> ProcState]
  BY DEF JudgeInv, JudgeTypes
<1>1. CASE Processes
  <2>1. PICK p \in Ops : \/ GetReceives(p) \/ GetCompletes(p) \/ SubCreates(p) \/ SubWrites(p)
                         \/ Exits(p) \/ CurlExits(p)
    BY <1>1 DEF Processes
  <2>2. CASE GetReceives(p) \/ SubCreates(p)
    <3>1. proc' = [proc EXCEPT ![p].got = TRUE]
      BY <2>2 DEF GetReceives, SubCreates
    <3>. QED
      BY <1>0, <3>1 DEF ProcState
  <2>3. CASE GetCompletes(p) \/ SubWrites(p)
    <3>1. proc' = [proc EXCEPT ![p].done = TRUE]
      BY <2>3 DEF GetCompletes, SubWrites
    <3>. QED
      BY <1>0, <3>1 DEF ProcState
  <2>4. CASE Exits(p)
    <3>1. PICK rc : proc' = [proc EXCEPT ![p].st = "exited", ![p].rc = rc]
      BY <2>4 DEF Exits
    <3>. QED
      BY <1>0, <3>1 DEF ProcState
  <2>5. CASE CurlExits(p)
    <3>1. PICK rc, st : proc' = [proc EXCEPT ![p].st = "exited", ![p].status = st, ![p].rc = rc]
      BY <2>5 DEF CurlExits
    <3>. QED
      BY <1>0, <3>1 DEF ProcState
  <2>. QED
    BY <2>1, <2>2, <2>3, <2>4, <2>5
<1>2. CASE Dispatch
  BY <1>0, <1>2
     DEF Dispatch, Take, RunStart, RunRaises, SubClears, SubSpawns, SubPends, ComputeStart, PubStart,
         PubCancelled, run_cefputfile, run_cefgetfile, run_ccninfo, start_cefsubfile, run_cefpubfile, Running,
         ProcState
<1>3. CASE Settle
  <2>1. proc' = proc \/ \E o : Terminated(o)
    BY <1>3
       DEF Settle, WaitEnds, SeesRunning, Interrupts, Judge, Notify, CaptureTimesOut, ComputeJudge,
           ComputePublish
  <2>2. ASSUME NEW o, Terminated(o)
        PROVE  proc' = proc \/ \E rc : proc' = [proc EXCEPT ![o].st = "killed", ![o].rc = rc]
    BY <2>2 DEF Terminated
  <2>3. ASSUME NEW o, NEW rc, proc' = [proc EXCEPT ![o].st = "killed", ![o].rc = rc]
        PROVE  \A p \in Ops : proc[p].st # "none" => proc'[p].st # "none"
    BY <1>0, <2>3 DEF ProcState
  <2>. QED
    BY <2>1, <2>2, <2>3
<1>4. CASE Cancel \/ MainSettles
  BY <1>4 DEF Cancel, MainSettles
<1>. QED
  BY <1>1, <1>2, <1>3, <1>4 DEF JudgeNext

\* A verdict of a get or a subscription that is not a success has a reason.
LEMMA VerdictExplained ==
  ASSUME JudgeInv, DashInv, NEW t \in Threads, Judge(t), NEW v \in VerdictsOf(act[t].op),
         Kind(act[t].op) \in {"get", "sub"}
  PROVE  v.success = "yes" \/ failure_reasons(v) # {}
<1>1. PICK o : o = act[t].op
  OBVIOUS
<1>2. /\ act[t].ph = "judge" /\ o \in Ops /\ proc[o] \in ProcState
      /\ result[o].timed \in BOOLEAN /\ result[o].cancelled \in BOOLEAN
  BY <1>1 DEF Judge, JudgeInv, JudgeTypes, OwnInv
<1>3. proc[o].st # "run"
  BY <1>1, <1>2 DEF JudgeInv, ProcInv
<1>4. Kind(o) = "get" => t = "worker"
  BY <1>1, <1>2 DEF JudgeInv, KindInv, Busy, Threads
<1>5. proc[o].st # "none"
  <2>1. CASE Kind(o) = "get"
    BY <1>1, <1>2, <1>4, <2>1 DEF DashInv, GetsRan
  <2>2. CASE Kind(o) = "sub"
    BY <1>1, <1>2, <2>2 DEF JudgeInv, ProcInv
  <2>. QED
    BY <1>1, <2>1, <2>2
<1>6. proc[o].st \in {"exited", "killed"}
  BY <1>2, <1>3, <1>5 DEF ProcState
<1>7. proc[o].rc \in {"zero", "nonzero"}
  BY <1>2, <1>6 DEF JudgeInv, ProcInv
<1>8. \/ v.exit_code = "nonzero" \/ v.has_completed_log = "no" \/ v.has_output_file = "no"
      => failure_reasons(v) # {}
  BY DEF failure_reasons
<1>9. CASE Kind(o) = "get"
  <2>1. PICK c, d : c = (COMPLETED_MARKER \in log[content_log_name(o)].lines) /\ d = (OutputOf(o) \in outs)
    OBVIOUS
  <2>2. v = from_runtime_get(proc[o].rc, log[content_log_name(o)].lines, OutputOf(o) \in outs)
    BY <1>1, <1>9 DEF VerdictsOf, detect_get_success
  <2>3. v = Judged(Tri(proc[o].rc = "zero" /\ c /\ d), Tri(c), Tri(d), proc[o].rc, 0)
    BY <2>1, <2>2 DEF from_runtime_get
  <2>4. /\ v.exit_code = proc[o].rc /\ v.has_completed_log = Tri(c) /\ v.has_output_file = Tri(d)
        /\ v.success = Tri(proc[o].rc = "zero" /\ c /\ d)
    BY <2>3 DEF Judged
  <2>. QED
    BY <1>7, <1>8, <2>4 DEF Tri
<1>10. CASE Kind(o) = "sub"
  <2>1. PICK a : v = from_runtime_sub(proc[o].rc, result[o].timed, result[o].cancelled, a)
    BY <1>1, <1>10 DEF VerdictsOf, detect_sub_success
  <2>2. /\ v.exit_code = proc[o].rc /\ v.has_output_file = Tri(a # 0)
        /\ v.success =
             Tri(a # 0 /\ (proc[o].rc = "zero" \/ result[o].timed \/ result[o].cancelled))
    BY <2>1 DEF from_runtime_sub, Judged
  <2>. QED
    BY <1>7, <1>8, <2>2 DEF Tri
<1>. QED
  BY <1>1, <1>9, <1>10

\* Every step keeps the dashboard in step with the records.
LEMMA DashSteps ==
  ASSUME JudgeInv, DashInv, [JudgeNext]_judgeVars
  PROVE  DashInv'
<1>0. /\ act \in [Threads -> [ph : JudgePhases, op : Nat, rest : SUBSET Ops]]
      /\ proc \in [Ops -> ProcState]
  BY DEF JudgeInv, JudgeTypes
<1>1. CASE Processes
  <2>1. UNCHANGED <<script, act, recs, dash>>
    BY <1>1
       DEF Processes, GetReceives, GetCompletes, SubCreates, SubWrites, Exits, CurlExits
  <2>2. act["worker"].ph # "idle" => act["worker"].op \in Ops
    BY DEF JudgeInv, JudgeTypes, OwnInv, Threads
  <2>3. GetsRan'
    BY <1>1, <2>1, <2>2, StartedStays DEF DashInv, GetsRan, JudgeNext, Kind
  <2>. QED
    BY <2>1, <2>3, DashKept DEF Calling
<1>2. CASE Dispatch
  <2>1. UNCHANGED <<script, recs, dash>>
    BY <1>2
       DEF Dispatch, Take, RunStart, RunRaises, SubClears, SubSpawns, SubPends, ComputeStart,
           PubStart, PubCancelled
  <2>2. ASSUME NEW o \in Ops, ComputeStart(o) PROVE DashInv'
    <3>1. /\ act["sched"].ph = "idle" /\ act' = Waits("sched", o, {})
      BY <2>2 DEF ComputeStart
    <3>2. /\ act'["sched"].ph = "poll" /\ \A u \in Threads \ {"sched"} : act'[u] = act[u]
      BY <1>0, <3>1 DEF Waits, Turns, Threads
    <3>3. act["worker"].ph # "idle" => act["worker"].op \in Ops
      BY DEF JudgeInv, JudgeTypes, OwnInv, Threads
    <3>4. GetsRan'
      BY <1>2, <2>1, <3>2, <3>3, StartedStays DEF DashInv, GetsRan, JudgeNext, Kind, Threads
    <3>5. \A u \in Threads : /\ Calling(u)' <=> Calling(u)
                             /\ Calling(u) => act'[u].op = act[u].op
      BY <3>1, <3>2 DEF Calling
    <3>. QED
      BY <2>1, <3>4, <3>5, DashKept
  <2>3. ASSUME act["worker"].ph \in {"idle", "taken", "spawned"}, GetsRan', act'["worker"].ph # "notify",
               \A u \in Threads \ {"worker"} : act'[u] = act[u]
        PROVE  DashInv'
    <3>1. \A u \in Threads : /\ Calling(u)' <=> Calling(u)
                             /\ Calling(u) => act'[u].op = act[u].op
      BY <2>3 DEF Calling
    <3>. QED
      BY <2>1, <2>3, <3>1, DashKept
  <2>4. ASSUME NEW ph, NEW o, NEW rest, act' = Turns("worker", ph, o, rest)
        PROVE  /\ act'["worker"].ph = ph /\ act'["worker"].op = o
               /\ \A u \in Threads \ {"worker"} : act'[u] = act[u]
    BY <1>0, <2>4 DEF Turns, Threads
  <2>5. ASSUME act' = [act EXCEPT !["worker"] = Idle]
        PROVE  /\ act'["worker"].ph = "idle"
               /\ \A u \in Threads \ {"worker"} : act'[u] = act[u]
    BY <1>0, <2>5 DEF Idle, Threads
  <2>6. ASSUME NEW o \in Ops, Take(o) PROVE DashInv'
    <3>1. act["worker"].ph = "idle" /\ act' = Turns("worker", "taken", o, {})
      BY <2>6 DEF Take
    <3>2. /\ act'["worker"].ph = "taken"
          /\ \A u \in Threads \ {"worker"} : act'[u] = act[u]
      BY <2>4, <3>1
    <3>. QED
      BY <2>3, <3>1, <3>2 DEF GetsRan
  <2>7. ASSUME NEW o \in Ops, RunStart(o) PROVE DashInv'
    <3>1. act["worker"].ph = "taken" /\ act' = Turns("worker", "poll", o, {}) /\ proc' = Running(o)
      BY <2>7 DEF RunStart, Taken, Waits, run_cefputfile, run_cefgetfile, run_ccninfo
    <3>2. /\ act'["worker"].ph = "poll" /\ act'["worker"].op = o
          /\ \A u \in Threads \ {"worker"} : act'[u] = act[u]
      BY <2>4, <3>1
    <3>3. proc'[o].st = "run"
      BY <1>0, <3>1 DEF Running, ProcState
    <3>. QED
      BY <2>3, <3>1, <3>2, <3>3 DEF GetsRan
  <2>8. ASSUME NEW o \in Ops, RunRaises(o) PROVE DashInv'
    <3>1. /\ act["worker"].ph = "taken"
          /\ \/ Kind(o) = "ccninfo" /\ act' = Turns("worker", "judge", o, {})
             \/ act' = [act EXCEPT !["worker"] = Idle]
      BY <2>8 DEF RunRaises, Taken
    <3>2. /\ \/ Kind(o) = "ccninfo" /\ act'["worker"].ph = "judge" /\ act'["worker"].op = o
             \/ act'["worker"].ph = "idle"
          /\ \A u \in Threads \ {"worker"} : act'[u] = act[u]
      BY <2>4, <2>5, <3>1
    <3>3. GetsRan'
      BY <2>1, <3>2 DEF GetsRan, Kind
    <3>. QED
      BY <2>3, <3>1, <3>2, <3>3
  <2>11. ASSUME NEW o \in Ops, SubClears(o) PROVE DashInv'
    <3>1. act["worker"].ph = "taken" /\ act' = act
      BY <2>11 DEF SubClears, Taken
    <3>. QED
      BY <2>3, <3>1 DEF GetsRan
  <2>12. ASSUME NEW o \in Ops, SubSpawns(o) PROVE DashInv'
    <3>1. /\ act["worker"].ph = "taken"
          /\ \/ act' = Turns("worker", "spawned", o, {})
             \/ act' = [act EXCEPT !["worker"] = Idle]
      BY <2>12 DEF SubSpawns, Taken
    <3>2. /\ act'["worker"].ph \in {"spawned", "idle"}
          /\ \A u \in Threads \ {"worker"} : act'[u] = act[u]
      BY <2>4, <2>5, <3>1
    <3>. QED
      BY <2>3, <3>1, <3>2 DEF GetsRan
  <2>9. ASSUME SubPends \/ PubCancelled
        PROVE  DashInv'
    <3>1. act["worker"].ph \in {"taken", "spawned"} /\ act' = [act EXCEPT !["worker"] = Idle]
      BY <2>9 DEF SubPends, PubCancelled, Taken
    <3>2. /\ act'["worker"].ph = "idle"
          /\ \A u \in Threads \ {"worker"} : act'[u] = act[u]
      BY <2>5, <3>1
    <3>. QED
      BY <2>3, <3>1, <3>2 DEF GetsRan
  <2>10. ASSUME PubStart PROVE DashInv'
    <3>0. PICK o : o = act["worker"].op
      OBVIOUS
    <3>1. /\ act["worker"].ph = "taken" /\ Kind(o) = "pub"
          /\ \/ act' = Turns("worker", "poll", o, SubsOf(o))
             \/ act' = [act EXCEPT !["worker"] = Idle]
      BY <2>10, <3>0 DEF PubStart, Taken, Waits
    <3>2. /\ \/ act'["worker"].ph = "poll" /\ act'["worker"].op = o
             \/ act'["worker"].ph = "idle"
          /\ \A u \in Threads \ {"worker"} : act'[u] = act[u]
      BY <2>4, <2>5, <3>1
    <3>3. GetsRan'
      BY <2>1, <3>1, <3>2 DEF GetsRan, Kind
    <3>. QED
      BY <2>3, <3>1, <3>2, <3>3
  <2>. QED
    BY <1>2, <2>2, <2>6, <2>7, <2>8, <2>9, <2>10, <2>11, <2>12 DEF Dispatch
<1>3. ASSUME JudgeNext, NEW t \in Threads, NEW x \in {"check", "judge", "publish"},
             act[t].ph \in {"poll", "check", "judge"}, act' = [act EXCEPT ![t].ph = x],
             UNCHANGED <<script, recs, dash>>
      PROVE  DashInv'
  <2>1. /\ act'[t].ph = x /\ act'[t].op = act[t].op
        /\ \A u \in Threads \ {t} : act'[u] = act[u]
    BY <1>0, <1>3
  <2>2. \A u \in Threads : act[u].ph # "idle" => act[u].op \in Ops
    BY DEF JudgeInv, JudgeTypes, OwnInv
  <2>3. GetsRan'
    <3>1. PICK w : w = "worker"
      OBVIOUS
    <3>2. w \in Threads
      BY <3>1 DEF Threads
    <3>3. ASSUME act'[w].ph \in {"poll", "check", "judge"}, Kind(act'[w].op) = "get"
          PROVE  proc'[act'[w].op].st # "none"
      <4>1. act[w].ph \in {"poll", "check", "judge"} /\ act'[w].op = act[w].op
        BY <1>3, <2>1, <3>2, <3>3
      <4>2. proc[act[w].op].st # "none" /\ act[w].op \in Ops
        BY <2>2, <3>1, <3>2, <3>3, <4>1 DEF DashInv, GetsRan
      <4>. QED
        BY <1>3, <4>1, <4>2, StartedStays
    <3>. QED
      BY <1>3, <3>1, <3>3 DEF GetsRan, Kind
  <2>4. \A u \in Threads : /\ Calling(u)' <=> Calling(u)
                           /\ Calling(u) => act'[u].op = act[u].op
    BY <1>3, <2>1 DEF Calling
  <2>. QED
    BY <1>3, <2>3, <2>4, DashKept
<1>4. ASSUME NEW t \in Threads, WaitEnds(t) \/ SeesRunning(t) \/ Interrupts(t), JudgeNext
      PROVE  DashInv'
  <2>1. PICK x \in {"check", "judge"} : act' = [act EXCEPT ![t].ph = x]
    BY <1>4 DEF WaitEnds, SeesRunning, Interrupts
  <2>2. act[t].ph \in {"poll", "check"} /\ UNCHANGED <<script, recs, dash>>
    BY <1>4 DEF WaitEnds, SeesRunning, Interrupts
  <2>. QED
    BY <1>3, <1>4, <2>1, <2>2
<1>5. ASSUME NEW t \in Threads, Judge(t) PROVE DashInv'
  <2>1. PICK v \in VerdictsOf(act[t].op) : Recorded(t, v)
    BY <1>5 DEF Judge
  <2>2. act[t].ph = "judge" /\ UNCHANGED <<script, proc, dash>>
    BY <1>5 DEF Judge
  <2>3. Kind(act[t].op) \in {"get", "sub"} => v.success = "yes" \/ failure_reasons(v) # {}
    BY <1>5, VerdictExplained
  <2>. QED
    BY <2>1, <2>2, <2>3, DashRecords
<1>6. ASSUME CaptureTimesOut \/ ComputeJudge \/ ComputePublish, JudgeNext PROVE DashInv'
  <2>1. PICK t : t = "sched"
    OBVIOUS
  <2>2. t \in Threads /\ act[t].ph \in {"check", "judge", "publish"} /\ UNCHANGED <<script, dash>>
    BY <1>6, <2>1 DEF CaptureTimesOut, ComputeJudge, ComputePublish, Threads
  <2>3. \/ /\ act[t].ph \in {"check", "judge"} /\ recs' = recs
           /\ \E x \in {"judge", "publish"} : act' = [act EXCEPT ![t].ph = x]
        \/ act[t].ph \in {"judge", "publish"} /\ proc' = proc /\ \E v : Recorded(t, v)
    BY <1>6, <2>1 DEF CaptureTimesOut, ComputeJudge, ComputePublish
  <2>4. CASE act[t].ph \in {"judge", "publish"} /\ proc' = proc /\ \E v : Recorded(t, v)
    <3>1. Kind(act[t].op) = "compute"
      BY <2>1, <2>4 DEF JudgeInv, KindInv, Busy
    <3>. QED
      BY <2>2, <2>4, <3>1, DashRecords
  <2>5. CASE /\ act[t].ph \in {"check", "judge"} /\ recs' = recs
             /\ \E x \in {"judge", "publish"} : act' = [act EXCEPT ![t].ph = x]
    BY <1>3, <1>6, <2>2, <2>5
  <2>. QED
    BY <2>3, <2>4, <2>5
<1>7. CASE Settle
  BY <1>4, <1>5, <1>6, <1>7, DashNotifies DEF Settle, JudgeNext
<1>8. CASE Cancel \/ UNCHANGED judgeVars
  <2>1. UNCHANGED <<script, act, proc, recs, dash>>
    BY <1>8 DEF Cancel, judgeVars
  <2>2. GetsRan'
    BY <2>1 DEF DashInv, GetsRan, Kind
  <2>. QED
    BY <2>1, <2>2, DashKept DEF Calling
<1>9. CASE MainSettles
  <2>1. /\ act["main"].ph = "idle" /\ act' = Waits("main", Min(pending), pending \ {Min(pending)})
        /\ UNCHANGED <<script, proc, recs, dash>>
    BY <1>9 DEF MainSettles
  <2>2. act'["main"].ph = "poll" /\ \A u \in Threads \ {"main"} : act'[u] = act[u]
    BY <1>0, <2>1 DEF Waits, Turns, Threads
  <2>3. GetsRan'
    BY <2>1, <2>2 DEF DashInv, GetsRan, Kind, Threads
  <2>4. \A u \in Threads : /\ Calling(u)' <=> Calling(u)
                           /\ Calling(u) => act'[u].op = act[u].op
    BY <2>1, <2>2 DEF Calling
  <2>. QED
    BY <2>1, <2>3, <2>4, DashKept
<1>. QED
  BY <1>1, <1>2, <1>7, <1>8, <1>9 DEF JudgeNext

\* At the start the dashboard is empty.
LEMMA DashInitially ==
  ASSUME JudgeInit
  PROVE  DashInv
<1>1. /\ \A t \in Threads : act[t].ph = "idle"
      /\ recs = <<>> /\ dash.ops = <<>> /\ dash.hist = <<>>
  BY DEF JudgeInit, Idle
<1>2. GetsRan
  BY <1>1 DEF GetsRan, Threads
<1>3. RecsOnce /\ RecsExplain
  BY <1>1 DEF RecsOnce, RecsExplain
<1>4. \A t \in Threads : ~Calling(t)
  BY <1>1 DEF Calling
<1>5. CallsInv
  BY <1>4 DEF CallsInv
<1>6. Called = 0
  BY <1>1, <1>4 DEF Called, InCall, Threads
<1>7. DashHolds
  BY <1>1, <1>6, BoundsAssumption DEF DashHolds
<1>8. DashCounts
  BY <1>1 DEF DashCounts
<1>. QED
  BY <1>2, <1>3, <1>5, <1>7, <1>8 DEF DashInv

-----------------------------------------------------------------------------
(* Judgment: the dashboard and the analysis. *)

\* Two sequences of the same entries, each once, have as many of any sort.
LEMMA SameRecords ==
  ASSUME NEW s, NEW r, IsFiniteSet(DOMAIN s), IsFiniteSet(DOMAIN r),
         \A k, l \in DOMAIN s : s[k] = s[l] => k = l,
         \A i, j \in DOMAIN r : r[i] = r[j] => i = j,
         \A k \in DOMAIN s : \E i \in DOMAIN r : s[k] = r[i],
         \A i \in DOMAIN r : \E k \in DOMAIN s : s[k] = r[i], NEW Y
  PROVE  Cardinality({k \in DOMAIN s : s[k] \in Y}) = Cardinality({i \in DOMAIN r : r[i] \in Y})
<1>1. PICK A, B : A = {k \in DOMAIN s : s[k] \in Y} /\ B = {i \in DOMAIN r : r[i] \in Y}
  OBVIOUS
<1>2. PICK f : f = [k \in A |-> CHOOSE i \in DOMAIN r : s[k] = r[i]]
  OBVIOUS
<1>3. \A k \in A : k \in DOMAIN s /\ f[k] \in DOMAIN r /\ s[k] = r[f[k]]
  BY <1>1, <1>2
<1>4. f \in [A -> B]
  BY <1>1, <1>2, <1>3
<1>5. \A k, l \in A : f[k] = f[l] => k = l
  BY <1>3
<1>6. \A i \in B : \E k \in A : f[k] = i
  BY <1>1, <1>3
<1>7. f \in Injection(A, B) /\ f \in Surjection(A, B)
  BY <1>4, <1>5, <1>6 DEF Injection, Surjection, IsInjective
<1>8. IsFiniteSet(B)
  BY <1>1, FS_Subset
<1>9. Cardinality(A) = Cardinality(B)
  BY <1>7, <1>8, FS_Injection
<1>. QED
  BY <1>1, <1>9

\* The URIs of a script are finitely many.
LEMMA UrisFinite ==
  ASSUME JudgeInv
  PROVE  IsFiniteSet(Uris)
<1>1. Len(script) \in Nat /\ Ops = 1..Len(script)
  BY ScriptsAssumption DEF JudgeInv, JudgeTypes, Ops
<1>2. PICK T, f : T = Uris /\ f = [o \in Ops |-> script[o].uri]
  OBVIOUS
<1>3. f \in Surjection(Ops, T)
  BY <1>2 DEF Uris, Surjection
<1>4. IsFiniteSet(Ops)
  BY <1>1, FS_Interval
<1>. QED
  BY <1>2, <1>3, <1>4, FS_Surjection

\* The reasons of a URI: each failed record has one, and only the failed ones do.
LEMMA ReasonsCount ==
  ASSUME JudgeInv, DashInv, NEW u
  PROVE  LET row == summarize(u) failed == row.total - row.success
         IN  /\ FoldFunction(+, 0, row.reasons) >= failed
             /\ \A x \in DOMAIN row.reasons : row.reasons[x] <= failed
<1>. DEFINE R(x) == {i \in Evaluated(u) : x \in Classified(i).reasons}
            a == "exit_code_nonzero"
            b == "missing_completed_log"
            c == "missing_output_file"
<1>1. PICK E, S, f : /\ E = Evaluated(u) /\ S = {i \in Evaluated(u) : Classified(i).ok}
                     /\ f = summarize(u).reasons
  OBVIOUS
<1>2. /\ summarize(u).total = Cardinality(E) /\ summarize(u).success = Cardinality(S)
      /\ f = [x \in {a, b, c} |-> Cardinality(R(x))]
  BY <1>1 DEF summarize
<1>3. IsFiniteSet(E)
  <2>1. recs \in Seq({recs[i] : i \in DOMAIN recs})
    BY DEF JudgeInv, RecInv
  <2>2. IsFiniteSet(DOMAIN recs)
    BY <2>1, FS_Interval
  <2>3. E \subseteq DOMAIN recs
    BY <1>1 DEF Evaluated, Consumed
  <2>. QED
    BY <2>2, <2>3, FS_Subset
<1>4. PICK A, B, C, D : A = R(a) /\ B = R(b) /\ C = R(c) /\ D = E \ S
  OBVIOUS
<1>5. \A i \in E : /\ Classified(i).ok => Classified(i).reasons = {}
                   /\ ~Classified(i).ok => Classified(i).reasons # {}
                   /\ Classified(i).reasons \subseteq {a, b, c}
  <2>. SUFFICES ASSUME NEW i \in E
                PROVE  /\ Classified(i).ok => Classified(i).reasons = {}
                       /\ ~Classified(i).ok => Classified(i).reasons # {}
                       /\ Classified(i).reasons \subseteq {a, b, c}
    OBVIOUS
  <2>1. recs[i].v.success = "yes" \/ failure_reasons(recs[i].v) # {}
    BY <1>1 DEF Evaluated, Consumed, DashInv, RecsExplain
  <2>2. failure_reasons(recs[i].v) \subseteq {a, b, c}
    BY DEF failure_reasons
  <2>3. /\ Classified(i).ok = (recs[i].v.success = "yes")
        /\ Classified(i).reasons =
             IF recs[i].v.success = "yes" THEN {} ELSE failure_reasons(recs[i].v)
    BY DEF Classified, classify
  <2>. QED
    BY <2>1, <2>2, <2>3
<1>6. S \subseteq E /\ S = E \cap S
  BY <1>1
<1>7. IsFiniteSet(D) /\ Cardinality(D) = Cardinality(E) - Cardinality(S) /\ IsFiniteSet(S)
  <2>1. IsFiniteSet(E \ S) /\ Cardinality(E \ S) = Cardinality(E) - Cardinality(E \cap S)
    BY <1>3, FS_Difference
  <2>. QED
    BY <1>3, <1>4, <1>6, <2>1, FS_Subset
<1>8. A \subseteq D /\ B \subseteq D /\ C \subseteq D
  BY <1>1, <1>4, <1>5
<1>9. D = A \cup B \cup C
  <2>1. ASSUME NEW i \in D PROVE i \in A \cup B \cup C
    <3>1. i \in E /\ ~Classified(i).ok
      BY <1>1, <1>4
    <3>2. PICK x \in {a, b, c} : x \in Classified(i).reasons
      BY <1>5, <3>1
    <3>3. i \in R(x)
      BY <1>1, <3>1, <3>2
    <3>4. x = a \/ x = b \/ x = c
      OBVIOUS
    <3>. HIDE DEF R
    <3>. QED
      BY <1>4, <3>3, <3>4
  <2>. QED
    BY <1>8, <2>1
<1>10. /\ IsFiniteSet(A) /\ IsFiniteSet(B) /\ IsFiniteSet(C)
       /\ Cardinality(A) <= Cardinality(D) /\ Cardinality(B) <= Cardinality(D)
       /\ Cardinality(C) <= Cardinality(D)
  BY <1>7, <1>8, FS_Subset
<1>11. /\ Cardinality(A) \in Nat /\ Cardinality(B) \in Nat /\ Cardinality(C) \in Nat
       /\ Cardinality(D) \in Nat
  BY <1>7, <1>10, FS_CardinalityType
<1>12. Cardinality(D) <= Cardinality(A) + Cardinality(B) + Cardinality(C)
  <2>1. PICK F : F = A \cup B
    OBVIOUS
  <2>2. IsFiniteSet(F) /\ Cardinality(F) = Cardinality(A) + Cardinality(B) - Cardinality(A \cap B)
    BY <1>10, <2>1, FS_Union
  <2>3. Cardinality(D) = Cardinality(F) + Cardinality(C) - Cardinality(F \cap C)
    <3>1. D = F \cup C
      BY <1>9, <2>1
    <3>. QED
      BY <1>10, <2>2, <3>1, FS_Union
  <2>4. IsFiniteSet(A \cap B) /\ IsFiniteSet(F \cap C)
    BY <1>10, <2>2, FS_Subset
  <2>5. Cardinality(A \cap B) \in Nat /\ Cardinality(F \cap C) \in Nat /\ Cardinality(F) \in Nat
    BY <2>2, <2>4, FS_CardinalityType
  <2>. QED
    BY <1>11, <2>2, <2>3, <2>5
<1>13. f[a] = Cardinality(A) /\ f[b] = Cardinality(B) /\ f[c] = Cardinality(C)
       /\ f \in [{a, b, c} -> Nat]
  <2>1. f[a] = Cardinality(A) /\ f[b] = Cardinality(B) /\ f[c] = Cardinality(C)
    BY <1>2, <1>4
  <2>2. f = [x \in {a, b, c} |-> f[x]]
    BY <1>2
  <2>. HIDE DEF R, a, b, c
  <2>. QED
    BY <1>11, <2>1, <2>2
<1>14. FoldFunction(+, 0, f) = f[a] + f[b] + f[c]
  <2>. DEFINE F(it) == it = [s \in SUBSET DOMAIN f |->
                IF s = {} THEN 0
                ELSE f[CHOOSE x \in s : TRUE] + it[s \ {CHOOSE x \in s : TRUE}]]
  <2>1. \A it : F(it) <=> AddsValues(it, f)
    BY DEF AddsValues, FirstOf
  <2>2. /\ \E it : AddsValues(it, f)
        /\ \A it : AddsValues(it, f) => it[DOMAIN f] = f[a] + f[b] + f[c]
    <3>1. a # b /\ a # c /\ b # c
      OBVIOUS
    <3>2. f \in [{a, b, c} -> Nat]
      BY <1>13
    <3>. HIDE DEF a, b, c
    <3>. QED
      BY <3>1, <3>2, SumOfThree
  <2>3. \E it : F(it)
    <3>. HIDE DEF F
    <3>. QED
      BY <2>1, <2>2
  <2>4. \E it : F(it) /\ FoldFunction(+, 0, f) = it[DOMAIN f]
    BY <2>3 DEF FoldFunction, FoldFunctionOnSet, MapThenFoldSet
  <2>. HIDE DEF F, a, b, c
  <2>. QED
    BY <2>1, <2>2, <2>4
<1>15. summarize(u).total - summarize(u).success = Cardinality(D)
  BY <1>2, <1>7
<1>16. \A x \in DOMAIN f : f[x] <= Cardinality(D)
  BY <1>10, <1>13
<1>17. FoldFunction(+, 0, f) >= Cardinality(D)
  BY <1>11, <1>12, <1>13, <1>14
<1>. QED
  BY <1>1, <1>15, <1>16, <1>17

\* The dashboard takes in every record once, whatever order the threads call it in, and
\* its last point is the count of what it holds (src/webui/state.py, results_sink.py).
THEOREM JudgeDashboard == JudgeSpec => []DashInv
BY JudgeInvariant, DashInitially, DashSteps, PTL DEF JudgeSpec

\* The dashboard (src/webui/state.py) counts what the analysis (analyze.py) counts and the
\* prefetches besides, and every failure the analysis counts has a reason, for all
\* scripts and all bounds of the dashboard.
THEOREM JudgeCounts == JudgeSpec => []CountsAgree
<1>1. JudgeInv /\ DashInv => CountsAgree
  <2>. SUFFICES ASSUME JudgeInv, DashInv
                PROVE  CountsAgree
    OBVIOUS
  <2>1. ASSUME Quiet, recs # <<>>
        PROVE  LET point == dash.hist[Len(dash.hist)]
               IN  /\ Len(dash.ops) = IF Len(recs) < MAX_OPERATIONS THEN Len(recs) ELSE MAX_OPERATIONS
                   /\ point = Point(dash.ops)
                   /\ Len(recs) <= MAX_OPERATIONS =>
                        /\ {dash.ops[i] : i \in DOMAIN dash.ops} = {recs[i] : i \in DOMAIN recs}
                        /\ point.total = Cardinality(Prefetched)
                             + FoldSet(LAMBDA u, m : m + summarize(u).total, 0, Uris)
                        /\ point.success = Cardinality({i \in Prefetched : Classified(i).ok})
                             + FoldSet(LAMBDA u, m : m + summarize(u).success, 0, Uris)
    <3>1. PICK s, S : s = dash.ops /\ S = RecSet
      OBVIOUS
    <3>2. /\ recs \in Seq(S) /\ s \in Seq(S) /\ Len(recs) \in Nat \ {0}
          /\ DOMAIN recs = 1..Len(recs)
      BY <2>1, <3>1 DEF JudgeInv, RecInv, DashInv, DashHolds, RecSet
    <3>3. \A t \in Threads : ~Calling(t)
      BY <2>1 DEF Quiet, Calling
    <3>4. Called = Len(recs)
      BY <3>2, <3>3 DEF Called, InCall, Threads
    <3>5. Len(s) = IF Len(recs) < MAX_OPERATIONS THEN Len(recs) ELSE MAX_OPERATIONS
      BY <3>1, <3>4 DEF DashInv, DashHolds
    <3>6. Len(s) # 0
      BY <3>2, <3>5, BoundsAssumption
    <3>7. dash.hist[Len(dash.hist)] = Point(s)
      BY <3>1, <3>6 DEF DashInv, DashCounts
    <3>8. ASSUME Len(recs) <= MAX_OPERATIONS
          PROVE  /\ {s[i] : i \in DOMAIN s} = {recs[i] : i \in DOMAIN recs}
                 /\ Point(s).total = Cardinality(Prefetched)
                      + FoldSet(LAMBDA u, m : m + summarize(u).total, 0, Uris)
                 /\ Point(s).success = Cardinality({i \in Prefetched : Classified(i).ok})
                      + FoldSet(LAMBDA u, m : m + summarize(u).success, 0, Uris)
      <4>1. \A i \in DOMAIN recs : \E k \in DOMAIN s : s[k] = recs[i]
        BY <3>1, <3>3, <3>4, <3>8 DEF DashInv, DashHolds
      <4>2. \A k \in DOMAIN s : \E i \in DOMAIN recs : s[k] = recs[i]
        <5>1. \A k \in DOMAIN s : s[k] \in S
          BY <3>2
        <5>. QED
          BY <3>1, <5>1 DEF RecSet
      <4>3. {s[i] : i \in DOMAIN s} = {recs[i] : i \in DOMAIN recs}
        BY <4>1, <4>2
      <4>4. /\ \A k, l \in DOMAIN s : s[k] = s[l] => k = l
            /\ \A i, j \in DOMAIN recs : recs[i] = recs[j] => i = j
        BY <3>1 DEF DashInv, DashHolds, RecsOnce
      <4>5. IsFiniteSet(DOMAIN s) /\ IsFiniteSet(DOMAIN recs)
        BY <3>2, PointType
      <4>6. \A Y : Cardinality({k \in DOMAIN s : s[k] \in Y})
                   = Cardinality({i \in DOMAIN recs : recs[i] \in Y})
        BY SMTT(30), <4>1, <4>2, <4>4, <4>5, SameRecords
      <4>7. PICK X, Y : /\ X = {x \in S : x.kind \in {"get", "sub"}}
                        /\ Y = {x \in S : x.kind \in {"get", "sub"} /\ x.v.success = "yes"}
        OBVIOUS
      <4>8. \A k \in DOMAIN s : s[k] \in S
        BY <3>2
      <4>9. \A i \in DOMAIN recs : recs[i] \in S /\ recs[i].op \in Ops
        BY <3>1 DEF RecSet, JudgeInv, JudgeTypes, OwnInv
      <4>10. Point(s).total = Cardinality({k \in DOMAIN s : s[k] \in X})
        <5>1. Counted(s) = {k \in DOMAIN s : s[k] \in X}
          BY <4>7, <4>8 DEF Counted
        <5>. QED
          BY <5>1 DEF Point
      <4>11. Point(s).success = Cardinality({k \in DOMAIN s : s[k] \in Y})
        <5>1. {i \in Counted(s) : s[i].v.success = "yes"} = {k \in DOMAIN s : s[k] \in Y}
          BY <4>7, <4>8 DEF Counted
        <5>. QED
          BY <5>1 DEF Point
      <4>12. PICK V, W, P, Q : /\ V = {i \in DOMAIN recs : recs[i] \in X}
                               /\ W = {i \in DOMAIN recs : recs[i] \in Y}
                               /\ P = Prefetched /\ Q = {i \in Prefetched : Classified(i).ok}
        OBVIOUS
      <4>17. /\ V = Consumed /\ P \subseteq V
             /\ W = {i \in Consumed : recs[i].v.success = "yes"}
        BY <4>7, <4>9, <4>12 DEF Consumed, Prefetched
      <4>18. \A i : Classified(i).ok <=> recs[i].v.success = "yes"
        BY DEF Classified, classify
      <4>19. Q = {i \in P : recs[i].v.success = "yes"} /\ Q \subseteq W
        BY <4>12, <4>17, <4>18
      <4>20. \A i \in Consumed : script[recs[i].op].uri \in Uris
        BY <4>9 DEF Consumed, Uris
      <4>21. UNION {Evaluated(u) : u \in Uris} = V \ P
        <5>1. ASSUME NEW i \in V \ P
              PROVE  i \in UNION {Evaluated(u) : u \in Uris}
          <6>1. script[recs[i].op].uri \in Uris
            BY <4>17, <4>20
          <6>2. i \in Evaluated(script[recs[i].op].uri)
            BY <4>12, <4>17 DEF Evaluated
          <6>. QED
            BY <6>1, <6>2
        <5>2. ASSUME NEW u \in Uris, NEW i \in Evaluated(u)
              PROVE  i \in V \ P
          BY <4>12, <4>17 DEF Evaluated
        <5>. QED
          BY <5>1, <5>2
      <4>13. UNION {Succeeded(u) : u \in Uris} = W \ Q
        <5>1. \A u : Succeeded(u) = {i \in Evaluated(u) : recs[i].v.success = "yes"}
          BY <4>18 DEF Succeeded
        <5>2. \A i : i \in W \ Q <=> i \in V \ P /\ recs[i].v.success = "yes"
          BY <4>17, <4>19
        <5>. QED
          BY <4>21, <5>1, <5>2
      <4>22. IsFiniteSet(V) /\ IsFiniteSet(W) /\ IsFiniteSet(P) /\ IsFiniteSet(Q)
        <5>1. V \subseteq DOMAIN recs /\ W \subseteq DOMAIN recs
          BY <4>12
        <5>2. IsFiniteSet(V) /\ IsFiniteSet(W)
          BY <4>5, <5>1, FS_Subset
        <5>. QED
          BY <4>17, <4>19, <5>2, FS_Subset
      <4>23. /\ Cardinality(V \ P) = Cardinality(V) - Cardinality(P)
             /\ Cardinality(W \ Q) = Cardinality(W) - Cardinality(Q)
             /\ Cardinality(V) \in Nat /\ Cardinality(P) \in Nat
             /\ Cardinality(W) \in Nat /\ Cardinality(Q) \in Nat
        <5>1. V \cap P = P /\ W \cap Q = Q
          BY <4>17, <4>19
        <5>2. /\ Cardinality(V \ P) = Cardinality(V) - Cardinality(V \cap P)
              /\ Cardinality(W \ Q) = Cardinality(W) - Cardinality(W \cap Q)
          BY <4>22, FS_Difference
        <5>. QED
          BY <4>22, <5>1, <5>2, FS_CardinalityType
      <4>14. FoldSet(LAMBDA u, m : m + summarize(u).total, 0, Uris)
               = Cardinality(UNION {Evaluated(u) : u \in Uris})
        BY <4>5, TotalIsCount, UrisFinite
      <4>15. FoldSet(LAMBDA u, m : m + summarize(u).success, 0, Uris)
               = Cardinality(UNION {Succeeded(u) : u \in Uris})
        BY <4>5, SuccessIsCount, UrisFinite
      <4>16. Point(s).total = Cardinality(V) /\ Point(s).success = Cardinality(W)
        BY <4>6, <4>10, <4>11, <4>12
      <4>24. /\ Point(s).total = Cardinality(P) + Cardinality(V \ P)
             /\ Point(s).success = Cardinality(Q) + Cardinality(W \ Q)
        BY <4>16, <4>23
      <4>. QED
        BY <4>3, <4>12, <4>13, <4>14, <4>15, <4>21, <4>24
    <3>. QED
      BY <3>1, <3>5, <3>7, <3>8
  <2>2. \A u \in Uris : LET row == summarize(u) failed == row.total - row.success
                        IN  /\ FoldFunction(+, 0, row.reasons) >= failed
                            /\ \A x \in DOMAIN row.reasons : row.reasons[x] <= failed
    BY ReasonsCount
  <2>. QED
    BY <2>1, <2>2 DEF CountsAgree
<1>. QED
  BY <1>1, JudgeInvariant, JudgeDashboard, PTL
=============================================================================
