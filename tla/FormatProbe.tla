----------------------------- MODULE FormatProbe -----------------------------
(***************************************************************************)
(* Isolated format probing (cpmimg_probe_client.cpp and the helper         *)
(* cpmimg_probe_main.cpp): the disk definitions are ranked by what is      *)
(* known of the image's layout, and helper processes try to mount the      *)
(* image with them, batch by batch and one tier of the ranking after the   *)
(* other, until a tier has produced a mount or the budget is spent.        *)
(*                                                                         *)
(* The helpers of a batch run side by side and answer through temporary    *)
(* files; they may crash or hang, and the client gives up on those that    *)
(* still run at the deadline.                                              *)
(***************************************************************************)
EXTENDS Integers, FiniteSets

CONSTANTS
  Formats,    \* the disk definitions, no two of the same name
  Alphabet,   \* their names' places in the alphabet
  Images,     \* what the images to be probed look like
  BatchSize, Budget,  \* 7 and 42 in the code
  Outputs,    \* names GetTempFileName may return
  Troubled    \* the images during whose probing helpers may fail or hang

\* What is known about one definition on one image.  sec and spt say how the
\* definition's sector size and sectors per track occur on an IMD image; geom
\* is the number of matches with LibDsk's geometry.  mounts and files are what
\* mounting the image with it would find.  sized says that the sizes of the image's
\* data and of the definition are both known and so can be compared.
Facts == [exact: BOOLEAN, sized: BOOLEAN, track: BOOLEAN,
          sec: {"main", "some", "none"}, spt: {"main", "some", "none"},
          geom: 0..3, mounts: BOOLEAN, files: Nat]

NoOutput == "no output"

ASSUME ProbeAssumption ==
  /\ IsFiniteSet(Formats)
  /\ Alphabet \in [Formats -> Nat]
  /\ \A f, g \in Formats : Alphabet[f] = Alphabet[g] => f = g
  /\ Images \subseteq [imd: BOOLEAN, fact: [Formats -> Facts]]
  /\ \A i \in Images, f \in Formats : i.fact[f].exact => i.fact[f].sized
  /\ {BatchSize, Budget} \subseteq Nat \ {0}
  /\ Troubled \subseteq Images
  /\ NoOutput \notin Outputs

VARIABLES
  image,      \* the image that is probed
  ranked,     \* each definition's tier, score and place in the ranking
  phase,      \* where cpm_run_safe_format_probes is
  attempted,  \* attempted_candidates: that many of the ranking are done
  launched,   \* launched candidates, counted along the ranking
  tierMounted,\* tier_mounted
  proc,       \* the helper process of each definition
  running,    \* the running flags of the batch
  output,     \* output_path of each definition's helper
  files,      \* the content of the output files
  result,     \* report.candidates
  selected    \* selected_format, as a set of at most one

vars == <<image, ranked, phase, attempted, launched, tierMounted, proc, running,
          output, files, result, selected>>

\* Helpers may fail, and the deadline of a batch may pass.
Trouble == image \in Troubled

------------------------------------------------------------------------------
\* RANKING

Clamp(x, low, high) == IF x < low THEN low ELSE IF x > high THEN high ELSE x

Smallest(S) == CHOOSE n \in S : \A m \in S : n <= m

Points(b, n) == IF b THEN n ELSE 0
Degree(d) == CASE d = "main" -> 12 [] d = "some" -> 7 [] d = "none" -> 0

\* Matching layout properties of an IMD image.
Layout(x) ==
  Points(x.track, 1) + Points(x.sec = "main", 1) + Points(x.spt = "main", 1)

\* make_candidate's priority_tier: the first test that succeeds.
ImdTier(x) ==
  Smallest({t \in 0..6 :
    \/ t = 0 /\ x.exact /\ Layout(x) = 3
    \/ t = 1 /\ x.exact /\ Layout(x) >= 1
    \/ t = 2 /\ x.exact
    \/ t = 3 /\ Layout(x) = 3
    \/ t = 4 /\ (Layout(x) >= 2 \/ x.geom >= 2)
    \/ t = 5 /\ (Layout(x) >= 1 \/ x.geom >= 1)
    \/ t = 6})

RawTier(x) ==
  Smallest({t \in 0..5 :
    \/ t = 0 /\ x.exact /\ x.geom = 3
    \/ t = 1 /\ x.exact
    \/ t \in 2..4 /\ x.geom = 5 - t
    \/ t = 5})

PriorityTier(f) ==
  LET x == image.fact[f] IN IF image.imd THEN ImdTier(x) ELSE RawTier(x)

PhysicalScore_MUT_SizeIgnored(f) ==
  LET x == image.fact[f]
  IN  Clamp(IF image.imd
            THEN Points(x.exact, 60) + Points(x.track, 18) + Degree(x.sec)
                 + Degree(x.spt) + 3 * x.geom
            ELSE Points(x.exact, 55) + 12 * x.geom, -50, 100)

\* make_candidate's physical_score; a wrong size counts against a raw image.
PhysicalScore(f) ==
  LET x == image.fact[f]
  IN  Clamp(IF image.imd
            THEN Points(x.exact, 60) + Points(x.track, 18) + Degree(x.sec)
                 + Degree(x.spt) + 3 * x.geom
            ELSE Points(x.exact, 55) - Points(~x.exact /\ x.sized, 25)
                 + 12 * x.geom, -50, 100)

\* rank_candidates: by tier, then score, then name.
Before(x, y, f, g) ==
  \/ x.tier < y.tier
  \/ x.tier = y.tier /\ x.score > y.score
  \/ x.tier = y.tier /\ x.score = y.score /\ Alphabet[f] < Alphabet[g]

Ranking ==
  LET c == [f \in Formats |-> [tier |-> PriorityTier(f), score |-> PhysicalScore(f)]]
  IN  [f \in Formats |->
         [tier  |-> c[f].tier, score |-> c[f].score,
          place |-> 1 + Cardinality({g \in Formats : Before(c[g], c[f], g, f)})]]

Tier(f)     == ranked[f].tier
Physical(f) == ranked[f].score
Rank(f)     == ranked[f].place
Ranked(i) == CHOOSE f \in Formats : Rank(f) = i
Count == Cardinality(Formats)

------------------------------------------------------------------------------
\* BATCHES

\* The end of the tier that the next candidate belongs to.
TierEnd == Cardinality({f \in Formats : Tier(f) <= Tier(Ranked(attempted + 1))})

\* The last candidate of the current batch.
BatchEnd == Smallest({TierEnd, attempted + BatchSize, Budget})

Batch == {f \in Formats : Rank(f) \in (attempted + 1)..BatchEnd}

\* Results of a probe.
NoResult == [state |-> "untested", score |-> -1, files |-> 0]
Outcome(s, n, k) == [state |-> s, score |-> n, files |-> k]

States == {"untested", "mounted", "rejected", "timeout", "crashed", "helper_error"}

Absent == [kind |-> "absent"]
Accepted(f) == [kind |-> "answer", mounted |-> TRUE, files |-> image.fact[f].files]
Rejected == [kind |-> "answer", mounted |-> FALSE, files |-> 0]

TypeOK ==
  /\ image \in Images
  /\ ranked \in [Formats -> [tier: 0..6, score: -50..100, place: 1..Count]]
  /\ phase \in {"start", "launch", "wait", "collect", "done"}
  /\ attempted \in 0..Count
  /\ launched \in attempted..Count
  /\ tierMounted \in BOOLEAN
  /\ proc \in [Formats -> {"none", "working", "answered", "exit", "failed"}]
  /\ running \in [Formats -> BOOLEAN]
  /\ output \in [Formats -> Outputs \cup {NoOutput}]
  /\ files \in [Outputs -> {Absent, Rejected} \cup {Accepted(f) : f \in Formats}]
  /\ \A f \in Formats : /\ result[f].state \in States
                        /\ result[f].score \in -1..100
  /\ selected \subseteq Formats /\ Cardinality(selected) <= 1

Init ==
  /\ image \in Images
  /\ ranked = Ranking
  /\ phase = "start"
  /\ attempted = 0
  /\ launched = 0
  /\ tierMounted = FALSE
  /\ proc = [f \in Formats |-> "none"]
  /\ running = [f \in Formats |-> FALSE]
  /\ output = [f \in Formats |-> NoOutput]
  /\ files = [n \in Outputs |-> Absent]
  /\ result = [f \in Formats |-> NoResult]
  /\ selected = {}

\* The helper executable is missing, or there are no definitions.
NoProbing ==
  /\ phase = "start"
  /\ Trouble \/ Formats = {}
  /\ phase' = "done"
  /\ UNCHANGED <<image, ranked, attempted, launched, tierMounted, proc, running,
                 output, files, result, selected>>

Begin ==
  /\ phase = "start"
  /\ Formats # {}
  /\ phase' = "launch"
  /\ UNCHANGED <<image, ranked, attempted, launched, tierMounted, proc, running,
                 output, files, result, selected>>

\* The next candidate of the batch.
Current == Ranked(launched + 1)

AfterLaunch == IF launched + 1 = BatchEnd THEN "wait" ELSE "launch"

FreeOutput_MUT_NotThere(n) == files[n] = Absent
\* GetTempFileName returns a name no file has; that it does not return one it
\* gave to another helper of the batch, whose file the client deleted again, is
\* Windows's way of counting these names up.
FreeOutput(n) == files[n] = Absent /\ \A f \in Batch : output[f] # n

\* launch_probe
Launch ==
  /\ phase = "launch"
  /\ \E n \in Outputs :
       /\ FreeOutput(n)
       /\ output' = [output EXCEPT ![Current] = n]
  /\ proc' = [proc EXCEPT ![Current] = "working"]
  /\ running' = [running EXCEPT ![Current] = TRUE]
  /\ launched' = launched + 1
  /\ phase' = AfterLaunch
  /\ UNCHANGED <<image, ranked, attempted, tierMounted, files, result, selected>>

\* launch_probe without an output name or without a process.
LaunchFails ==
  /\ phase = "launch"
  /\ Trouble
  /\ result' = [result EXCEPT ![Current] =
                  Outcome("helper_error", Clamp(Physical(Current), 0, 70), 0)]
  /\ launched' = launched + 1
  /\ phase' = AfterLaunch
  /\ UNCHANGED <<image, ranked, attempted, tierMounted, proc, running, output, files, selected>>

------------------------------------------------------------------------------
\* THE HELPERS

\* f's helper ends its work with an answer in its output file.
Answers(f, a) ==
  /\ proc[f] = "working"
  /\ proc' = [proc EXCEPT ![f] = "answered"]
  /\ files' = [files EXCEPT ![output[f]] = a]
  /\ UNCHANGED <<image, ranked, phase, attempted, launched, tierMounted, running,
                 output, result, selected>>

\* Mount and analyse.
HelperAccepts(f) == image.fact[f].mounts /\ Answers(f, Accepted(f))

\* The format does not mount, or the image could not be opened; and whether
\* that answer could be written makes no difference to the exit code.
HelperRejects(f) ==
  /\ Trouble \/ ~image.fact[f].mounts
  /\ Answers(f, Rejected) \/ (Trouble /\ Answers(f, Absent))

HelperExits(f) ==
  /\ proc[f] = "answered"
  /\ proc' = [proc EXCEPT ![f] = "exit"]
  /\ UNCHANGED <<image, ranked, phase, attempted, launched, tierMounted, running,
                 output, files, result, selected>>

\* A crash at any point, or an acceptance that could not be written (exit
\* code 3).
HelperFails(f) ==
  /\ Trouble
  /\ proc[f] \in {"working", "answered"}
  /\ proc' = [proc EXCEPT ![f] = "failed"]
  /\ UNCHANGED <<image, ranked, phase, attempted, launched, tierMounted, running,
                 output, files, result, selected>>

Helper ==
  \E f \in Formats :
    HelperAccepts(f) \/ HelperRejects(f) \/ HelperExits(f) \/ HelperFails(f)

------------------------------------------------------------------------------
\* THE CLIENT

\* WaitForSingleObject finds one of the helpers ended.
Poll(f) ==
  /\ phase = "wait"
  /\ running[f]
  /\ proc[f] \in {"exit", "failed"}
  /\ running' = [running EXCEPT ![f] = FALSE]
  /\ UNCHANGED <<image, ranked, phase, attempted, launched, tierMounted, proc, output,
                 files, result, selected>>

DeadlinePassed_MUT_Never == FALSE
DeadlinePassed == Trouble

\* All have ended, or the batch's time is over.
StopWaiting ==
  /\ phase = "wait"
  /\ (\A f \in Batch : ~running[f]) \/ DeadlinePassed
  /\ phase' = "collect"
  /\ UNCHANGED <<image, ranked, attempted, launched, tierMounted, proc, running,
                 output, files, result, selected>>

MountScore_MUT_Unclamped(f, n) == 55 + Physical(f) + Smallest({n, 10})
\* The score of a mounted candidate.
MountScore(f, n) == Clamp(55 + Physical(f) + Smallest({n, 10}), 0, 100)

Failed(s, f) == Outcome(s, Clamp(Physical(f) \div 4, 0, 30), 0)

\* What run_probe_batch and parse_probe_output make of f's helper.  A helper
\* not seen to end is terminated, even if it has ended since.
Verdict(f) ==
  IF running[f] THEN Failed("timeout", f)
  ELSE IF proc[f] = "failed" THEN Failed("crashed", f)
  ELSE LET a == files[output[f]]
       IN  IF a = Absent THEN Outcome("crashed", Clamp(Physical(f), 0, 70), 0)
           ELSE IF a.mounted
                THEN Outcome("mounted", MountScore(f, a.files), a.files)
                ELSE Outcome("rejected", Clamp(Physical(f) \div 2, 0, 50), 0)

Deleted_MUT_KeepAfterTimeout(f) ==
  IF running[f] THEN files ELSE [files EXCEPT ![output[f]] = Absent]
Deleted(f) == [files EXCEPT ![output[f]] = Absent]

\* The first helper of the batch whose result is not collected yet.
Collect(f) ==
  /\ phase = "collect"
  /\ f \in Batch
  /\ output[f] # NoOutput
  /\ \A g \in Batch : output[g] # NoOutput => Rank(f) <= Rank(g)
  /\ result' = [result EXCEPT ![f] = Verdict(f)]
  /\ files' = Deleted(f)
  /\ proc' = [proc EXCEPT ![f] = "none"]
  /\ running' = [running EXCEPT ![f] = FALSE]
  /\ output' = [output EXCEPT ![f] = NoOutput]
  /\ UNCHANGED <<image, ranked, phase, attempted, launched, tierMounted, selected>>

Mounted == {f \in Formats : result[f].state = "mounted"}

\* The best mounted candidate, if it is good enough and clearly ahead.
Selection_MUT_NoMargin ==
  {f \in Mounted :
     /\ result[f].score >= 70
     /\ \A g \in Mounted \ {f} :
          \/ result[f].score > result[g].score
          \/ result[f].score = result[g].score /\ Alphabet[f] < Alphabet[g]}
Selection ==
  {f \in Mounted :
     /\ result[f].score >= 70
     /\ \A g \in Mounted \ {f} : result[f].score - result[g].score >= 20}

TierDone_MUT_FirstMount(m) == m \/ BatchEnd = TierEnd
TierDone(m) == BatchEnd = TierEnd

\* The end of a batch: the next one of the tier, the next tier, or the report.
EndBatch ==
  /\ phase = "collect"
  /\ \A f \in Batch : output[f] = NoOutput
  /\ attempted' = BatchEnd
  /\ LET m == tierMounted \/ Mounted \cap Batch # {}
     IN  IF BatchEnd = Budget \/ BatchEnd = Count \/ (m /\ TierDone(m))
         THEN phase' = "done" /\ selected' = Selection /\ tierMounted' = m
         ELSE phase' = "launch" /\ UNCHANGED selected
              /\ tierMounted' = (m /\ ~TierDone(m))
  /\ UNCHANGED <<image, ranked, launched, proc, running, output, files, result>>

Client ==
  \/ NoProbing \/ Begin \/ Launch \/ LaunchFails
  \/ \E f \in Formats : Poll(f) \/ Collect(f)
  \/ StopWaiting \/ EndBatch

Next == Client \/ Helper

Spec == Init /\ [][Next]_vars

\* The client is a loop that runs on.  Nothing is assumed of helpers that may
\* fail; those that may not do answer.
FairSpec == Spec /\ WF_vars(Client) /\ WF_vars(~Trouble /\ Helper)

------------------------------------------------------------------------------
\* SAFETY

\* The report says of no definition that it mounts the image unless that is so:
\* an answer is never taken for another helper's.
ReportTruthful ==
  \A f \in Formats :
    result[f].state = "mounted" =>
      image.fact[f].mounts /\ result[f].files = image.fact[f].files

\* "Lower-priority tiers are reached only when no format in a better tier
\* mounts successfully.  All candidates from the successful tier are still
\* checked", as far as the budget goes.
TiersInOrder ==
  /\ \A f, g \in Formats :
       result[g].state # "untested" /\ Tier(f) < Tier(g) =>
         result[f].state \notin {"untested", "mounted"}
  /\ phase = "done" /\ Mounted # {} =>
       \A f \in Formats :
         Tier(f) = Smallest({Tier(g) : g \in Mounted}) /\ Rank(f) <= Budget =>
           result[f].state # "untested"

\* No helper outlives the call or leaves its output file behind, also none that
\* crashed, hung or answered after the deadline.
NothingLeft ==
  phase = "done" => /\ \A n \in Outputs : files[n] = Absent
                    /\ \A f \in Formats : proc[f] = "none"

\* A format is never selected on the strength of its directory alone: an IMD
\* image must show a layout property of it, on a raw image the sizes must
\* agree or all of the geometry, or part of it if there are no sizes to compare.
SelectionHasEvidence ==
  \A f \in selected :
    LET x == image.fact[f]
    IN  IF image.imd
        THEN x.exact \/ x.track \/ x.geom > 0 \/ {x.sec, x.spt} # {"none"}
        ELSE x.exact \/ x.geom = 3 \/ (~x.sized /\ x.geom > 0)

\* What the search should select, said of the image alone: of the candidates
\* within the budget that mount, those in the best tier count, and one of them
\* is selected if it scores 70 or more and leads by 20.
Mountable == {f \in Formats : Rank(f) <= Budget /\ image.fact[f].mounts}
Rivals == {f \in Mountable : \A g \in Mountable : Tier(f) <= Tier(g)}
Score(f) == MountScore(f, image.fact[f].files)
Expected == {f \in Rivals : /\ Score(f) >= 70
                            /\ \A g \in Rivals \ {f} : Score(f) - Score(g) >= 20}

\* f was not tested, or its helper neither failed nor came too late.
Undisturbed(f) ==
  \/ result[f].state \in {"untested", "mounted"}
  \/ result[f].state = "rejected" /\ ~image.fact[f].mounts

\* If no helper failed or came too late, the batches, the tiers and the order in
\* which helpers finished made no difference to the selection.
SelectionAsExpected ==
  phase = "done" /\ attempted > 0 /\ (\A f \in Formats : Undisturbed(f)) =>
    selected = Expected

\* LIVENESS

\* Probing ends, whatever the helpers do.
ProbingEnds == <>(phase = "done")

==============================================================================
