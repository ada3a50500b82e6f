--------------------------- MODULE BackgroundJobs ---------------------------
(***************************************************************************)
(* Work done behind an answered request: services/task_queue.py, the video  *)
(* extraction of services/evidence_video.py, the contract report of         *)
(* services/contract_report.py and the endpoints that start and poll them.  *)
(*                                                                          *)
(* The event loop runs a handler or a task's own code without interruption; *)
(* an extraction runs in a worker thread beside it, file by file.  Tasks    *)
(* are kept in memory and files on disk, so a restart forgets the first and *)
(* keeps the second as they happen to be.                                   *)
(***************************************************************************)
EXTENDS Naturals, FiniteSets, SequencesExt

CONSTANTS
    Videos,           \* uploads that ask for an extraction
    Reviews,          \* requests for a contract report as a task
    Films,            \* what ffmpeg may extract: sequences of frames
    DEDUP_THRESHOLD,
    DEDUP_WINDOW,     \* kept[-20:]
    MAX_WORKERS,      \* threads of the loop's default executor
    MaxRestarts       \* restarts of the process (bound)

\* A frame is its difference hash, a set of bits, and which of the files with
\* that hash it is: two frames are equal exactly when their SHA-256 is.
AllFrames == UNION {ToSet(film) : film \in Films}

ASSUME JobsAssumption ==
    /\ Videos \cap Reviews = {}
    /\ Films \subseteq Seq(AllFrames)
    /\ \A film \in Films : \A i \in DOMAIN film : IsFiniteSet(film[i].bits)
    /\ DEDUP_THRESHOLD \in Nat
    /\ {DEDUP_WINDOW, MAX_WORKERS} \subseteq Nat \ {0}
    /\ MaxRestarts \in Nat

VARIABLES
    posted,     \* requests that were answered
    documents,  \* the uploaded contract: its file, and its row
    task,       \* _tasks, by request
    options,    \* the options of the request are valid
    report,     \* <evidence_id>/_report.json, or the report of a contract
    frames,     \* <evidence_id>/frames, in the order of the names' numbers
    thread,     \* where each extraction stands
    pending,    \* extracted frames not yet compared
    film,       \* all that was extracted; read by properties only
    restarts

vars == <<posted, documents, task, options, report, frames, thread, pending, film, restarts>>

Jobs == Videos \cup Reviews
Extracting == {"checking", "probing", "extracting", "copying", "writing"}
Over       == {"returned", "raised", "tools_missing"}
Unfinished == {"queued", "running"}

NoReport == [status |-> "missing", frames |-> <<>>]
Report(status) == [status |-> status, frames |-> <<>>]

Init ==
    /\ posted = {}
    /\ documents = {}
    /\ task = [j \in Jobs |-> "none"]
    /\ options = [v \in Videos |-> TRUE]
    /\ report = [j \in Jobs |-> NoReport]
    /\ frames = [v \in Videos |-> <<>>]
    /\ thread = [v \in Videos |-> "none"]
    /\ pending = [v \in Videos |-> <<>>]
    /\ film = [v \in Videos |-> <<>>]
    /\ restarts = MaxRestarts

-----------------------------------------------------------------------------
(* Requests.                                                                *)

\* submit_task
SubmitTask(j) == task' = [task EXCEPT ![j] = "queued"]

\* save_doc and load_doc: the row of the document.
SaveDoc(left) == left \cup {"row"}
LoadDoc == "row" \in documents

\* save_video_upload: its directory with the first report.
SaveVideoUpload(v) == report' = [report EXCEPT ![v] = Report("queued")]

\* upload: the file is written before it is parsed and removed when it cannot
\* be; the row comes last, and without it the file stays.
UploadDocument ==
    /\ documents = {}
    /\ \E left \in {{}, {"file"}, SaveDoc({"file"})} : documents' = left
    /\ UNCHANGED <<posted, task, options, report, frames, thread, pending, film, restarts>>

\* extract_video: a refused upload leaves nothing; the strategy is not looked
\* at here.
SubmitVideo(v) ==
    /\ v \notin posted
    /\ posted' = posted \cup {v}
    /\ \/ UNCHANGED <<task, options, report>>
       \/ /\ \E valid \in BOOLEAN : options' = [options EXCEPT ![v] = valid]
          /\ SaveVideoUpload(v)
          /\ SubmitTask(v)
    /\ UNCHANGED <<documents, frames, thread, pending, film, restarts>>

\* create_contract_report_task, and create_contract_report that does the work
\* at once; both answer 404 without the document's row.
SubmitReview(j) ==
    /\ j \notin posted
    /\ posted' = posted \cup {j}
    /\ \/ UNCHANGED <<task, report>>
       \/ /\ LoadDoc
          /\ \/ SubmitTask(j) /\ UNCHANGED report
             \/ report' = [report EXCEPT ![j] = Report("success")] /\ UNCHANGED task
    /\ UNCHANGED <<documents, options, frames, thread, pending, film, restarts>>

-----------------------------------------------------------------------------
(* Tasks, in the event loop.                                                *)

\* _run_task with the report's factory, which never waits.
RunReview(j) ==
    /\ task[j] = "queued"
    /\ \/ /\ report' = [report EXCEPT ![j] = Report("success")]
          /\ task' = [task EXCEPT ![j] = "success"]
       \/ /\ report' \in {report, [report EXCEPT ![j] = Report("torn")]}
          /\ task' = [task EXCEPT ![j] = "error"]
    /\ UNCHANGED <<posted, documents, options, frames, thread, pending, film, restarts>>

\* _run_task with the extraction's factory hands it to a thread.
RunVideo(v) ==
    /\ task[v] = "queued"
    /\ task' = [task EXCEPT ![v] = "running"]
    /\ thread' = [thread EXCEPT ![v] = "waiting"]
    /\ UNCHANGED <<posted, documents, options, report, frames, pending, film, restarts>>

\* The end of the thread comes back to the factory and to _run_task.
SucceedWithoutReport(v) ==  \* variant: missing tools are a result and no report
    task' = [task EXCEPT ![v] = IF thread[v] = "raised" THEN "error" ELSE "success"] /\ UNCHANGED report
SettleUncaught(v) ==  \* variant: an exception ends _run_task
    IF thread[v] = "returned" THEN task' = [task EXCEPT ![v] = "success"] /\ UNCHANGED report
    ELSE UNCHANGED <<task, report>>
Settle(v) ==
    \/ /\ thread[v] = "returned"
       /\ task' = [task EXCEPT ![v] = "success"]
       /\ UNCHANGED report
    \/ /\ thread[v] = "raised"
       /\ task' = [task EXCEPT ![v] = "error"]
       /\ UNCHANGED report
    \/ /\ thread[v] = "tools_missing"
       /\ \/ /\ task' = [task EXCEPT ![v] = "success"]
             /\ report' = [report EXCEPT ![v] = Report("dependency_missing")]
          \/ /\ task' = [task EXCEPT ![v] = "error"]
             /\ report' = [report EXCEPT ![v] = Report("torn")]

CollectVideo(v) ==
    /\ task[v] = "running" /\ thread[v] \in Over
    /\ Settle(v)
    /\ thread' = [thread EXCEPT ![v] = "none"]
    /\ UNCHANGED <<posted, documents, options, frames, pending, film, restarts>>

-----------------------------------------------------------------------------
(* extract_video_evidence, in its thread.                                   *)

GoTo(v, place) == thread' = [thread EXCEPT ![v] = place]

\* Any step may raise: no such file, a full disk, a tool that fails or does
\* not end in its time, a frame that is no image.
Raise(v) ==
    /\ thread[v] \in Extracting
    /\ GoTo(v, "raised")
    /\ UNCHANGED <<posted, documents, task, options, report, frames, pending, film, restarts>>

TakeWorker(v) ==
    /\ thread[v] = "waiting"
    /\ Cardinality({u \in Videos : thread[u] \in Extracting}) < MAX_WORKERS
    /\ GoTo(v, "checking")
    /\ UNCHANGED <<posted, documents, task, options, report, frames, pending, film, restarts>>

\* _clean_frames: what an earlier run left is removed.
CleanFrames(v) == frames' = [frames EXCEPT ![v] = <<>>]

\* _validate_options before _find_tool; then _clean_frames.
Check(v) ==
    /\ thread[v] = "checking"
    /\ \/ ~options[v] /\ GoTo(v, "raised") /\ UNCHANGED frames
       \/ options[v] /\ GoTo(v, "tools_missing") /\ UNCHANGED frames
       \/ options[v] /\ GoTo(v, "probing") /\ CleanFrames(v)
    /\ UNCHANGED <<posted, documents, task, options, report, pending, film, restarts>>

\* _probe_video
Probe(v) ==
    /\ thread[v] = "probing"
    /\ GoTo(v, "extracting")
    /\ UNCHANGED <<posted, documents, task, options, report, frames, pending, film, restarts>>

\* Variant: the extracted files as the directory lists them.
ExtractUnsorted(v) ==
    /\ thread[v] = "extracting"
    /\ \E f \in Films : pending' = [pending EXCEPT ![v] = Reverse(f)] /\ film' = [film EXCEPT ![v] = f]
    /\ GoTo(v, "copying")
    /\ UNCHANGED <<posted, documents, task, options, report, frames, restarts>>

\* _run_ffmpeg_extract into a temporary directory: the files by their numbers
Extract(v) ==
    /\ thread[v] = "extracting"
    /\ \E f \in Films : pending' = [pending EXCEPT ![v] = f] /\ film' = [film EXCEPT ![v] = f]
    /\ GoTo(v, "copying")
    /\ UNCHANGED <<posted, documents, task, options, report, frames, restarts>>

\* (int(a) ^ int(b)).bit_count()
Distance(f, g) == Cardinality((f.bits \ g.bits) \cup (g.bits \ f.bits))

\* kept[-20:]
WindowOfFirst(kept) == SubSeq(kept, 1, IF Len(kept) < DEDUP_WINDOW THEN Len(kept) ELSE DEDUP_WINDOW)  \* variant
RecentlyKept(kept) ==
    SubSeq(kept, IF Len(kept) > DEDUP_WINDOW THEN Len(kept) - DEDUP_WINDOW + 1 ELSE 1, Len(kept))

IsDhashDuplicate(f, kept) ==
    /\ DEDUP_THRESHOLD > 0
    /\ \E g \in ToSet(RecentlyKept(kept)) : Distance(f, g) <= DEDUP_THRESHOLD

\* One turn of the loop in _deduplicate_and_copy.
DeduplicateAndCopy(v) ==
    /\ thread[v] = "copying" /\ pending[v] # <<>>
    /\ LET f == Head(pending[v]) IN
       frames' = [frames EXCEPT ![v] =
                    IF f \in ToSet(@) \/ IsDhashDuplicate(f, @) THEN @ ELSE Append(@, f)]
    /\ pending' = [pending EXCEPT ![v] = Tail(@)]
    /\ UNCHANGED <<posted, documents, task, options, report, thread, film, restarts>>

\* _write_report truncates the file and then fills it.
TruncateReport(v) ==
    /\ thread[v] = "copying" /\ pending[v] = <<>>
    /\ report' = [report EXCEPT ![v] = Report("torn")]
    /\ GoTo(v, "writing")
    /\ UNCHANGED <<posted, documents, task, options, frames, pending, film, restarts>>

FillReport(v) ==
    /\ thread[v] = "writing"
    /\ report' = [report EXCEPT ![v] = [status |-> "success", frames |-> frames[v]]]
    /\ GoTo(v, "returned")
    /\ UNCHANGED <<posted, documents, task, options, frames, pending, film, restarts>>

-----------------------------------------------------------------------------
(* The process dies, perhaps inside an upload, and starts again.            *)

Restart ==
    /\ restarts > 0
    /\ restarts' = restarts - 1
    /\ task' = [j \in Jobs |-> "none"]
    /\ thread' = [v \in Videos |-> "none"]
    /\ pending' = [v \in Videos |-> <<>>]
    /\ \/ UNCHANGED <<posted, report>>
       \/ \E v \in Videos \ posted :
            /\ posted' = posted \cup {v}
            /\ report' \in {report, [report EXCEPT ![v] = Report("torn")],
                                    [report EXCEPT ![v] = Report("queued")]}
    /\ UNCHANGED <<documents, options, frames, film>>

Thread(v) ==
    \/ TakeWorker(v) \/ Check(v) \/ Probe(v) \/ Extract(v)
    \/ DeduplicateAndCopy(v) \/ TruncateReport(v) \/ FillReport(v)

Next ==
    \/ UploadDocument
    \/ \E v \in Videos : SubmitVideo(v) \/ RunVideo(v) \/ CollectVideo(v) \/ Raise(v) \/ Thread(v)
    \/ \E j \in Reviews : SubmitReview(j) \/ RunReview(j)
    \/ Restart

\* The loop serves every task that can go on, and every wait of a thread for
\* ffprobe or ffmpeg has a timeout.
Fairness ==
    /\ \A v \in Videos : WF_vars(RunVideo(v)) /\ WF_vars(CollectVideo(v))
    /\ \A v \in Videos : WF_vars(Thread(v) \/ Raise(v))
    /\ \A j \in Reviews : WF_vars(RunReview(j))

Spec == Init /\ [][Next]_vars
FairSpec == Spec /\ Fairness

-----------------------------------------------------------------------------
(* What the readers are told.                                               *)

\* get_task_status: 404 for a task the process does not know.
TaskReply(j) == task[j]

\* load_evidence_report and download_report: a file cut off in the middle is
\* not JSON, which the evidence endpoint answers with 400.
ReportReply(j) ==
    IF report[j].status = "torn" /\ j \in Videos THEN "bad_request" ELSE report[j].status

\* download_evidence_file
FileReply(v, f) == f \in ToSet(frames[v])

-----------------------------------------------------------------------------
(* Properties.                                                              *)

\* A task polled to success has its report, for as long as the process knows
\* the task: whole, one of the two results a success can have, and with every
\* frame it names on disk.  (A failed or forgotten task says nothing of the
\* report, which may stay queued.)
SuccessIsServed ==
    \A j \in Jobs : TaskReply(j) = "success" =>
        /\ ReportReply(j) \in (IF j \in Videos THEN {"success", "dependency_missing"} ELSE {"success"})
        /\ j \in Videos => \A f \in ToSet(report[j].frames) : FileReply(j, f)

\* The frames kept are what the deduplication promises: in the film's order, no
\* file twice, none that resembles one of the last kept before it, and every
\* frame dropped has such a frame to stand for it in the report.
InOrderOf(all, kept) ==
    \E at \in [DOMAIN kept -> DOMAIN all] :
        /\ \A i \in DOMAIN kept : kept[i] = all[at[i]]
        /\ \A i, k \in DOMAIN kept : k < i => at[k] < at[i]
Resembles(f, g) == f = g \/ (DEDUP_THRESHOLD > 0 /\ Distance(f, g) <= DEDUP_THRESHOLD)
KeptFramesStandForAll ==
    \A v \in Videos : report[v].status = "success" =>
        LET kept == report[v].frames IN
        /\ InOrderOf(film[v], kept)
        /\ \A i, k \in DOMAIN kept : k < i =>
             /\ kept[i] # kept[k]
             /\ i - k <= DEDUP_WINDOW => ~Resembles(kept[i], kept[k])
        /\ \A f \in ToSet(film[v]) : \E g \in ToSet(kept) : Resembles(f, g)

\* Every task ends, however the tools fail and however many uploads wait for a
\* worker; only a restart takes it away.
TasksEnd == \A j \in Jobs : task[j] \in Unfinished ~> task[j] \notin Unfinished
=============================================================================
