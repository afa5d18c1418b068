------------------------------ MODULE Previews ------------------------------
(***************************************************************************)
(* Previews of a carpet in a customer's room: the request (ai.controller.ts)*)
(* that looks for an earlier preview of the same parameters, counts against *)
(* a daily limit and creates a row, and the job behind it                   *)
(* (preview-queue.processor.ts), which runs from a Redis queue or, once     *)
(* Redis has failed, in the process of the request.                         *)
(***************************************************************************)
EXTENDS Naturals, FiniteSets

CONSTANTS Key,       \* cacheKey: a room, a carpet, a size and a rotation
          Asker,     \* requests of one user that run at the same time
          Limit,     \* daily limit of the user
          Attempts,  \* attempts of a queued job
          MaxDeaths  \* bound: restarts of the process

ASSUME PreviewAssumption == Limit \in Nat /\ Attempts \in Nat \ {0} /\ MaxDeaths \in Nat

VARIABLES preview,  \* ai_room_previews: status of the row of each key
          job,      \* the job of each row: where it is, and its attempts
          asker,    \* what each request is about to do
          enabled,  \* isQueueEnabled
          deaths,   \* history: restarts
          seen      \* history: keys whose result was there to be shown

previewVars == <<preview, job, asker, enabled, deaths, seen>>

NoJob == [at |-> "none", tried |-> 0, stalled |-> 0]
Resting == [kind |-> "none"]

PreviewInit ==
  /\ preview = [k \in Key |-> "none"]
  /\ job = [k \in Key |-> NoJob]
  /\ asker = [a \in Asker |-> Resting]
  /\ enabled \in BOOLEAN
  /\ deaths = 0 /\ seen = {}

Counting == {k \in Key : preview[k] \notin {"none", "FAILED"}}

----------------------------------------------------------------------------
\* createRoomPreview: no finished preview of this key, and the limit not reached.
AskPreview(a, k) ==
  /\ asker[a] = Resting
  /\ preview[k] # "COMPLETED" /\ Cardinality(Counting) < Limit
  /\ asker' = [asker EXCEPT ![a] = [kind |-> "create", key |-> k]]
  /\ UNCHANGED <<preview, job, enabled, deaths, seen>>

\* The row is created; a row of the same key, whatever its status, refuses it.
CreatePreview(a) ==
  LET k == asker[a].key IN
  /\ asker[a].kind = "create"
  /\ IF preview[k] = "none"
     THEN /\ preview' = [preview EXCEPT ![k] = "QUEUED"]
          /\ asker' = [asker EXCEPT ![a] = [kind |-> "add", key |-> k]]
     ELSE asker' = [asker EXCEPT ![a] = Resting] /\ UNCHANGED preview
  /\ UNCHANGED <<job, enabled, deaths, seen>>

Place(k, where) == job' = [job EXCEPT ![k].at = where]

\* Fault: without a queue the job is dropped.
AddIfEnabled(a) ==
  LET k == asker[a].key IN
  /\ asker[a].kind = "add"
  /\ IF enabled THEN Place(k, "queue") ELSE Place(k, "none")
  /\ asker' = [asker EXCEPT ![a] = Resting]
  /\ UNCHANGED <<preview, enabled, deaths, seen>>

\* addJob.  A queue that fails just now loses the job.
AddJob(a) ==
  LET k == asker[a].key IN
  /\ asker[a].kind = "add"
  /\ IF enabled THEN Place(k, "queue") \/ Place(k, "lost") ELSE Place(k, "process")
  /\ asker' = [asker EXCEPT ![a] = Resting]
  /\ UNCHANGED <<preview, enabled, deaths, seen>>

----------------------------------------------------------------------------
\* The worker takes one job at a time; jobs in the process all run.
Free(k) ==
  \/ job[k].at = "process"
  \/ enabled /\ job[k].at = "queue" /\ \A l \in Key : job[l].at # "worker"

\* processPreviewJob: the row becomes PROCESSING before anything is loaded.
StartPreview(k) ==
  /\ Free(k)
  /\ preview' = [preview EXCEPT ![k] = "PROCESSING"]
  /\ Place(k, IF job[k].at = "queue" THEN "worker" ELSE "running")
  /\ UNCHANGED <<asker, enabled, deaths, seen>>

Running(k) == job[k].at \in {"worker", "running"}

\* Fault: the message to the listeners throws once the row is written.
FinishThenThrow(k) ==
  /\ Running(k)
  /\ preview' = [preview EXCEPT ![k] = "COMPLETED"]
  /\ seen' = seen \cup {k}
  /\ job' = [job EXCEPT ![k].at = IF job[k].tried = 0 THEN "queue" ELSE "lost",
                        ![k].tried = IF @ = 0 THEN 1 ELSE @]
  /\ UNCHANGED <<asker, enabled, deaths>>

FinishPreview(k) ==
  /\ Running(k)
  /\ preview' = [preview EXCEPT ![k] = "COMPLETED"]
  /\ seen' = seen \cup {k}
  /\ Place(k, IF job[k].at = "worker" THEN "acked" ELSE "over")
  /\ UNCHANGED <<asker, enabled, deaths>>

\* Any error, of the image service or of a file, is caught: the job has
\* succeeded for the queue, which does not try again.
FailPreview(k) ==
  /\ Running(k)
  /\ preview' = [preview EXCEPT ![k] = "FAILED"]
  /\ Place(k, IF job[k].at = "worker" THEN "acked" ELSE "over")
  /\ UNCHANGED <<asker, enabled, deaths, seen>>

\* Only when FAILED cannot be written does the job throw: the queue tries it
\* again, a job of the process is lost.
ThrowPreview(k) ==
  /\ Running(k)
  /\ job' = [job EXCEPT ![k] =
       IF @.at = "running" THEN [@ EXCEPT !.at = "lost"]
       ELSE IF @.tried + 1 < Attempts
       THEN [@ EXCEPT !.at = "queue", !.tried = job[k].tried + 1]
       ELSE [@ EXCEPT !.at = "lost"]]
  /\ UNCHANGED <<preview, asker, enabled, deaths, seen>>

\* The queue hears that the job is done.
AckPreview(k) ==
  /\ job[k].at = "acked" /\ enabled
  /\ Place(k, "over")
  /\ UNCHANGED <<preview, asker, enabled, deaths, seen>>

\* Redis fails: for the rest of this process jobs run in it.
RedisFails ==
  /\ enabled /\ enabled' = FALSE
  /\ UNCHANGED <<preview, job, asker, deaths, seen>>

\* The process restarts: what it was running is lost, what a worker held is
\* delivered again, once.
RestartPreviews ==
  /\ deaths < MaxDeaths /\ deaths' = deaths + 1
  /\ enabled' \in BOOLEAN
  /\ asker' = [a \in Asker |-> Resting]
  /\ job' = [k \in Key |->
       LET j == job[k] IN
       IF j.at \in {"process", "running"} \/ \E a \in Asker : asker[a] = [kind |-> "add", key |-> k]
       THEN [j EXCEPT !.at = "lost"]
       ELSE IF j.at \in {"worker", "acked"}
       THEN [j EXCEPT !.at = IF j.stalled = 0 THEN "queue" ELSE "lost", !.stalled = 1]
       ELSE j]
  /\ UNCHANGED <<preview, seen>>

EndPreview(k) == FinishPreview(k) \/ FailPreview(k) \/ ThrowPreview(k)
JobStep(k) == StartPreview(k) \/ EndPreview(k) \/ AckPreview(k)

PreviewNext ==
  \/ \E a \in Asker, k \in Key : AskPreview(a, k)
  \/ \E a \in Asker : CreatePreview(a) \/ AddJob(a)
  \/ \E k \in Key : JobStep(k)
  \/ RedisFails \/ RestartPreviews

\* Requests go on, the image service answers or times out, the queue delivers.
PreviewFairness ==
  /\ \A a \in Asker : WF_previewVars(CreatePreview(a)) /\ WF_previewVars(AddJob(a))
  /\ \A k \in Key : WF_previewVars(StartPreview(k)) /\ WF_previewVars(EndPreview(k))
                    /\ WF_previewVars(AckPreview(k))

PreviewSpec == PreviewInit /\ [][PreviewNext]_previewVars /\ PreviewFairness
----------------------------------------------------------------------------
PreviewTypeOK ==
  /\ preview \in [Key -> {"none", "QUEUED", "PROCESSING", "COMPLETED", "FAILED"}]
  /\ \A k \in Key :
       /\ job[k].at \in {"none", "queue", "process", "worker", "running", "acked", "over", "lost"}
       /\ job[k].tried \in 0 .. Attempts - 1 /\ job[k].stalled \in {0, 1}
  /\ enabled \in BOOLEAN /\ deaths \in 0 .. MaxDeaths /\ seen \subseteq Key

\* A preview that was asked for ends with a picture or an error, in the queue or
\* without it, through retries, redeliveries and a failing Redis: unless its job
\* was lost with a process or a queue that died, or waits in a queue that is
\* cut off until the next start.
Ended(k) ==
  \/ preview[k] \in {"COMPLETED", "FAILED"}
  \/ job[k].at = "lost"
  \/ ~enabled /\ job[k].at = "queue"

PreviewEnds == \A k \in Key : preview[k] = "QUEUED" ~> Ended(k)

\* A picture that could be shown is not replaced by an error, unless the process
\* died with the job unacknowledged and it ran a second time.
ResultStays ==
  \A k \in seen : preview[k] # "COMPLETED" => job[k].stalled = 1
=============================================================================
