-------------------------- MODULE ArtifactService --------------------------
(***************************************************************************)
(* An artifact from the client that uploads it to the worker that runs it:  *)
(* chunked uploads and the blob store (zdx_artifacts.py,                    *)
(* zdx_artifacts_core.py), the handlers that bind it to a task, lease the   *)
(* task and grant it (zdx_server_core.py, zdx_server_chunked.py), and the   *)
(* worker's loop with its resumable download (zdx_worker_core.py,           *)
(* zdx_worker.py).  The queue itself is ComputeQueue's subject; here it is  *)
(* the state of one task.                                                   *)
(*                                                                          *)
(* The artifact is a sequence of chunks; a digest is the content it names.  *)
(* Upload sessions are files that are read, changed and rewritten without a *)
(* lock; server and worker may die between any two steps.                   *)
(***************************************************************************)
EXTENDS Naturals, Sequences, FiniteSets

CONSTANTS Artifact,     \* the content of the task's artifact, a sequence of chunks
          Uploads,      \* upload sessions that may be begun
          Putters,      \* threads inside put_chunk
          ChunkData,    \* data a client sends in one chunk
          MaxTries      \* max_attempts of the task

VARIABLES upload,    \* [session -> its files]: part, chunks of its metadata, which exist
          lapsed,    \* sessions past expires_at
          putting,   \* [thread -> its put_chunk under way]
          finishing, \* sessions between put_bytes and bind_task of finish_upload
          blobs,     \* blob files: <<digest, content>>
          bound,     \* the task is bound to the digest of the artifact
          submitting, \* compute_submit is between bind_task and submit
          task, tries,  \* state of the task in the queue, leases granted
          granting,  \* compute_poll is between claim and grant
          token,     \* the worker's grant: "none", "live", "expired"
          worker,    \* the step the worker is at
          got, meta, \* its .part file (<<>> when there is none) and whether .json is there
          offset,    \* its position in the artifact
          ran        \* contents executed

artifactVars == <<upload, lapsed, putting, finishing, blobs, bound, submitting, task, tries,
                  granting, token, worker, got, meta, offset, ran>>

transfer == <<upload, lapsed, putting, finishing>>
queue == <<submitting, task, tries, granting>>
download == <<token, worker, got, meta, offset, ran>>

Size == Len(Artifact)
Unopened == [part |-> <<>>, chunks |-> {}, file |-> FALSE, json |-> FALSE, used |-> FALSE]
NotPutting == [stage |-> "none", session |-> "none", chunks |-> {}, at |-> 0, data |-> <<>>]

ArtifactInit ==
  /\ upload = [u \in Uploads |-> Unopened]
  /\ lapsed = {} /\ finishing = {} /\ blobs = {}
  /\ putting = [k \in Putters |-> NotPutting]
  /\ bound = FALSE /\ submitting = FALSE /\ task = "none" /\ tries = 0 /\ granting = FALSE
  /\ token = "none" /\ worker = "idle" /\ got = <<>> /\ meta = FALSE /\ offset = 0
  /\ ran = {}

-----------------------------------------------------------------------------
(* Uploads.                                                                 *)

BeginUpload(u) ==
  /\ ~upload[u].used
  /\ upload' = [upload EXCEPT ![u] = [part |-> [i \in 1..Size |-> 0], chunks |-> {},
                                      file |-> TRUE, json |-> TRUE, used |-> TRUE]]
  /\ UNCHANGED <<lapsed, putting, finishing, blobs, bound, queue, download>>

\* _write_session: the metadata file is there again, with these chunks
WriteSession(u, chunks) == [upload EXCEPT ![u].json = TRUE, ![u].chunks = chunks]

Discarded(u) == [upload EXCEPT ![u].file = FALSE, ![u].json = FALSE]

\* _load_session finds the session
Loads(u) == upload[u].file /\ upload[u].json /\ u \notin lapsed

\* a session that is past its time is discarded by whoever loads it, or by
\* cleanup_expired
DiscardExpired(u) ==
  /\ u \in lapsed /\ (upload[u].file \/ upload[u].json)
  /\ upload' = Discarded(u)
  /\ UNCHANGED <<lapsed, putting, finishing, blobs, bound, queue, download>>

\* put_chunk: the metadata is read and the chunk checked ...
PutLoad(k, u, at, data) ==
  /\ putting[k].stage = "none" /\ Loads(u)
  /\ at + Len(data) <= Size
  /\ putting' = [putting EXCEPT ![k] = [stage |-> "write", session |-> u,
                                        chunks |-> upload[u].chunks, at |-> at, data |-> data]]
  /\ UNCHANGED <<upload, lapsed, finishing, blobs, bound, queue, download>>

\* ... the data goes to the part file, if it is still there ...
PutWrite(k) ==
  LET p == putting[k]
  IN /\ p.stage = "write"
     /\ IF upload[p.session].file
        THEN /\ upload' = [upload EXCEPT ![p.session].part =
                  [i \in 1..Size |-> IF i \in p.at + 1 .. p.at + Len(p.data)
                                     THEN p.data[i - p.at] ELSE @[i]]]
             /\ putting' = [putting EXCEPT ![k].stage = "store"]
        ELSE /\ putting' = [putting EXCEPT ![k] = NotPutting]
             /\ UNCHANGED upload
     /\ UNCHANGED <<lapsed, finishing, blobs, bound, queue, download>>

\* ... and the metadata read at first is written back with the chunk added
PutStore(k) ==
  LET p == putting[k]
  IN /\ p.stage = "store"
     /\ upload' = WriteSession(p.session, {c \in p.chunks : c[1] # p.at}
                                            \cup {<<p.at, Len(p.data)>>})
     /\ putting' = [putting EXCEPT ![k] = NotPutting]
     /\ UNCHANGED <<lapsed, finishing, blobs, bound, queue, download>>

\* the chunks of the metadata follow one another from 0 to the size
Contiguous(chunks) ==
  /\ chunks # {}
  /\ \A c \in chunks : /\ c[1] = 0 \/ \E d \in chunks : d[1] + d[2] = c[1]
                       /\ c[1] + c[2] = Size \/ \E d \in chunks : c[1] + c[2] = d[1]
  /\ \A c, d \in chunks : c # d => c[1] + c[2] <= d[1] \/ d[1] + d[2] <= c[1]

\* put_bytes under the artifact's digest; a blob that is there is left alone
PutBytes(content) ==
  IF \E b \in blobs : b[1] = Artifact THEN blobs ELSE blobs \cup {<<Artifact, content>>}

\* Mutant: the chunk digests are taken to be enough
FinishUnchecked(u) ==
  /\ Loads(u) /\ u \notin finishing
  /\ Contiguous(upload[u].chunks)
  /\ blobs' = PutBytes(upload[u].part)
  /\ finishing' = finishing \cup {u}
  /\ UNCHANGED <<upload, lapsed, putting, bound, queue, download>>

\* finish_upload: the part file is digested, and stored if it is the artifact
FinishUpload(u) ==
  /\ Loads(u) /\ u \notin finishing
  /\ Contiguous(upload[u].chunks)
  /\ IF upload[u].part = Artifact
     THEN /\ blobs' = PutBytes(upload[u].part)
          /\ finishing' = finishing \cup {u}
          /\ UNCHANGED upload
     ELSE /\ upload' = Discarded(u)
          /\ UNCHANGED <<blobs, finishing>>
  /\ UNCHANGED <<lapsed, putting, bound, queue, download>>

\* ... bound to its task, and the session discarded
BindUpload(u) ==
  /\ u \in finishing
  /\ bound' = TRUE
  /\ finishing' = finishing \ {u}
  /\ upload' = Discarded(u)
  /\ UNCHANGED <<lapsed, putting, blobs, queue, download>>

\* artifact_put: the whole content in one message
ArtifactPut ==
  /\ blobs' = PutBytes(Artifact)
  /\ UNCHANGED <<transfer, bound, queue, download>>

-----------------------------------------------------------------------------
(* The task.                                                                *)

Stored == \E b \in blobs : b[1] = Artifact

\* compute_submit: bind_task, which wants the blob ...
SubmitBind ==
  /\ ~submitting /\ Stored
  /\ bound' = TRUE
  /\ submitting' = TRUE
  /\ UNCHANGED <<transfer, blobs, task, tries, granting, download>>

\* ... then submit, which refuses a task it knows
SubmitQueue ==
  /\ submitting
  /\ submitting' = FALSE
  /\ task' = IF task = "none" THEN "queued" ELSE task
  /\ UNCHANGED <<transfer, blobs, bound, tries, granting, download>>

\* where a lease that ends without an outcome leaves the task
Returned == IF tries < MaxTries THEN "queued" ELSE "failed"

\* an outcome or a release is taken only while the lease stands
Told(answer) == IF task = "running" THEN answer ELSE task

\* run_once of an admitted worker polls: claim ...
PollClaim ==
  /\ worker = "idle" /\ task = "queued" /\ ~granting
  /\ task' = "running" /\ tries' = tries + 1
  /\ granting' = TRUE
  /\ UNCHANGED <<transfer, blobs, bound, submitting, download>>

\* ... then grant; the worker runs the task, or releases it if its own policy
\* refuses it
PollGrant ==
  /\ granting /\ bound
  /\ granting' = FALSE
  /\ \/ /\ worker' = "resume" /\ token' = "live"
        /\ UNCHANGED task
     \/ /\ task' = Told(Returned)
        /\ UNCHANGED <<worker, token>>
  /\ UNCHANGED <<transfer, blobs, bound, submitting, tries, got, meta, offset, ran>>

LeaseExpires ==
  /\ task = "running"
  /\ task' = Returned
  /\ UNCHANGED <<transfer, blobs, bound, submitting, tries, granting, download>>

-----------------------------------------------------------------------------
(* The worker's download.                                                   *)

\* files left by an earlier run are used if the part has the size the metadata
\* tells and deleted otherwise; a part without metadata is left alone
Resume ==
  /\ worker = "resume"
  /\ worker' = "begin"
  /\ IF meta /\ Len(got) = Size
     THEN offset' = Len(got) /\ UNCHANGED <<got, meta>>
     ELSE /\ offset' = 0
          /\ got' = IF meta THEN <<>> ELSE got
          /\ meta' = FALSE
  /\ UNCHANGED <<transfer, blobs, bound, queue, token, ran>>

\* artifact_download_begin: a fresh grant, and the size
DownloadBegin ==
  /\ worker = "begin" /\ bound /\ Stored
  /\ token' = "live"
  /\ worker' = "fetch"
  /\ meta' = TRUE
  /\ IF offset > Size THEN got' = <<>> /\ offset' = 0 ELSE UNCHANGED <<got, offset>>
  /\ UNCHANGED <<transfer, blobs, bound, queue, ran>>

\* read_granted takes the worker's token
Granted == token = "live"

\* artifact_download_chunk: appended to the part file
DownloadChunk ==
  /\ worker = "fetch" /\ offset < Size /\ Granted
  /\ \E b \in blobs : got' = Append(got, b[2][offset + 1])
  /\ offset' = offset + 1
  /\ UNCHANGED <<transfer, blobs, bound, queue, token, worker, meta, ran>>

\* the connection is lost, by itself or because the server refused the grant
Reconnect ==
  /\ worker \in {"begin", "fetch"}
  /\ worker' = "begin"
  /\ offset' = Len(got)
  /\ UNCHANGED <<transfer, blobs, bound, queue, token, got, meta, ran>>

\* length and digest decide; a wrong file is thrown away and the task fails
Downloaded ==
  /\ worker = "fetch" /\ offset = Size
  /\ meta' = FALSE
  /\ IF got = Artifact
     THEN worker' = "run" /\ UNCHANGED <<got, task>>
     ELSE worker' = "idle" /\ got' = <<>> /\ task' = Told("failed")
  /\ token' = "none" /\ offset' = 0
  /\ UNCHANGED <<transfer, blobs, bound, submitting, tries, granting, ran>>

\* execute_task, the part file removed, compute_result or, when it raised,
\* compute_fail; the message may be lost, which leaves the lease standing
RunTask ==
  /\ worker = "run"
  /\ ran' = ran \cup {got}
  /\ got' = <<>>
  /\ worker' = "idle"
  /\ \E outcome \in {"completed", "failed", "running"} : task' = Told(outcome)
  /\ UNCHANGED <<transfer, blobs, bound, submitting, tries, granting, token, meta, offset>>

-----------------------------------------------------------------------------
(* Time and crashes.                                                        *)

ExpireGrant ==
  /\ token = "live"
  /\ token' = "expired"
  /\ UNCHANGED <<transfer, blobs, bound, queue, worker, got, meta, offset, ran>>

ExpireUpload(u) ==
  /\ upload[u].used /\ u \notin lapsed
  /\ lapsed' = lapsed \cup {u}
  /\ UNCHANGED <<upload, putting, finishing, blobs, bound, queue, download>>

\* the server dies: the steps under way are gone, its files are not
ServerCrash ==
  /\ submitting \/ granting \/ finishing # {} \/ \E k \in Putters : putting[k] # NotPutting
  /\ submitting' = FALSE /\ granting' = FALSE /\ finishing' = {}
  /\ putting' = [k \in Putters |-> NotPutting]
  /\ UNCHANGED <<upload, lapsed, blobs, bound, task, tries, download>>

WorkerCrash ==
  /\ worker # "idle"
  /\ worker' = "idle" /\ token' = "none" /\ offset' = 0
  /\ UNCHANGED <<transfer, blobs, bound, queue, got, meta, ran>>

UploadNext ==
  \/ \E u \in Uploads : \/ BeginUpload(u) \/ DiscardExpired(u) \/ FinishUpload(u)
                        \/ BindUpload(u) \/ ExpireUpload(u)
                        \/ \E k \in Putters, at \in 0..Size - 1, data \in ChunkData :
                             PutLoad(k, u, at, data)
  \/ \E k \in Putters : PutWrite(k) \/ PutStore(k)

TaskNext ==
  \/ ArtifactPut \/ SubmitBind \/ SubmitQueue \/ PollClaim \/ PollGrant \/ LeaseExpires
  \/ ServerCrash

WorkerNext ==
  \/ Resume \/ DownloadBegin \/ DownloadChunk \/ Reconnect \/ Downloaded \/ RunTask
  \/ ExpireGrant \/ WorkerCrash

ArtifactNext == UploadNext \/ TaskNext \/ WorkerNext

-----------------------------------------------------------------------------
(* Properties.                                                              *)

(* A task that is queued or leased can always be served: its artifact is    *)
(* stored and bound to it, so that no poll leases a task and then fails to  *)
(* grant it.  A blob holds what its digest names and a worker only runs     *)
(* that, whatever concurrent, repeated or misplaced chunks, lost metadata,  *)
(* expired sessions and part files of dead workers contributed              *)
(* (finish_upload, compute_submit, compute_poll, _materialize_artifact).    *)
TaskCanBeServed ==
  /\ task \in {"queued", "running"} => bound /\ Stored
  /\ \A b \in blobs : b[1] = b[2]
  /\ ran \subseteq {Artifact}
=============================================================================
