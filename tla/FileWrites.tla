-------------------------------- MODULE FileWrites --------------------------------
(***************************************************************************)
(* The writes of the file tools to one path.  A client may update what is  *)
(* there, put something new there, hand over an attachment, or send a      *)
(* large file in chunks; other people write to the same path, requests get *)
(* lost on the way there, answers on the way back, and a client that got   *)
(* no answer sends its call again.                                         *)
(***************************************************************************)
EXTENDS Integers, Sequences, FiniteSets, SequencesExt

CONSTANTS
  Client,        \* clients; each has a file of its own to send, and an upload id
  Plan,          \* how a client cuts its file: the sizes of its chunks
  Does,          \* the tools a client uses
  MIN_UPLOAD_CHUNK_BYTES, HARD_UPLOAD_CHUNK_BYTES,
  MaxVersions,   \* bound of the versions that ever lie at the path
  None

VARIABLES
  file,          \* what lies at the path
  versions,      \* how many versions have lain there
  upload,        \* the upload folders at Nextcloud, by their client
  staging,       \* who holds _ATTACHMENT_STAGING_SEMAPHORE
  knows,         \* the etag a client read last
  pc, job,       \* the call of a client: where it stands, its chunk and etag
  replaced       \* history: what a tool has written over

vars == <<file, versions, upload, staging, knows, pc, job, replaced>>

FileWritesAssumption ==
  /\ Plan \in [Client -> Seq(Nat)]
  /\ Does \in [Client -> SUBSET {"update", "upload", "attachment", "binary"}]
  /\ {MIN_UPLOAD_CHUNK_BYTES, HARD_UPLOAD_CHUNK_BYTES, MaxVersions} \subseteq Nat
  /\ None \notin Client

Chunks(c) == 1..Len(Plan[c])
Total(c) == FoldSeq(LAMBDA a, b : a + b, 0, Plan[c])
NoFile == [etag |-> 0, by |-> None, how |-> None, parts |-> <<>>]
NoFolder == [there |-> FALSE, chunks |-> {}]
NoJob == [index |-> 0, etag |-> 0]
Stages == {"idle", "stat", "match", "new", "wait", "staging", "mkcol", "chunk", "move"}

TypeOK ==
  /\ versions \in 0..MaxVersions /\ file.etag \in 0..versions
  /\ file.by \in Client \cup {None}
  /\ \A c \in Client : upload[c].chunks \subseteq Chunks(c)
  /\ staging \in Client \cup {None}
  /\ knows \in [Client -> 0..MaxVersions]
  /\ pc \in [Client -> Stages]
  /\ \A c \in Client : pc[c] \in {"staging"} => staging = c

Init ==
  /\ file = NoFile /\ versions = 0 /\ staging = None /\ replaced = {}
  /\ upload = [c \in Client |-> NoFolder] /\ knows = [c \in Client |-> 0]
  /\ pc = [c \in Client |-> "idle"] /\ job = [c \in Client |-> NoJob]

-----------------------------------------------------------------------------
Goto(c, to) == pc' = [pc EXCEPT ![c] = to]

(* A new version lies at the path; a tool that found another one there wrote over it. *)
Put(by, how, parts) ==
  /\ versions < MaxVersions /\ versions' = versions + 1
  /\ file' = [etag |-> versions + 1, by |-> by, how |-> how, parts |-> parts]
  /\ replaced' = IF by = None \/ file = NoFile THEN replaced
                 ELSE replaced \cup {[was |-> file.etag, how |-> how, given |-> job[by].etag]}

Unwritten == UNCHANGED <<file, versions, replaced>>

(* Somebody else saves the file, or removes it. *)
Others ==
  /\ \/ Put(None, "others", <<>>)
     \/ file # NoFile /\ file' = NoFile /\ UNCHANGED <<versions, replaced>>
  /\ UNCHANGED <<upload, staging, knows, pc, job>>

(* Nextcloud clears upload folders nobody finished. *)
Expire(c) ==
  /\ upload[c].there /\ upload' = [upload EXCEPT ![c] = NoFolder]
  /\ Unwritten /\ UNCHANGED <<staging, knows, pc, job>>

(* read: the answer carries the etag *)
Read(c) ==
  /\ pc[c] = "idle" /\ file # NoFile /\ knows' = [knows EXCEPT ![c] = file.etag]
  /\ Unwritten /\ UNCHANGED <<upload, staging, pc, job>>

(* The request does not arrive, or Nextcloud refuses it for a reason of its own. *)
Fail(c) ==
  /\ pc[c] # "idle" /\ Goto(c, "idle")
  /\ staging' = IF staging = c THEN None ELSE staging
  /\ Unwritten /\ UNCHANGED <<upload, knows, job>>

-----------------------------------------------------------------------------
(* update: what is there must be the version the caller names, asked twice *)
Update(c) ==
  /\ pc[c] = "idle" /\ "update" \in Does[c] /\ knows[c] # 0
  /\ Goto(c, "stat") /\ job' = [job EXCEPT ![c].etag = knows[c]]
  /\ Unwritten /\ UNCHANGED <<upload, staging, knows>>

(* the etag of the stat, and then _count_versions, which changes nothing *)
Stat(c) ==
  /\ pc[c] = "stat"
  /\ Goto(c, IF file # NoFile /\ file.etag = job[c].etag THEN "match" ELSE "idle")
  /\ Unwritten /\ UNCHANGED <<upload, staging, knows, job>>

(* If-Match, as update_file sends it and Nextcloud keeps it *)
MatchesAnything(etag) == file # NoFile
Matches(etag) == file # NoFile /\ file.etag = etag

(* The client learns the new etag, unless the answer gets lost. *)
Replace(c) ==
  /\ pc[c] = "match" /\ Goto(c, "idle")
  /\ IF Matches(job[c].etag)
     THEN /\ Put(c, "update", <<>>)
          /\ \E answered \in BOOLEAN : knows' = IF answered THEN [knows EXCEPT ![c] = versions + 1] ELSE knows
     ELSE Unwritten /\ UNCHANGED knows       \* _check_update: 412 and 404 are a conflict
  /\ UNCHANGED <<upload, staging, job>>

-----------------------------------------------------------------------------
(* upload and upload_attachment: something new, never over what is there *)
Upload(c) ==
  /\ pc[c] = "idle" /\ "upload" \in Does[c] /\ Goto(c, "new")
  /\ Unwritten /\ UNCHANGED <<upload, staging, knows, job>>

Attach(c) ==
  /\ pc[c] = "idle" /\ "attachment" \in Does[c] /\ Goto(c, "wait")
  /\ Unwritten /\ UNCHANGED <<upload, staging, knows, job>>

(* one attachment at a time is staged; the download may end in Fail *)
Stage(c) ==
  /\ pc[c] = "wait" /\ staging = None /\ staging' = c /\ Goto(c, "staging")
  /\ Unwritten /\ UNCHANGED <<upload, knows, job>>

(* If-None-Match: * *)
PutNew(c) ==
  /\ pc[c] \in {"new", "staging"} /\ Goto(c, "idle")
  /\ staging' = IF staging = c THEN None ELSE staging
  /\ IF file = NoFile THEN Put(c, "upload", <<>>) ELSE Unwritten   \* _check_write: a conflict
  /\ UNCHANGED <<upload, knows, job>>

-----------------------------------------------------------------------------
(* upload_binary: what a chunk must be like.  The number of bytes that have been sent
   is not kept anywhere, so its least value stands for it. *)
Consistent(index, size, total, final) ==
  LET least == (index - 1) * MIN_UPLOAD_CHUNK_BYTES + size
  IN  /\ size <= HARD_UPLOAD_CHUNK_BYTES /\ size <= total
      /\ least <= total /\ (~final => least < total)
      /\ ~final => size >= MIN_UPLOAD_CHUNK_BYTES
      /\ final /\ index = 1 => size = total

Final(c, index) == index = Len(Plan[c])

(* A client sends its chunks in whatever order, again and again. *)
Chunk(c) ==
  \E index \in Chunks(c) :
    /\ pc[c] = "idle" /\ "binary" \in Does[c]
    /\ Consistent(index, Plan[c][index], Total(c), Final(c, index))
    /\ Goto(c, IF Total(c) = 0 THEN "new" ELSE IF index = 1 THEN "mkcol" ELSE "chunk")
    /\ job' = [job EXCEPT ![c].index = index]
    /\ Unwritten /\ UNCHANGED <<upload, staging, knows>>

(* start_chunked_upload: a folder that is there already is taken as it is *)
Mkcol(c) ==
  /\ pc[c] = "mkcol" /\ Goto(c, "chunk")
  /\ upload' = [upload EXCEPT ![c].there = TRUE]
  /\ Unwritten /\ UNCHANGED <<staging, knows, job>>

(* put_upload_chunk; the answer to it may get lost, and the call with it *)
PutChunk(c) ==
  /\ pc[c] = "chunk"
  /\ IF upload[c].there
     THEN /\ upload' = [upload EXCEPT ![c].chunks = @ \cup {job[c].index}]
          /\ \/ Final(c, job[c].index) /\ Goto(c, "move")
             \/ Goto(c, "idle")
     ELSE Goto(c, "idle") /\ UNCHANGED upload
  /\ Unwritten /\ UNCHANGED <<staging, knows, job>>

(* OC-Total-Length: Nextcloud assembles only what sums up to it *)
AddsUpAnyhow(c) == upload[c].chunks # {}
AddsUp(c) == FoldSeq(LAMBDA i, sum : sum + Plan[c][i], 0, SetToSeq(upload[c].chunks)) = Total(c)

(* finish_chunked_upload: Overwrite F, and the folder is gone once the file is there *)
Finish(c) ==
  /\ pc[c] = "move" /\ Goto(c, "idle")
  /\ IF upload[c].there /\ AddsUp(c) /\ file = NoFile
     THEN /\ Put(c, "binary", SetToSortSeq(upload[c].chunks, <))
          /\ upload' = [upload EXCEPT ![c] = NoFolder]
     ELSE Unwritten /\ UNCHANGED upload
  /\ UNCHANGED <<staging, knows, job>>

Next ==
  \/ Others
  \/ \E c \in Client : \/ Expire(c) \/ Read(c) \/ Fail(c) \/ Update(c) \/ Stat(c) \/ Replace(c)
                       \/ Upload(c) \/ Attach(c) \/ Stage(c) \/ PutNew(c)
                       \/ Chunk(c) \/ Mkcol(c) \/ PutChunk(c) \/ Finish(c)

Spec == Init /\ [][Next]_vars

-----------------------------------------------------------------------------
(* A tool writes over a version only when its caller named that very version, whoever
   saves in between and however often a call is repeated; what is uploaded never
   replaces anything (files.py, update and "Uploads never overwrite existing files"). *)
NoLostUpdate ==
  \A r \in replaced : r.how = "update" /\ r.given = r.was

(* A file that was sent in chunks is there whole or not at all: every chunk of it, once
   and in order, although chunks get lost, come again, or come to an upload folder
   that was cleared in between. *)
UploadsAreWhole ==
  file.how = "binary" => file.parts = [i \in Chunks(file.by) |-> i]
=============================================================================
