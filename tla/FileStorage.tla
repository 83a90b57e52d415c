---------------------------- MODULE FileStorage -----------------------------
(***************************************************************************)
(* Files stored in a bucket and charged to their owners by the index: the  *)
(* storage_index canister, one storage_bucket canister, and the two        *)
(* streams of events between them.                                         *)
(*                                                                         *)
(*   storage_bucket: model/files.rs, updates, model/index_event_batch.rs   *)
(*   storage_index:  lib.rs, model/files.rs, updates                       *)
(*                                                                         *)
(* A file of a removed user, one that is evicted, and one that is rejected *)
(* by the index goes without the index being told.  The streams deliver    *)
(* once and in order (their calls are unbounded-wait and only failed ones  *)
(* are repeated), in batches, and a batch is applied by kind of event      *)
(* (additions before removals).  A file is numbered when it is created,    *)
(* which is its time too; one that expires goes like one that is deleted.  *)
(* Users are added once.  Accessors and changes of a user's principal are  *)
(* left out.                                                               *)
(***************************************************************************)
EXTENDS Integers, SequencesExt

CONSTANTS
    Owners,         \* users
    Blobs,          \* contents, identified by their hash
    Size,           \* of a blob, in bytes
    ByteLimit,      \* byte_limit of a user
    MaxFiles        \* bound

ASSUME StorageAssumption ==
    /\ Size \in [Blobs -> Nat \ {0}]
    /\ {ByteLimit, MaxFiles} \subseteq Nat

VARIABLES
    created,        \* number of files created
    known,          \* users of the bucket
    pendingFiles,   \* pending_files: not all of their chunks have come
    files,          \* files of the bucket
    counts,         \* reference_counts of blobs
    blobs,          \* blobs stored
    toIndex,        \* index_event_sync_queue
    rejected,       \* files_rejected in the index's reply under way
    account,        \* users of the index
    used,           \* their bytes_used
    listed,         \* files_by_user of the index
    toBucket        \* bucket_event_sync_queue

bucketVars == <<created, known, pendingFiles, files, counts, blobs>>
indexVars == <<account, used, listed, toBucket>>
storageVars == <<bucketVars, toIndex, rejected, indexVars>>

StorageInit ==
    /\ created = 0 /\ known = {} /\ pendingFiles = {} /\ files = {}
    /\ counts = [b \in Blobs |-> 0] /\ blobs = {}
    /\ toIndex = <<>> /\ rejected = {}
    /\ account = [u \in Owners |-> "new"]
    /\ used = [u \in Owners |-> 0]
    /\ listed = {} /\ toBucket = <<>>

-----------------------------------------------------------------------------
(* The bucket *)

NewFile(u, b) == [id |-> created + 1, owner |-> u, created |-> created + 1, blob |-> b]

FileAdded(f) == [is |-> "added", file |-> f]
FileRemoved(f) == [is |-> "removed", file |-> f]

\* insert_completed_file
Insert(f) ==
    /\ files' = files \union {f}
    /\ counts' = [counts EXCEPT ![f.blob] = @ + 1]
    /\ blobs' = blobs \union {f.blob}

RemoveFilesWithBlobs(fs) ==     \* mutant
    /\ files' = files \ fs
    /\ counts' = [b \in Blobs |-> counts[b] - Cardinality({f \in fs : f.blob = b})]
    /\ blobs' = blobs \ {f.blob : f \in fs}

\* remove_file, of each file of a set: the last one takes the blob with it.
RemoveFiles(fs) ==
    /\ files' = files \ fs
    /\ counts' = [b \in Blobs |-> counts[b] - Cardinality({f \in fs : f.blob = b})]
    /\ blobs' = blobs \ {f.blob : f \in {f \in fs : counts'[f.blob] = 0}}

\* The first chunk of a file, which may be the only one
Upload(u, b) ==
    /\ u \in known /\ created < MaxFiles
    /\ created' = created + 1
    /\ toIndex' = Append(toIndex, FileAdded(NewFile(u, b)))
    /\ \/ Insert(NewFile(u, b)) /\ UNCHANGED pendingFiles
       \/ /\ pendingFiles' = pendingFiles \union {NewFile(u, b)}
          /\ UNCHANGED <<files, counts, blobs>>
    /\ UNCHANGED <<known, rejected, indexVars>>

LastChunk(f) ==
    /\ f.owner \in known
    /\ pendingFiles' = pendingFiles \ {f}
    /\ Insert(f)
    /\ UNCHANGED <<created, known, toIndex, rejected, indexVars>>

\* The bytes do not have the hash that was announced.
HashMismatch(f) ==
    /\ f.owner \in known
    /\ pendingFiles' = pendingFiles \ {f}
    /\ toIndex' = Append(toIndex, FileRemoved(f))
    /\ UNCHANGED <<created, known, files, counts, blobs, rejected, indexVars>>

\* A chunk after the expiry of the file, or none for a day
PendingDropped(f) ==
    /\ pendingFiles' = pendingFiles \ {f}
    /\ UNCHANGED <<created, known, files, counts, blobs, toIndex, rejected, indexVars>>

\* The index is told of the original's owner and time.
Forward(u, f) ==
    /\ u \in known /\ f.blob \in blobs /\ created < MaxFiles
    /\ created' = created + 1
    /\ files' = files \union {NewFile(u, f.blob)}
    /\ counts' = [counts EXCEPT ![f.blob] = @ + 1]
    /\ toIndex' = Append(toIndex, FileAdded([f EXCEPT !.id = created + 1]))
    /\ UNCHANGED <<known, pendingFiles, blobs, rejected, indexVars>>

Delete(f) ==
    /\ RemoveFiles({f})
    /\ toIndex' = Append(toIndex, FileRemoved(f))
    /\ UNCHANGED <<created, known, pendingFiles, rejected, indexVars>>

RejectedPending == {f \in pendingFiles : f.id \in rejected /\ f.owner \in known}     \* mutant
Rejected == {f \in pendingFiles \union files : f.id \in rejected /\ f.owner \in known}

\* The reply of c2c_sync_bucket
DropRejected ==
    /\ rejected # {}
    /\ rejected' = {}
    /\ pendingFiles' = pendingFiles \ Rejected
    /\ RemoveFiles(files \intersect Rejected)
    /\ UNCHANGED <<created, known, toIndex, indexVars>>

Said(what, batch) == {e.about : e \in {e \in ToSet(batch) : e.is = what}}

\* c2c_sync_index
SyncIndex(n) ==
    LET batch == SubSeq(toBucket, 1, n)
        leaving == Said("user removed", batch)
    IN  /\ toBucket' = SubSeq(toBucket, n + 1, Len(toBucket))
        /\ known' = (known \union Said("user added", batch)) \ leaving
        /\ RemoveFiles({f \in files : f.owner \in leaving \/ f.id \in Said("file to remove", batch)})
        /\ UNCHANGED <<created, pendingFiles, toIndex, rejected, account, used, listed>>

-----------------------------------------------------------------------------
(* The index *)

Event(what, about) == [is |-> what, about |-> about]

AddUser(u) ==
    /\ account[u] = "new"
    /\ account' = [account EXCEPT ![u] = "open"]
    /\ toBucket' = Append(toBucket, Event("user added", u))
    /\ UNCHANGED <<bucketVars, toIndex, rejected, used, listed>>

RemoveUser(u) ==
    /\ account[u] = "open"
    /\ account' = [account EXCEPT ![u] = "closed"]
    /\ toBucket' = Append(toBucket, Event("user removed", u))
    /\ UNCHANGED <<bucketVars, toIndex, rejected, used, listed>>

TotalSize(fs) == SumFunction([f \in fs |-> Size[f.blob]])

Older(f, g) == f.created < g.created \/ (f.created = g.created /\ f.id < g.id)

FilesOf(s, u) == {f \in s.listed : f.owner = u}
OwnsNothing(s, f) == FALSE      \* mutant
OwnsBlob(s, f) == \E g \in FilesOf(s, f.owner) : g.blob = f.blob

\* What is freed when a file does not fit: the oldest files, up to its size.
Oldest(s, f) ==
    LET mine == FilesOf(s, f.owner)
        excess == s.used[f.owner] + Size[f.blob] - ByteLimit
    IN  {g \in mine : TotalSize({h \in mine : Older(h, g)}) < excess}

Evict(s, f) ==
    LET gone == Oldest(s, f)
    IN  [k \in 1..Cardinality(gone) |->
            Event("file to remove",
                  (CHOOSE g \in gone : Cardinality({h \in gone : Older(h, g)}) = k - 1).id)]

\* add_file_reference
AddReference(s, f) ==
    IF account[f.owner] # "open" THEN [s EXCEPT !.rejected = @ \union {f.id}]
    ELSE IF OwnsBlob(s, f) THEN [s EXCEPT !.listed = @ \union {f}]
    ELSE [s EXCEPT !.listed = @ \union {f},
                   !.used[f.owner] = @ + Size[f.blob],
                   !.toBucket = @ \o Evict(s, f)]

\* remove_file_reference
RemoveReference(s, f) ==
    LET less == [s EXCEPT !.listed = @ \ {f}]
    IN  IF f \notin s.listed THEN s
        ELSE IF account[f.owner] # "open" \/ OwnsBlob(less, f) THEN less
        ELSE [less EXCEPT !.used[f.owner] = @ - Size[f.blob]]

\* The events of one kind, in their order
Tell(what, s, e) ==
    IF e.is # what THEN s
    ELSE IF what = "added" THEN AddReference(s, e.file) ELSE RemoveReference(s, e.file)

Told(what, batch, s) ==
    LET told[n \in 0..Len(batch)] ==
            IF n = 0 THEN s ELSE Tell(what, told[n - 1], batch[n])
    IN  told[Len(batch)]

\* c2c_sync_bucket
SyncBucket(n) ==
    LET batch == SubSeq(toIndex, 1, n)
        before == [used |-> used, listed |-> listed, toBucket |-> toBucket, rejected |-> {}]
        after == Told("removed", batch, Told("added", batch, before))
    IN  /\ rejected = {}
        /\ toIndex' = SubSeq(toIndex, n + 1, Len(toIndex))
        /\ used' = after.used /\ listed' = after.listed
        /\ toBucket' = after.toBucket /\ rejected' = after.rejected
        /\ UNCHANGED <<bucketVars, account>>

StorageNext ==
    \/ \E u \in Owners : AddUser(u) \/ RemoveUser(u)
    \/ \E u \in Owners, b \in Blobs : Upload(u, b)
    \/ \E f \in pendingFiles : LastChunk(f) \/ HashMismatch(f) \/ PendingDropped(f)
    \/ \E f \in files : Delete(f) \/ \E u \in Owners : Forward(u, f)
    \/ \E n \in 1..Len(toIndex) : SyncBucket(n)
    \/ \E n \in 1..Len(toBucket) : SyncIndex(n)
    \/ DropRejected

StorageSpec == StorageInit /\ [][StorageNext]_storageVars

-----------------------------------------------------------------------------
(* Properties *)

\* The bucket stores a blob exactly as long as it has a file of it, whatever
\* uploads, forwards, deletions, evictions and removed users overlap: the count
\* of a blob is the number of its files.
BlobsAgree ==
    \A b \in Blobs :
        /\ counts[b] = Cardinality({f \in files : f.blob = b})
        /\ b \in blobs <=> counts[b] > 0

\* When the two streams have come to rest, every file of the bucket belongs to
\* a user of the index and is listed there: none outlives its owner, and none
\* escapes the index, although an upload may race the removal of its user and
\* be refused only when it is stored.
FilesAccounted ==
    toIndex = <<>> /\ rejected = {} /\ toBucket = <<>> =>
        \A f \in files : account[f.owner] = "open" /\ \E g \in listed : g.id = f.id

\* A user is charged for each blob among the own listed files, once, however
\* often it is uploaded, forwarded and deleted and in whichever batches the
\* index hears of it.
ChargedOnce ==
    \A u \in Owners : account[u] = "open" =>
        used[u] = SumFunctionOnSet(Size, {f.blob : f \in {f \in listed : f.owner = u}})
=============================================================================
