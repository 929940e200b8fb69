---------------------------- MODULE Attachments ----------------------------
(***************************************************************************)
(* Attachments on the server: a row in the table attachments and a file    *)
(* <storage_key>.blob, which have to agree although an upload, a deletion  *)
(* and a sweep each touch the row under the mutex and the file without it. *)
(*                                                                         *)
(* The storage key of an attachment is as good as its id: both are drawn   *)
(* when the slot is created and never again.  What a file name leads to is *)
(* an inode, which is torn while a handler writes it and whole afterwards; *)
(* a rename moves the inode, and a handler that has it open writes on.     *)
(* Downloads change nothing and are left out.                              *)
(***************************************************************************)
EXTENDS Naturals, FiniteSets, Functions

CONSTANTS
  Owners,       \* the devices registered at first
  Ids,          \* attachment ids, each with its storage key
  Sizes,        \* opaque_size of a request
  Inodes,
  NoFile,       \* there is no file of that name
  Workers,      \* the worker threads
  Quota,        \* MAX_DEVICE_ATTACHMENT_BYTES
  Ttl,          \* DEFAULT_ATTACHMENT_TTL_SECONDS
  MaxNow,       \* bound: the clock stops here
  MaxTries,     \* bound: uploads begun
  MaxCrashes    \* bound: crashes

ASSUME AttachmentsAssumption ==
  /\ {Quota, Ttl, MaxNow, MaxTries, MaxCrashes} \cup Sizes \subseteq Nat
  /\ NoFile \notin Inodes

VARIABLES
  owners,       \* the devices whose account is there
  rows,         \* table attachments
  drawn,        \* the ids that were ever drawn
  blob,         \* blob[id]: the inode of <storage_key>.blob
  part,         \* part[id]: the inode of <storage_key>.blob.part
  whole,        \* the inodes written to their end
  uploads,      \* the uploads under way
  unlinking,    \* ids whose row is deleted and whose file is about to be
  now,          \* the wall clock, in seconds
  contended,    \* history: see BeginUpload
  tries,
  crashes

table == <<owners, rows, drawn>>
files == <<blob, part, whole>>
ghosts == <<contended, tries, crashes>>
vars == <<table, files, uploads, unlinking, now, ghosts>>

Row == [id : Ids, owner : Owners, size : Sizes, expires : Nat, uploaded : BOOLEAN]

\* at: what the upload does next; inode: the file it has open.
Upload ==
  [worker : Workers, id : Ids, at : {"open", "write", "rename", "mark"},
   inode : Inodes \cup {NoFile}]

RowsOf(id) == {r \in rows : r.id = id}

IdsOf(deleted) == {r.id : r \in deleted}

-----------------------------------------------------------------------------
(* Slots.                                                                  *)

\* Mutant: a slot counts only once it is uploaded.
CommittedByUploads(o) ==
  SumFunctionOnSet([r \in rows |-> r.size],
                   {r \in rows : r.owner = o /\ r.expires > now /\ r.uploaded})

\* The bytes o has reserved in slots that have not expired.
Committed(o) ==
  SumFunctionOnSet([r \in rows |-> r.size], {r \in rows : r.owner = o /\ r.expires > now})

\* create_attachment.
Create(o, id, size) ==
  /\ o \in owners
  /\ id \notin drawn
  /\ now + Ttl <= MaxNow
  /\ Committed(o) + size <= Quota
  /\ rows' = rows \cup {[id |-> id, owner |-> o, size |-> size,
                         expires |-> now + Ttl, uploaded |-> FALSE]}
  /\ drawn' = drawn \cup {id}
  /\ UNCHANGED <<owners, files, uploads, unlinking, now, ghosts>>

\* handle_attachment_delete; the file is removed with the mutex held.
Delete(id) ==
  /\ RowsOf(id) # {}
  /\ rows' = rows \ RowsOf(id)
  /\ blob' = [blob EXCEPT ![id] = NoFile]
  /\ UNCHANGED <<owners, drawn, part, whole, uploads, unlinking, now, ghosts>>

-----------------------------------------------------------------------------
(* handle_attachment_upload.                                               *)

\* The slot is looked up; then the mutex is released and the body is read.
\* contended keeps the ids that are uploaded while, or after, another upload
\* of theirs got to the server.
BeginUpload(w, id) ==
  /\ \A u \in uploads : u.worker # w
  /\ tries < MaxTries
  /\ \E r \in RowsOf(id) :
       /\ r.expires > now
       /\ contended' = IF r.uploaded \/ \E u \in uploads : u.id = id
                       THEN contended \cup {id} ELSE contended
  /\ uploads' = uploads \cup {[worker |-> w, id |-> id, at |-> "open", inode |-> NoFile]}
  /\ tries' = tries + 1
  /\ UNCHANGED <<table, files, unlinking, now, crashes>>

Proceeds(u, at, inode) ==
  uploads' = (uploads \ {u}) \cup {[u EXCEPT !.at = at, !.inode = inode]}

Ends(u) == uploads' = uploads \ {u}

\* The body cannot be read, or is not as long as the slot.
Reject(u) ==
  /\ u.at = "open"
  /\ Ends(u)
  /\ UNCHANGED <<table, files, unlinking, now, ghosts>>

FreeInodes ==
  {i \in Inodes : /\ \A id \in Ids : i # blob[id] /\ i # part[id]
                  /\ \A u \in uploads : i # u.inode}

Opened(u, i) == Proceeds(u, "write", i)

\* fs::write creates the file, or truncates the one that is there.
Open(u) ==
  LET i == IF part[u.id] = NoFile THEN CHOOSE f \in FreeInodes : TRUE ELSE part[u.id]
  IN  /\ u.at = "open"
      /\ part[u.id] = NoFile => FreeInodes # {}
      /\ part' = [part EXCEPT ![u.id] = i]
      /\ whole' = whole \ {i}
      /\ Opened(u, i)
      /\ UNCHANGED <<table, blob, unlinking, now, ghosts>>

Write(u) ==
  /\ u.at = "write"
  /\ whole' = whole \cup {u.inode}
  /\ Proceeds(u, "rename", u.inode)
  /\ UNCHANGED <<table, blob, part, unlinking, now, ghosts>>

\* Mutant: an error of the write is not looked at.
GoesOn(u) ==
  /\ u.at = "write"
  /\ Proceeds(u, "rename", u.inode)
  /\ UNCHANGED <<table, files, unlinking, now, ghosts>>

\* The file cannot be created or written to its end.
WriteFails(u) ==
  /\ u.at \in {"open", "write"}
  /\ part' = [part EXCEPT ![u.id] = NoFile]
  /\ Ends(u)
  /\ UNCHANGED <<table, blob, whole, unlinking, now, ghosts>>

\* The rename fails if another upload has renamed or removed the file.
Rename(u) ==
  /\ u.at = "rename"
  /\ IF part[u.id] = NoFile
     THEN Ends(u) /\ UNCHANGED blob
     ELSE Proceeds(u, "mark", u.inode) /\ blob' = [blob EXCEPT ![u.id] = part[u.id]]
  /\ part' = [part EXCEPT ![u.id] = NoFile]
  /\ UNCHANGED <<table, whole, unlinking, now, ghosts>>

\* Mutant: the file stays when the slot is gone.
LeavesFile(id) == UNCHANGED blob

RemovesFile(id) == blob' = [blob EXCEPT ![id] = NoFile]

\* mark_attachment_uploaded; when no row is waiting for the upload, the file is
\* removed, whoever wrote it.
Mark(u) ==
  LET waiting == {r \in RowsOf(u.id) : ~r.uploaded}
  IN  /\ u.at = "mark"
      /\ rows' = (rows \ waiting) \cup {[r EXCEPT !.uploaded = TRUE] : r \in waiting}
      /\ IF waiting = {} THEN RemovesFile(u.id) ELSE UNCHANGED blob
      /\ Ends(u)
      /\ UNCHANGED <<owners, drawn, part, whole, unlinking, now, ghosts>>

-----------------------------------------------------------------------------
(* Removal by others.                                                      *)

Expired == {r \in rows : r.expires <= now}

\* Mutant: the rows are deleted and their storage keys forgotten.
ForgetsExpired(more) == rows' = rows \ Expired /\ unlinking' = more

\* reap_expired_with_attachment_keys.
ReapsExpired(more) == rows' = rows \ Expired /\ unlinking' = more \cup IdsOf(Expired)

\* run_sweep up to where it releases the mutex.
Sweep ==
  /\ ReapsExpired(unlinking)
  /\ UNCHANGED <<owners, drawn, files, uploads, now, ghosts>>

\* admin_delete_account up to where admin_delete_account_json does.
DeleteAccount(o) ==
  LET owned == {r \in rows : r.owner = o}
  IN  /\ o \in owners
      /\ owners' = owners \ {o}
      /\ rows' = rows \ owned
      /\ unlinking' = unlinking \cup IdsOf(owned)
      /\ UNCHANGED <<drawn, files, uploads, now, ghosts>>

\* The loop after either, over the storage keys it was given.
Unlink(id) ==
  /\ id \in unlinking
  /\ unlinking' = unlinking \ {id}
  /\ blob' = [blob EXCEPT ![id] = NoFile]
  /\ UNCHANGED <<table, part, whole, uploads, now, ghosts>>

\* The process dies; when it starts again it sweeps first.
Crash ==
  /\ crashes < MaxCrashes
  /\ crashes' = crashes + 1
  /\ uploads' = {}
  /\ ReapsExpired({})
  /\ UNCHANGED <<owners, drawn, files, now, contended, tries>>

Tick ==
  /\ now < MaxNow
  /\ now' = now + 1
  /\ UNCHANGED <<table, files, uploads, unlinking, ghosts>>

-----------------------------------------------------------------------------

Init ==
  /\ owners = Owners
  /\ rows = {}
  /\ drawn = {}
  /\ blob = [id \in Ids |-> NoFile]
  /\ part = [id \in Ids |-> NoFile]
  /\ whole = {}
  /\ uploads = {}
  /\ unlinking = {}
  /\ now = 0
  /\ contended = {}
  /\ tries = 0
  /\ crashes = 0

UploadStep ==
  \E u \in uploads :
    \/ Reject(u)
    \/ Open(u)
    \/ Write(u)
    \/ WriteFails(u)
    \/ Rename(u)
    \/ Mark(u)

Next ==
  \/ \E o \in Owners, id \in Ids, size \in Sizes : Create(o, id, size)
  \/ \E id \in Ids : Delete(id) \/ Unlink(id)
  \/ \E w \in Workers, id \in Ids : BeginUpload(w, id)
  \/ UploadStep
  \/ Sweep
  \/ \E o \in Owners : DeleteAccount(o)
  \/ Crash
  \/ Tick

Spec == Init /\ [][Next]_vars

\* Time passes, the sweep runs at its interval and through its loop, and the
\* handlers that are under way run on.
Fairness ==
  /\ WF_vars(Tick)
  /\ WF_vars(Sweep)
  /\ \A id \in Ids : WF_vars(Unlink(id))
  /\ WF_vars(UploadStep)

FairSpec == Spec /\ Fairness

-----------------------------------------------------------------------------
(* Properties.                                                             *)

\* Type invariant.
TypeOK ==
  /\ owners \subseteq Owners
  /\ rows \subseteq Row
  /\ drawn \subseteq Ids
  /\ blob \in [Ids -> Inodes \cup {NoFile}]
  /\ part \in [Ids -> Inodes \cup {NoFile}]
  /\ whole \subseteq Inodes
  /\ uploads \subseteq Upload
  /\ unlinking \subseteq Ids
  /\ now \in Nat
  /\ contended \subseteq Ids
  /\ tries \in Nat
  /\ crashes \in Nat

\* A row that says uploaded has its blob, complete, whatever crashed or failed
\* before, was deleted or swept meanwhile: unless the attachment was uploaded
\* a second time, which handle_attachment_upload answers by removing the blob.
UploadedIsThere ==
  \A r \in rows : r.uploaded /\ r.id \notin contended => blob[r.id] \in whole

HasFile(id) == blob[id] # NoFile \/ part[id] # NoFile

\* When nothing is under way and the server has not crashed, each file has its
\* row, and no half-written file is left (api.rs handle_attachment_upload,
\* "attachment state changed").
NoFileLeftBehind ==
  uploads = {} /\ unlinking = {} /\ crashes = 0 =>
    \A id \in Ids :
      /\ part[id] = NoFile
      /\ blob[id] # NoFile => RowsOf(id) # {}

\* db.rs MAX_DEVICE_ATTACHMENT_BYTES "bounds the total across every attachment
\* the device owns": also while slots expire and are uploaded.
WithinQuota == \A o \in Owners : Committed(o) <= Quota

\* db.rs reap_expired_with_attachment_keys "Without that, an attachment that
\* simply expires [...] would leave its blob file on disk forever": no file is
\* on disk for ever, as long as the server does not crash between the two.
FilesGo ==
  [](crashes = 0) => \A id \in Ids : HasFile(id) ~> ~HasFile(id)
=============================================================================
