--------------------------- MODULE PreparedBundle ---------------------------
(***************************************************************************)
(* ensure_prepared_dataset_manifest of core/data_prep/runtime.py, for one  *)
(* fingerprint: processes on several nodes need the same prepared dataset  *)
(* bundle.  Those that share a storage root take turns by a file lock; the *)
(* first one there restores the bundle from S3, or builds it and uploads   *)
(* it for the others.  A lock object in the bucket is meant to let only    *)
(* one node build; the others wait for the manifest to appear.             *)
(*                                                                         *)
(* A bundle is a set of data files and a manifest, and it exists when the  *)
(* manifest does.  Two builds of a fingerprint give the same bundle.       *)
(***************************************************************************)
EXTENDS Integers, FiniteSets

CONSTANTS Clients,   \* calls of ensure_prepared_dataset_manifest
          Roots,     \* storage roots
          RootOf,    \* the root of each call
          Files,     \* the data files of the bundle
          NoOne,     \* nobody, of a lock
          Faults     \* what may go wrong

\* A call on S3 fails, a preparation raises before its manifest or in the
\* writing of it, an hour of waiting for a manifest is over, a process is killed.
FaultKinds == {"s3", "build", "write", "timeout", "kill"}

ASSUME BundleAssumption ==
  /\ RootOf \in [Clients -> Roots]
  /\ NoOne \notin Clients
  /\ IsFiniteSet(Clients) /\ IsFiniteSet(Files)
  /\ Faults \subseteq FaultKinds

VARIABLES pc,        \* where each call is
          locked,    \* the calls that hold the lock object and know it
          listed,    \* the calls that found the lock object in their listing
          sent,      \* the files each call has uploaded
          held,      \* the file lock of each root
          files,     \* the data files under each root
          manifest,  \* manifest.json under each root: "none", "torn", "whole"
          remote,    \* the data files in the bucket
          published, \* whether the manifest is in the bucket
          lock,      \* whose put created the lock object
          seen       \* what has gone wrong so far

call == <<pc, locked, listed, sent>>
disk == <<files, manifest>>
bucket == <<remote, published, lock>>
vars == <<call, held, disk, bucket, seen>>

Underway == {"probing", "copying", "locking", "waiting", "probing again", "copying again",
             "building", "writing manifest", "uploading", "releasing", "raising"}

TypeOK ==
  /\ pc \in [Clients -> Underway \cup {"idle", "done", "failed", "dead"}]
  /\ locked \in SUBSET Clients
  /\ listed \in SUBSET Clients
  /\ sent \in [Clients -> SUBSET Files]
  /\ held \in [Roots -> Clients \cup {NoOne}]
  /\ \A c \in Clients : pc[c] \in Underway <=> held[RootOf[c]] = c
  /\ files \in [Roots -> SUBSET Files]
  /\ manifest \in [Roots -> {"none", "torn", "whole"}]
  /\ remote \in SUBSET Files
  /\ published \in BOOLEAN
  /\ lock \in Clients \cup {NoOne}
  /\ seen \in SUBSET Faults

Init ==
  /\ pc = [c \in Clients |-> "idle"]
  /\ locked = {} /\ listed = {}
  /\ sent = [c \in Clients |-> {}]
  /\ held = [r \in Roots |-> NoOne]
  /\ files = [r \in Roots |-> {}]
  /\ manifest = [r \in Roots |-> "none"]
  /\ remote = {} /\ published = FALSE
  /\ lock = NoOne
  /\ seen = {}

Happens(kind) == kind \in Faults /\ seen' = seen \cup {kind}

Go(c, to) == pc' = [pc EXCEPT ![c] = to]

\* A build writes the directory anew.
Proceed(c, to) ==
  /\ Go(c, to)
  /\ files' = IF to = "building" THEN [files EXCEPT ![RootOf[c]] = {}] ELSE files

----------------------------------------------------------------------------
\* The file lock is free: a manifest found behind it is taken as it is.
Enter(c) ==
  /\ pc[c] = "idle"
  /\ held[RootOf[c]] = NoOne
  /\ IF manifest[RootOf[c]] # "none"
     THEN Go(c, "done") /\ UNCHANGED held
     ELSE Go(c, "probing") /\ held' = [held EXCEPT ![RootOf[c]] = c]
  /\ UNCHANGED <<locked, listed, sent, disk, bucket, seen>>

\* _download_prepared_bundle_from_s3 up to the listing, which includes the
\* lock object, for that lies under the same prefix
Probe(c, here, copy, miss) ==
  /\ pc[c] = here
  /\ \/ /\ published
        /\ Proceed(c, copy)
        /\ listed' = IF lock = NoOne THEN listed \ {c} ELSE listed \cup {c}
        /\ UNCHANGED seen
     \/ /\ (~published /\ UNCHANGED seen) \/ Happens("s3")
        /\ Proceed(c, miss)
        /\ UNCHANGED listed
  /\ UNCHANGED <<locked, sent, held, manifest, bucket>>

\* What was listed is downloaded to a temporary directory, the manifest is
\* made local, and a directory without a manifest gives way to it.  An object
\* that has gone meanwhile fails the download.
Copy(c, here, miss) ==
  /\ pc[c] = here
  /\ \/ /\ c \in listed => lock # NoOne
        /\ files' = [files EXCEPT ![RootOf[c]] = remote]
        /\ manifest' = [manifest EXCEPT ![RootOf[c]] = "whole"]
        /\ Go(c, "releasing")
        /\ UNCHANGED seen
     \/ /\ (c \in listed /\ lock = NoOne /\ UNCHANGED seen) \/ Happens("s3")
        /\ Proceed(c, miss)
        /\ UNCHANGED manifest
  /\ UNCHANGED <<locked, listed, sent, held, bucket>>

\* Mutant: the put is not conditional.
AcquireAlways(c) ==
  /\ pc[c] = "locking"
  /\ lock' = c
  /\ locked' = locked \cup {c}
  /\ Proceed(c, "building")
  /\ UNCHANGED <<listed, sent, held, manifest, remote, published, seen>>

\* _acquire_prepared_bundle_build_lock: a conditional put, which does not look
\* for the manifest again.  A put that fails, or whose answer is lost, may
\* have created the object, and then this call takes it for somebody else's.
AcquireLock(c) ==
  /\ pc[c] = "locking"
  /\ \/ /\ lock = NoOne
        /\ lock' = c
        /\ locked' = locked \cup {c}
        /\ Proceed(c, "building")
        /\ UNCHANGED seen
     \/ /\ lock # NoOne
        /\ Go(c, "waiting")
        /\ UNCHANGED <<lock, locked, files, seen>>
     \/ /\ Happens("s3")
        /\ lock' \in (IF lock = NoOne THEN {NoOne, c} ELSE {lock})
        /\ pc' \in {[pc EXCEPT ![c] = w] : w \in {"waiting", "probing again"}}
        /\ UNCHANGED <<locked, files>>
  /\ UNCHANGED <<listed, sent, held, manifest, remote, published>>

\* Mutant: waiting has no end.
WaitOn(c) ==
  /\ pc[c] = "waiting"
  /\ published
  /\ Go(c, "probing again")
  /\ UNCHANGED <<locked, listed, sent, held, disk, bucket, seen>>

\* The manifest has appeared, cannot be looked for, or was waited for in vain.
Wait(c) ==
  /\ pc[c] = "waiting"
  /\ (published /\ UNCHANGED seen) \/ Happens("s3") \/ Happens("timeout")
  /\ Go(c, "probing again")
  /\ UNCHANGED <<locked, listed, sent, held, disk, bucket>>

ProbeFirst(c) == Probe(c, "probing", "copying", "locking")
CopyFirst(c) == Copy(c, "copying", "locking")
ProbeAgain(c) == Probe(c, "probing again", "copying again", "building")
CopyAgain(c) == Copy(c, "copying again", "building")

----------------------------------------------------------------------------
\* run_preparation_pipeline writes the files in place, the manifest last and
\* without a temporary file.
WriteFile(c) ==
  /\ pc[c] = "building"
  /\ \E f \in Files \ files[RootOf[c]] :
       files' = [files EXCEPT ![RootOf[c]] = @ \cup {f}]
  /\ UNCHANGED <<call, held, manifest, bucket, seen>>

\* Mutant: the manifest does not wait for the files.
OpenEarly(c) ==
  /\ pc[c] = "building"
  /\ manifest' = [manifest EXCEPT ![RootOf[c]] = "torn"]
  /\ Go(c, "writing manifest")
  /\ UNCHANGED <<locked, listed, sent, held, files, bucket, seen>>

OpenManifest(c) ==
  /\ pc[c] = "building"
  /\ files[RootOf[c]] = Files
  /\ manifest' = [manifest EXCEPT ![RootOf[c]] = "torn"]
  /\ Go(c, "writing manifest")
  /\ UNCHANGED <<locked, listed, sent, held, files, bucket, seen>>

CloseManifest(c) ==
  /\ pc[c] = "writing manifest"
  /\ manifest' = [manifest EXCEPT ![RootOf[c]] = "whole"]
  /\ Go(c, "uploading")
  /\ UNCHANGED <<locked, listed, sent, held, files, bucket, seen>>

\* A preparation raises.  In PreparedDatasetManifest.write, which has opened
\* the manifest and streams into it, that leaves what was written of it.
BuildRaises(c) ==
  /\ \/ pc[c] = "building" /\ Happens("build")
     \/ pc[c] = "writing manifest" /\ Happens("write")
  /\ Go(c, "raising")
  /\ UNCHANGED <<locked, listed, sent, held, disk, bucket>>

\* Mutant: files and manifest are uploaded in any order.
UploadUnordered(c) ==
  /\ pc[c] = "uploading"
  /\ \/ /\ published' = TRUE
        /\ Go(c, "releasing")
        /\ UNCHANGED <<sent, remote>>
     \/ \E f \in Files \ sent[c] :
          /\ sent' = [sent EXCEPT ![c] = @ \cup {f}]
          /\ remote' = remote \cup {f}
          /\ UNCHANGED <<pc, published>>
  /\ UNCHANGED <<locked, listed, held, disk, lock, seen>>

\* _upload_prepared_bundle_to_s3: the manifest last.  A failure ends the
\* upload and is only logged.
Upload(c) ==
  /\ pc[c] = "uploading"
  /\ \/ \E f \in Files \ sent[c] :
          /\ sent' = [sent EXCEPT ![c] = @ \cup {f}]
          /\ remote' = remote \cup {f}
          /\ UNCHANGED <<pc, published, seen>>
     \/ /\ sent[c] = Files
        /\ published' = TRUE
        /\ Go(c, "releasing")
        /\ UNCHANGED <<sent, remote, seen>>
     \/ /\ Happens("s3")
        /\ Go(c, "releasing")
        /\ UNCHANGED <<sent, remote, published>>
  /\ UNCHANGED <<locked, listed, held, disk, lock>>

Leave(c) ==
  /\ Go(c, IF pc[c] = "raising" THEN "failed" ELSE "done")
  /\ locked' = locked \ {c}
  /\ held' = [held EXCEPT ![RootOf[c]] = NoOne]

\* Mutant: the lock is left behind when the build raises.
ReleaseOnSuccess(c) ==
  /\ pc[c] \in {"releasing", "raising"}
  /\ lock' = IF c \in locked /\ pc[c] = "releasing" THEN NoOne ELSE lock
  /\ Leave(c)
  /\ UNCHANGED <<listed, sent, disk, remote, published, seen>>

\* The finally block deletes the lock object, if this call holds it and S3
\* lets it, and the file lock is given up.
Release(c) ==
  /\ pc[c] \in {"releasing", "raising"}
  /\ \/ lock' = (IF c \in locked THEN NoOne ELSE lock) /\ UNCHANGED seen
     \/ c \in locked /\ Happens("s3") /\ UNCHANGED lock
  /\ Leave(c)
  /\ UNCHANGED <<listed, sent, disk, remote, published>>

\* A killed process drops its file lock, and nothing else.
Crash(c) ==
  /\ pc[c] \in Underway
  /\ Happens("kill")
  /\ Go(c, "dead")
  /\ locked' = locked \ {c}
  /\ held' = [held EXCEPT ![RootOf[c]] = NoOne]
  /\ UNCHANGED <<listed, sent, disk, bucket>>

Step(c) ==
  \/ ProbeFirst(c) \/ CopyFirst(c) \/ AcquireLock(c) \/ Wait(c) \/ ProbeAgain(c)
  \/ CopyAgain(c) \/ WriteFile(c) \/ OpenManifest(c) \/ CloseManifest(c)
  \/ BuildRaises(c) \/ Upload(c) \/ Release(c)

Next == \E c \in Clients : Enter(c) \/ Step(c) \/ Crash(c)

Spec == Init /\ [][Next]_vars

\* Calls go on, and a file lock that stays free is taken.
Fairness == \A c \in Clients : WF_vars(Step(c)) /\ WF_vars(Enter(c))

FairSpec == Spec /\ Fairness

----------------------------------------------------------------------------
\* Whoever finds the manifest in the bucket finds every file it names,
\* however many nodes upload, and wherever they fail or are killed.
PublishedIsComplete == published => remote = Files

\* A manifest that ensure_prepared_dataset_manifest returned is whole, and so
\* is the bundle it describes.  That is what the docstring's "return its
\* manifest path" (line 555) lets the caller expect.
ReturnedIsWhole ==
  \A c \in Clients : pc[c] = "done" =>
    manifest[RootOf[c]] = "whole" /\ files[RootOf[c]] = Files

\* So it is until a process is killed or the writing of a manifest raises,
\* whatever else goes wrong: the steps of a preparation before that, S3, waits.
WholeUntilInterrupted == {"kill", "write"} \cap seen = {} => ReturnedIsWhole

Building == {c \in Clients : pc[c] \in {"building", "writing manifest"}}

\* The nodes do not prepare the bundle side by side before it has been
\* published, until S3 fails, a process is killed or one has waited too long.
\* Preparations may raise all the same.
OneNodeBuilds == seen \subseteq {"build", "write"} /\ ~published => Cardinality(Building) <= 1

\* The lock object belongs to a call that will delete it, until S3 fails or a
\* process is killed.  Preparations that raise and waits without end do not
\* leave it behind.
LockWillBeReleased ==
  seen \subseteq {"build", "write", "timeout"} /\ lock # NoOne
    => lock \in locked /\ pc[lock] \in Underway

\* Every call ends, and none waits for ever for a build that failed or for a
\* lock whose owner is gone.
EveryCallEnds == <>(\A c \in Clients : pc[c] \in {"done", "failed", "dead"})
=============================================================================
