------------------------ MODULE PreparedBundle_proof ------------------------
(***************************************************************************)
(* Theorems about prepared bundles: their installation, for any number of  *)
(* calls, roots and files and any mixture of faults (PreparedBundle), and  *)
(* the way of the sequences of a mode through their files, for any         *)
(* sequences, widths and sizes of the batches (ArrowBundle).               *)
(***************************************************************************)
EXTENDS PreparedBundle, ArrowBundle, Concatenation_proof

States == Underway \cup {"idle", "done", "failed", "dead"}

\* The parts of the type invariant, each of which is inductive, the last one
\* with the help of two others
PcOK == pc \in [Clients -> States]
LockOK == /\ locked \in SUBSET Clients /\ listed \in SUBSET Clients
          /\ lock \in Clients \cup {NoOne}
BucketOK == sent \in [Clients -> SUBSET Files] /\ remote \in SUBSET Files
FilesOK == files \in [Roots -> SUBSET Files]
ManifestOK == manifest \in [Roots -> {"none", "torn", "whole"}]
HeldOK == held \in [Roots -> Clients \cup {NoOne}]
OwnerOK == \A c \in Clients : pc[c] \in Underway <=> held[RootOf[c]] = c
PublishedOK == published \in BOOLEAN
SeenOK == seen \in SUBSET Faults

\* What the bucket holds: an upload sends the manifest after the files, and
\* what was seen published stays so.
BucketInv ==
  /\ published => remote = Files
  /\ \A c \in Clients : sent[c] \subseteq remote
  /\ \A c \in Clients : pc[c] \in {"copying", "copying again"} => published

Unwritten == {"probing", "copying", "locking", "waiting", "probing again",
              "copying again", "building"}

Written == {"uploading", "releasing"}

\* What lies under a root: the manifest follows the stage of the call that
\* holds the file lock, and a whole manifest has its files.
DiskInv ==
  /\ \A c \in Clients : pc[c] \in Unwritten => manifest[RootOf[c]] = "none"
  /\ \A c \in Clients : pc[c] = "writing manifest" => files[RootOf[c]] = Files
  /\ \A c \in Clients : pc[c] \in Written => manifest[RootOf[c]] = "whole"
  /\ \A r \in Roots : manifest[r] = "whole" => files[r] = Files

\* Unless the writing of one was cut short, a manifest is torn only while it is written,
\* and a call has ended with a whole one.
NoneTorn ==
  /\ \A r \in Roots : manifest[r] = "torn"
       => \E c \in Clients : RootOf[c] = r /\ pc[c] = "writing manifest"
  /\ \A c \in Clients : pc[c] = "done" => manifest[RootOf[c]] = "whole"

TornInv == {"kill", "write"} \cap seen # {} \/ NoneTorn

\* What the proofs need of the assumption on the constants
LEMMA ConstantTypes == RootOf \in [Clients -> Roots] /\ NoOne \notin Clients
BY BundleAssumption, Zenon DEF BundleAssumption

LEMMA PcStep == PcOK /\ [Next]_vars => PcOK'
<1> SUFFICES ASSUME PcOK, [Next]_vars
             PROVE  PcOK'
  OBVIOUS
<1>1. ASSUME NEW c \in Clients, NEW to \in States, Go(c, to)
      PROVE  PcOK'
  BY <1>1 DEF PcOK, Go
<1>2. ASSUME NEW c \in Clients, Enter(c) \/ Crash(c) \/ Release(c) \/ BuildRaises(c)
      PROVE  \E to \in States : Go(c, to)
  BY <1>2 DEF Enter, Crash, Release, Leave, BuildRaises, States, Underway
<1>3. ASSUME NEW c \in Clients, ProbeFirst(c) \/ ProbeAgain(c) \/ CopyFirst(c) \/ CopyAgain(c)
      PROVE  UNCHANGED pc \/ \E to \in States : Go(c, to)
  BY <1>3 DEF ProbeFirst, ProbeAgain, CopyFirst, CopyAgain, Probe, Copy, Proceed, Leave, call, States, Underway
<1>4. ASSUME NEW c \in Clients, AcquireLock(c) \/ Wait(c) \/ WriteFile(c) \/ OpenManifest(c) \/ CloseManifest(c)
      PROVE  UNCHANGED pc \/ \E to \in States : Go(c, to)
  <2>1. CASE AcquireLock(c)
    <3>1. ASSUME pc' \in {[pc EXCEPT ![c] = w] : w \in {"waiting", "probing again"}}
          PROVE  Go(c, "waiting") \/ Go(c, "probing again")
      BY <3>1 DEF Go
    <3>2. Go(c, "building") \/ Go(c, "waiting") \/ Go(c, "probing again")
      BY <2>1, <3>1 DEF AcquireLock, Proceed
    <3>. QED
      BY <3>2 DEF States, Underway
  <2>2. CASE Wait(c) \/ WriteFile(c) \/ OpenManifest(c) \/ CloseManifest(c)
    BY <2>2 DEF Wait, WriteFile, OpenManifest, CloseManifest, call, States, Underway
  <2>. QED
    BY <1>4, <2>1, <2>2
<1>5. ASSUME NEW c \in Clients, Upload(c)
      PROVE  UNCHANGED pc \/ \E to \in States : Go(c, to)
  BY <1>5 DEF Upload, Leave, call, States, Underway
<1>6. UNCHANGED pc => PcOK'
  BY DEF PcOK
<1>7. UNCHANGED vars => UNCHANGED pc
  BY DEF vars, call
<1>8. QED
  BY <1>1, <1>2, <1>3, <1>4, <1>5, <1>6, <1>7 DEF Next, Step

LEMMA LockStep == LockOK /\ [Next]_vars => LockOK'
BY DEF LockOK, Next, Enter, Step, ProbeFirst, ProbeAgain, CopyFirst, CopyAgain,
  Probe, Copy, AcquireLock, Wait, WriteFile, OpenManifest, CloseManifest, BuildRaises, Upload,
  Release, Leave, Crash, vars, call, disk, bucket, Go, Proceed

LEMMA BucketStep == BucketOK /\ [Next]_vars => BucketOK'
BY DEF BucketOK, Next, Enter, Step, ProbeFirst, ProbeAgain, CopyFirst, CopyAgain,
  Probe, Copy, AcquireLock, Wait, WriteFile, OpenManifest, CloseManifest, BuildRaises, Upload,
  Release, Leave, Crash, vars, call, disk, bucket, Go, Proceed

LEMMA ManifestStep == ManifestOK /\ [Next]_vars => ManifestOK'
BY DEF ManifestOK, Next, Enter, Step, ProbeFirst, ProbeAgain, CopyFirst, CopyAgain,
  Probe, Copy, AcquireLock, Wait, WriteFile, OpenManifest, CloseManifest, BuildRaises, Upload,
  Release, Leave, Crash, vars, call, disk, bucket, Go, Proceed

LEMMA HeldStep == HeldOK /\ [Next]_vars => HeldOK'
BY DEF HeldOK, Next, Enter, Step, ProbeFirst, ProbeAgain, CopyFirst, CopyAgain,
  Probe, Copy, AcquireLock, Wait, WriteFile, OpenManifest, CloseManifest, BuildRaises, Upload,
  Release, Leave, Crash, vars, call, disk, bucket, Go, Proceed

\* What has gone wrong is remembered.
LEMMA SeenStep == [Next]_vars => seen \subseteq seen' /\ (SeenOK => SeenOK')
BY DEF SeenOK, Happens, Next, Enter, Step, ProbeFirst, ProbeAgain, CopyFirst, CopyAgain,
  Probe, Copy, AcquireLock, Wait, WriteFile, OpenManifest, CloseManifest, BuildRaises, Upload,
  Release, Crash, vars

LEMMA PublishedStep == PublishedOK /\ [Next]_vars => PublishedOK'
<1>1. [Next]_vars => published' = published \/ published' = TRUE
  BY DEF Next, Enter, Step, ProbeFirst, ProbeAgain, CopyFirst, CopyAgain,
    Probe, Copy, AcquireLock, Wait, WriteFile, OpenManifest, CloseManifest, BuildRaises, Upload,
    Release, Leave, Crash, vars, call, disk, bucket, Go, Proceed
<1>2. QED
  BY <1>1, Zenon DEF PublishedOK

LEMMA FilesStep == BucketOK /\ FilesOK /\ [Next]_vars => FilesOK'
<1> SUFFICES ASSUME BucketOK, FilesOK, [Next]_vars
             PROVE  FilesOK'
  OBVIOUS
<1>1. ASSUME NEW c \in Clients, WriteFile(c)
      PROVE  FilesOK'
  <2>1. PICK f \in Files : files' = [files EXCEPT ![RootOf[c]] = @ \cup {f}]
    BY <1>1 DEF WriteFile
  <2>2. QED
    BY <2>1 DEF FilesOK
<1>2. CASE \E c \in Clients : CopyFirst(c) \/ CopyAgain(c)
  BY <1>2 DEF FilesOK, BucketOK, CopyFirst, CopyAgain, Copy, Proceed
<1>3. CASE \E c \in Clients : ProbeFirst(c) \/ ProbeAgain(c) \/ AcquireLock(c)
  BY <1>3 DEF FilesOK, ProbeFirst, ProbeAgain, Probe, AcquireLock, Proceed
<1>4. QED
  BY <1>1, <1>2, <1>3 DEF FilesOK, Next, Enter, Step, Wait, OpenManifest, CloseManifest,
    BuildRaises, Upload, Release, Crash, vars, disk

LEMMA OwnerStep == PcOK /\ HeldOK /\ OwnerOK /\ [Next]_vars => OwnerOK'
<1> SUFFICES ASSUME PcOK, HeldOK, OwnerOK, [Next]_vars
             PROVE  OwnerOK'
  OBVIOUS
<1>1. ASSUME NEW c \in Clients, Enter(c)
      PROVE  OwnerOK'
  <2>1. pc[c] = "idle" /\ held[RootOf[c]] = NoOne
    BY <1>1 DEF Enter
  <2>2. CASE pc' = [pc EXCEPT ![c] = "done"] /\ held' = held
    BY <2>1, <2>2 DEF OwnerOK, PcOK, Underway
  <2>3. CASE pc' = [pc EXCEPT ![c] = "probing"] /\ held' = [held EXCEPT ![RootOf[c]] = c]
    <3>1. "probing" \in Underway /\ pc[c] \notin Underway
      BY <2>1 DEF Underway
    <3>2. QED
      BY <2>1, <2>3, <3>1, ConstantTypes DEF OwnerOK, PcOK, HeldOK
  <2>4. QED
    BY <1>1, <2>2, <2>3 DEF Enter, Go
<1>2. ASSUME NEW c \in Clients, Release(c) \/ Crash(c)
      PROVE  OwnerOK'
  <2>1. /\ pc[c] \in Underway
        /\ held' = [held EXCEPT ![RootOf[c]] = NoOne]
        /\ \E w \in States \ Underway : pc' = [pc EXCEPT ![c] = w]
    BY <1>2 DEF Release, Leave, Crash, Go, Underway, States
  <2>2. PICK w \in States \ Underway : pc' = [pc EXCEPT ![c] = w]
    BY <2>1
  <2>3. held[RootOf[c]] = c
    BY <2>1 DEF OwnerOK
  <2>4. ASSUME NEW d \in Clients
        PROVE  pc'[d] \in Underway <=> held'[RootOf[d]] = d
    <3>1. RootOf[d] \in Roots /\ RootOf[c] \in Roots /\ NoOne # d
      BY ConstantTypes
    <3>2. CASE d = c
      BY <2>1, <2>2, <3>1, <3>2 DEF PcOK, HeldOK
    <3>3. CASE d # c /\ RootOf[d] = RootOf[c]
      BY <2>1, <2>2, <2>3, <3>1, <3>3 DEF OwnerOK, PcOK, HeldOK
    <3>4. CASE d # c /\ RootOf[d] # RootOf[c]
      BY <2>1, <2>2, <3>1, <3>4 DEF OwnerOK, PcOK, HeldOK
    <3>5. QED
      BY <3>2, <3>3, <3>4
  <2>5. QED
    BY <2>4 DEF OwnerOK
<1>3. ASSUME NEW c \in Clients, Step(c), ~Release(c)
      PROVE  held' = held /\ pc[c] \in Underway /\ \E w \in Underway : pc' = [pc EXCEPT ![c] = w]
  BY <1>3 DEF PcOK, Step, ProbeFirst, ProbeAgain, CopyFirst, CopyAgain, Probe, Copy, AcquireLock,
    Wait, WriteFile, OpenManifest, CloseManifest, BuildRaises, Upload, call, Go, Proceed, Underway
<1>4. QED
  BY <1>1, <1>2, <1>3 DEF PcOK, OwnerOK, Next, vars, call, Step

TypeInv == /\ PcOK /\ LockOK /\ BucketOK /\ FilesOK /\ ManifestOK /\ HeldOK /\ OwnerOK
           /\ PublishedOK /\ SeenOK

LEMMA InitTypeInv == Init => TypeInv
<1> SUFFICES ASSUME Init PROVE TypeInv
  OBVIOUS
<1>1. PcOK /\ LockOK /\ BucketOK /\ FilesOK /\ ManifestOK /\ HeldOK
  BY DEF Init, PcOK, LockOK, BucketOK, FilesOK, ManifestOK, HeldOK, States
<1>2. OwnerOK
  BY ConstantTypes DEF Init, OwnerOK, Underway
<1>3. SeenOK
  BY DEF Init, SeenOK
<1>4. PublishedOK
  BY Zenon DEF Init, PublishedOK
<1>5. QED
  BY <1>1, <1>2, <1>3, <1>4 DEF TypeInv

LEMMA TypeInvStep == TypeInv /\ [Next]_vars => TypeInv'
BY PcStep, LockStep, BucketStep, FilesStep, ManifestStep, HeldStep, OwnerStep, PublishedStep,
  SeenStep DEF TypeInv

LEMMA TypeInvHolds == Spec => []TypeInv
BY InitTypeInv, TypeInvStep, PTL DEF Spec

\* Every variable keeps its type, and the file lock of a root belongs to the
\* call that is between taking and releasing it.
THEOREM TypeCorrect == Spec => []TypeOK
<1>1. TypeInv => TypeOK
  BY DEF TypeInv, TypeOK, PcOK, LockOK, BucketOK, FilesOK, ManifestOK, HeldOK, OwnerOK,
    PublishedOK, SeenOK, States
<1>2. QED
  BY <1>1, TypeInvHolds, PTL

----------------------------------------------------------------------------
\* An upload that sends the manifest has sent every file.
LEMMA UploadStep ==
  ASSUME BucketOK, BucketInv, NEW c \in Clients, Upload(c)
  PROVE  /\ published' => remote' = Files
         /\ \A d \in Clients : sent'[d] \subseteq remote'
         /\ published => published'
<1>1. CASE \E f \in Files \ sent[c] :
             /\ sent' = [sent EXCEPT ![c] = @ \cup {f}]
             /\ remote' = remote \cup {f}
             /\ UNCHANGED <<pc, published>>
  <2>1. PICK f \in Files : /\ sent' = [sent EXCEPT ![c] = @ \cup {f}]
                           /\ remote' = remote \cup {f}
                           /\ published' = published
    BY <1>1
  <2>2. published => remote \cup {f} = Files
    BY DEF BucketInv
  <2>3. \A d \in Clients : sent'[d] \subseteq remote'
    BY <2>1 DEF BucketOK, BucketInv
  <2>4. QED
    BY <2>1, <2>2, <2>3
<1>2. CASE sent[c] = Files /\ published' = TRUE /\ UNCHANGED <<sent, remote>>
  BY <1>2 DEF BucketOK, BucketInv
<1>3. CASE UNCHANGED <<sent, remote, published>>
  BY <1>3 DEF BucketInv
<1>4. QED
  BY <1>1, <1>2, <1>3 DEF Upload

LEMMA BucketInvStep == PcOK /\ BucketOK /\ BucketInv /\ [Next]_vars => BucketInv'
<1> SUFFICES ASSUME PcOK, BucketOK, BucketInv, [Next]_vars
             PROVE  BucketInv'
  OBVIOUS
<1>1. ASSUME NEW c \in Clients, Upload(c)
      PROVE  BucketInv'
  <2>1. \A d \in Clients : pc'[d] \in {"copying", "copying again"} => pc'[d] = pc[d]
    BY <1>1 DEF Upload, Go, PcOK
  <2>2. QED
    BY <1>1, <2>1, UploadStep DEF BucketInv
<1>2. CASE \E c \in Clients : ProbeFirst(c) \/ ProbeAgain(c)
  <2>1. UNCHANGED <<sent, remote, published>>
    BY <1>2 DEF ProbeFirst, ProbeAgain, Probe, bucket
  <2>2. \A d \in Clients : pc'[d] \in {"copying", "copying again"} => pc'[d] = pc[d] \/ published
    BY <1>2 DEF PcOK, ProbeFirst, ProbeAgain, Probe, Proceed, Go
  <2>3. QED
    BY <2>1, <2>2 DEF BucketInv
<1>3. CASE \E c \in Clients : \/ Enter(c) \/ CopyFirst(c) \/ CopyAgain(c) \/ AcquireLock(c)
                              \/ Wait(c) \/ WriteFile(c) \/ OpenManifest(c) \/ CloseManifest(c)
                              \/ BuildRaises(c) \/ Release(c) \/ Crash(c)
  <2>1. UNCHANGED <<sent, remote, published>>
    BY <1>3 DEF Enter, CopyFirst, CopyAgain, Copy, AcquireLock, Wait, WriteFile, OpenManifest,
      CloseManifest, BuildRaises, Release, Crash, call, bucket
  <2>2. \A d \in Clients : pc'[d] \in {"copying", "copying again"} => pc'[d] = pc[d]
    BY <1>3 DEF PcOK, Enter, CopyFirst, CopyAgain, Copy, AcquireLock, Wait, WriteFile,
      OpenManifest, CloseManifest, BuildRaises, Release, Leave, Crash, call, Go, Proceed
  <2>3. QED
    BY <2>1, <2>2 DEF BucketInv
<1>4. CASE UNCHANGED vars
  BY <1>4 DEF vars, call, bucket, BucketInv
<1>5. QED
  BY <1>1, <1>2, <1>3, <1>4 DEF Next, Step

\* The manifest in the bucket is never there without all of its files, with
\* any number of nodes uploading, failing and being killed.
THEOREM PublicationIsComplete == Spec => []PublishedIsComplete
<1>1. Init => BucketInv
  BY DEF Init, BucketInv
<1>2. TypeInv /\ BucketInv /\ [Next]_vars => BucketInv'
  BY BucketInvStep DEF TypeInv
<1>3. BucketInv => PublishedIsComplete
  BY DEF BucketInv, PublishedIsComplete
<1>4. QED
  BY <1>1, <1>2, <1>3, TypeInvHolds, PTL DEF Spec

----------------------------------------------------------------------------
(***************************************************************************)
(* The steps of a call, by what they do to the root it works under.  Only  *)
(* one call is underway there, so that the others' part of the invariant   *)
(* is not concerned.                                                       *)
(***************************************************************************)
Goes(c, w) == pc' = [pc EXCEPT ![c] = w]

Quiet(c) ==
  /\ UNCHANGED <<files, manifest>>
  /\ \E w \in States :
       /\ Goes(c, w)
       /\ w \in Unwritten => pc[c] \in Unwritten \/ manifest[RootOf[c]] = "none"
       /\ w \in Written => pc[c] \in Written
       /\ w # "writing manifest"
       /\ w = "done" => \/ pc[c] \in Written
                        \/ manifest[RootOf[c]] # "none" /\ held[RootOf[c]] = NoOne
       /\ pc[c] = "writing manifest" => {"kill", "write"} \cap seen' # {}

Builds(c) ==
  /\ pc[c] \in Unwritten
  /\ Goes(c, "building")
  /\ \E F \in SUBSET Files : files' = [files EXCEPT ![RootOf[c]] = F]
  /\ UNCHANGED manifest

Restores(c) ==
  /\ pc[c] \in Unwritten
  /\ Goes(c, "releasing")
  /\ files' = [files EXCEPT ![RootOf[c]] = Files]
  /\ manifest' = [manifest EXCEPT ![RootOf[c]] = "whole"]

Opens(c) ==
  /\ pc[c] \in Unwritten /\ files[RootOf[c]] = Files
  /\ Goes(c, "writing manifest")
  /\ manifest' = [manifest EXCEPT ![RootOf[c]] = "torn"]
  /\ UNCHANGED files

Closes(c) ==
  /\ pc[c] = "writing manifest"
  /\ Goes(c, "uploading")
  /\ manifest' = [manifest EXCEPT ![RootOf[c]] = "whole"]
  /\ UNCHANGED files

LEMMA StepKinds ==
  ASSUME TypeInv, BucketInv, NEW c \in Clients, Enter(c) \/ Step(c) \/ Crash(c)
  PROVE  Quiet(c) \/ Builds(c) \/ Restores(c) \/ Opens(c) \/ Closes(c)
<1> USE ConstantTypes DEF Goes
<1>1. PcOK /\ BucketOK /\ FilesOK
  BY DEF TypeInv
<1>2. CASE Enter(c)
  BY <1>2 DEF Enter, Quiet, Go, disk, States, Underway, Unwritten, Written
<1>3. CASE Crash(c)
  BY <1>3 DEF Crash, Happens, Quiet, Go, disk, States, Underway, Unwritten, Written
<1>4. CASE ProbeFirst(c) \/ ProbeAgain(c)
  <2>1. PICK w \in States : Proceed(c, w) /\ w \in Unwritten
    BY <1>4 DEF ProbeFirst, ProbeAgain, Probe, Unwritten, States, Underway
  <2>2. pc[c] \in Unwritten /\ manifest' = manifest
    BY <1>4 DEF ProbeFirst, ProbeAgain, Probe, Unwritten, disk
  <2>3. CASE w = "building"
    BY <2>1, <2>2, <2>3 DEF Builds, Proceed, Go
  <2>4. CASE w # "building"
    BY <2>1, <2>2, <2>4 DEF Quiet, Proceed, Go, Unwritten, Written
  <2>5. QED
    BY <2>3, <2>4
<1>5. CASE CopyFirst(c) \/ CopyAgain(c)
  <2>1. pc[c] \in Unwritten /\ remote = Files
    BY <1>5 DEF CopyFirst, CopyAgain, Copy, Unwritten, BucketInv
  <2>2. CASE Goes(c, "releasing") /\ files' = [files EXCEPT ![RootOf[c]] = remote]
             /\ manifest' = [manifest EXCEPT ![RootOf[c]] = "whole"]
    BY <2>1, <2>2 DEF Restores
  <2>3. CASE Proceed(c, "locking") /\ UNCHANGED manifest
    BY <2>1, <2>3 DEF Quiet, Proceed, Go, Unwritten, Written, States, Underway
  <2>4. CASE Proceed(c, "building") /\ UNCHANGED manifest
    BY <2>1, <2>4 DEF Builds, Proceed, Go
  <2>5. QED
    BY <1>5, <2>2, <2>3, <2>4 DEF CopyFirst, CopyAgain, Copy, Go
<1>6. CASE AcquireLock(c)
  <2>1. pc[c] \in Unwritten /\ manifest' = manifest
    BY <1>6 DEF AcquireLock, Unwritten
  <2>2. CASE Proceed(c, "building")
    BY <2>1, <2>2 DEF Builds, Proceed, Go
  <2>3. CASE files' = files /\ \E w \in {"waiting", "probing again"} : Goes(c, w)
    BY <2>1, <2>3 DEF Quiet, Unwritten, Written, States, Underway
  <2>4. QED
    BY <1>6, <2>2, <2>3 DEF AcquireLock, Go
<1>7. CASE Wait(c) \/ BuildRaises(c)
  <2>1. CASE Wait(c)
    BY <2>1 DEF Wait, Quiet, Go, disk, States, Underway, Unwritten, Written
  <2>2. CASE BuildRaises(c)
    <3>1. pc[c] = "writing manifest" => "write" \in seen'
      BY <2>2 DEF BuildRaises, Happens
    <3>2. UNCHANGED <<files, manifest>> /\ Goes(c, "raising")
      BY <2>2 DEF BuildRaises, Go, disk
    <3>3. "raising" \in States /\ "raising" \notin Unwritten \cup Written
      BY DEF States, Underway, Unwritten, Written
    <3>4. QED
      BY <3>1, <3>2, <3>3 DEF Quiet
  <2>3. QED
    BY <1>7, <2>1, <2>2
<1>8. CASE WriteFile(c)
  <2>1. PICK f \in Files : files' = [files EXCEPT ![RootOf[c]] = @ \cup {f}]
    BY <1>8 DEF WriteFile
  <2>2. files[RootOf[c]] \cup {f} \in SUBSET Files
    BY <1>1, <2>1 DEF FilesOK
  <2>3. pc[c] \in Unwritten /\ Goes(c, "building") /\ manifest' = manifest
    BY <1>1, <1>8 DEF WriteFile, call, Unwritten, PcOK
  <2>4. QED
    BY <2>1, <2>2, <2>3 DEF Builds
<1>9. CASE OpenManifest(c)
  BY <1>9 DEF OpenManifest, Opens, Go, Unwritten
<1>10. CASE CloseManifest(c)
  BY <1>10 DEF CloseManifest, Closes, Go
<1>11. CASE Upload(c)
  <2>1. pc[c] = "uploading" /\ UNCHANGED <<files, manifest>>
    BY <1>11 DEF Upload, disk
  <2>2. Goes(c, "uploading") \/ Goes(c, "releasing")
    BY <1>1, <1>11, <2>1 DEF Upload, Go, PcOK
  <2>3. QED
    BY <2>1, <2>2 DEF Quiet, States, Underway, Unwritten, Written
<1>12. CASE Release(c)
  <2>1. pc[c] \in {"releasing", "raising"} /\ UNCHANGED <<files, manifest>>
    BY <1>12 DEF Release, disk
  <2>2. Goes(c, IF pc[c] = "raising" THEN "failed" ELSE "done")
    BY <1>12 DEF Release, Leave, Go
  <2>3. QED
    BY <2>1, <2>2 DEF Quiet, States, Underway, Unwritten, Written
<1>13. QED
  BY <1>2, <1>3, <1>4, <1>5, <1>6, <1>7, <1>8, <1>9, <1>10, <1>11, <1>12 DEF Step

\* The file lock keeps the calls under one root apart.
LEMMA Alone ==
  ASSUME OwnerOK, NEW c \in Clients, NEW d \in Clients, RootOf[c] = RootOf[d],
         pc[c] \in Underway, pc[d] \in Underway
  PROVE  c = d
BY DEF OwnerOK

\* A call that is not there either has ended or not begun, or works elsewhere.
LEMMA Elsewhere ==
  ASSUME OwnerOK, NEW c \in Clients, NEW d \in Clients, d # c, pc[c] \in Underway,
         pc[d] \in Unwritten \cup Written \cup {"writing manifest"}
  PROVE  RootOf[d] # RootOf[c]
BY Alone DEF Unwritten, Written, Underway

LEMMA DiskInvStep ==
  ASSUME TypeInv, BucketInv, DiskInv, [Next]_vars
  PROVE  DiskInv'
<1> USE ConstantTypes DEF Goes
<1>1. PcOK /\ FilesOK /\ ManifestOK /\ OwnerOK
  BY DEF TypeInv
<1>2. ASSUME NEW c \in Clients, Quiet(c)
      PROVE  DiskInv'
  BY <1>1, <1>2 DEF Quiet, DiskInv, PcOK
<1>3. ASSUME NEW c \in Clients, Builds(c)
      PROVE  DiskInv'
  <2>1. pc[c] \in Underway /\ manifest[RootOf[c]] = "none"
    BY <1>3 DEF Builds, Unwritten, Underway, DiskInv
  <2>2. ASSUME NEW d \in Clients, d # c
        PROVE  pc'[d] = pc[d] /\ (pc[d] = "writing manifest" => files'[RootOf[d]] = files[RootOf[d]])
    BY <1>1, <1>3, <2>1, <2>2, Elsewhere DEF Builds, PcOK, FilesOK
  <2>3. pc'[c] = "building" /\ UNCHANGED manifest
    BY <1>1, <1>3 DEF Builds, PcOK
  <2>4. \A r \in Roots : manifest[r] = "whole" => files'[r] = files[r]
    BY <1>1, <1>3, <2>1 DEF Builds, FilesOK
  <2>5. \A d \in Clients : d # c => pc'[d] = pc[d]
    BY <2>2
  <2>6. \A d \in Clients : pc'[d] \in Unwritten => manifest'[RootOf[d]] = "none"
    BY <2>1, <2>3, <2>5 DEF DiskInv
  <2>7. \A d \in Clients : pc'[d] = "writing manifest" => files'[RootOf[d]] = Files
    BY <2>2, <2>3 DEF DiskInv
  <2>8. \A d \in Clients : pc'[d] \in Written => manifest'[RootOf[d]] = "whole"
    BY <2>3, <2>5 DEF DiskInv, Written
  <2>9. \A r \in Roots : manifest'[r] = "whole" => files'[r] = Files
    BY <2>3, <2>4 DEF DiskInv
  <2>10. QED
    BY <2>6, <2>7, <2>8, <2>9 DEF DiskInv
<1>4. ASSUME NEW c \in Clients, Restores(c) \/ Opens(c) \/ Closes(c)
      PROVE  DiskInv'
  <2>1. pc[c] \in Underway
    BY <1>4 DEF Restores, Opens, Closes, Unwritten, Underway
  <2>2. ASSUME NEW d \in Clients, d # c,
               pc[d] \in Unwritten \cup Written \cup {"writing manifest"}
        PROVE  /\ manifest'[RootOf[d]] = manifest[RootOf[d]]
               /\ files'[RootOf[d]] = files[RootOf[d]]
    <3>1. RootOf[d] # RootOf[c]
      BY <1>1, <2>1, <2>2, Elsewhere
    <3>2. QED
      BY <1>1, <1>4, <3>1 DEF Restores, Opens, Closes, ManifestOK, FilesOK
  <2>3. \A d \in Clients : d # c => pc'[d] = pc[d]
    BY <1>1, <1>4 DEF Restores, Opens, Closes, PcOK
  <2>4. \/ /\ pc'[c] \in Written /\ manifest'[RootOf[c]] = "whole"
           /\ files'[RootOf[c]] = Files
        \/ /\ pc'[c] = "writing manifest" /\ manifest'[RootOf[c]] = "torn"
           /\ files'[RootOf[c]] = Files
    BY <1>1, <1>4 DEF Restores, Opens, Closes, PcOK, ManifestOK, FilesOK, Written, DiskInv
  <2>5. \A r \in Roots : r # RootOf[c] => files'[r] = files[r] /\ manifest'[r] = manifest[r]
    BY <1>1, <1>4 DEF Restores, Opens, Closes, ManifestOK, FilesOK
  <2>6. ASSUME NEW d \in Clients
        PROVE  /\ pc'[d] \in Unwritten => manifest'[RootOf[d]] = "none"
               /\ pc'[d] = "writing manifest" => files'[RootOf[d]] = Files
               /\ pc'[d] \in Written => manifest'[RootOf[d]] = "whole"
    <3>1. CASE d = c
      BY <2>4, <3>1 DEF Unwritten, Written
    <3>2. CASE d # c
      BY <2>2, <2>3, <3>2 DEF DiskInv
    <3>3. QED
      BY <3>1, <3>2
  <2>7. \A r \in Roots : manifest'[r] = "whole" => files'[r] = Files
    BY <2>4, <2>5 DEF DiskInv
  <2>8. QED
    BY <2>6, <2>7 DEF DiskInv
<1>5. CASE UNCHANGED vars
  BY <1>5 DEF vars, call, disk, DiskInv
<1>6. QED
  BY <1>2, <1>3, <1>4, <1>5, StepKinds DEF Next

LEMMA TornInvStep ==
  ASSUME TypeInv, BucketInv, DiskInv, TornInv, [Next]_vars
  PROVE  TornInv'
<1> USE ConstantTypes DEF Goes
<1>1. PcOK /\ ManifestOK /\ OwnerOK /\ HeldOK
  BY DEF TypeInv
<1> SUFFICES ASSUME {"kill", "write"} \cap seen' = {}
             PROVE  NoneTorn'
  BY DEF TornInv
<1> NoneTorn
  BY SeenStep DEF TornInv
<1>2. ASSUME NEW c \in Clients, Quiet(c)
      PROVE  NoneTorn'
  <2>1. pc[c] # "writing manifest" /\ UNCHANGED manifest
    BY <1>1, <1>2 DEF Quiet
  <2>2. \A d \in Clients : d # c => pc'[d] = pc[d]
    BY <1>1, <1>2 DEF Quiet, PcOK
  <2>3. ASSUME pc'[c] = "done"
        PROVE  manifest[RootOf[c]] = "whole"
    <3>1. CASE pc[c] \in Written
      BY <3>1 DEF DiskInv
    <3>2. CASE manifest[RootOf[c]] # "none" /\ held[RootOf[c]] = NoOne
      <4>1. manifest[RootOf[c]] # "torn"
        <5>1. SUFFICES ASSUME NEW d \in Clients, RootOf[d] = RootOf[c], pc[d] = "writing manifest"
                       PROVE  FALSE
          BY DEF NoneTorn
        <5>2. pc[d] \in Underway
          BY <5>1 DEF Underway
        <5>3. QED
          BY <1>1, <3>2, <5>1, <5>2 DEF OwnerOK
      <4>2. QED
        BY <1>1, <3>2, <4>1 DEF ManifestOK
    <3>3. QED
      BY <1>1, <1>2, <2>3, <3>1, <3>2 DEF Quiet, PcOK
  <2>4. \A d \in Clients : pc[d] = "writing manifest" => pc'[d] = pc[d]
    BY <2>1, <2>2
  <2>5. \A d \in Clients : pc'[d] = "done" => manifest'[RootOf[d]] = "whole"
    BY <2>1, <2>2, <2>3 DEF NoneTorn
  <2>6. ASSUME NEW r \in Roots, manifest'[r] = "torn"
        PROVE  \E d \in Clients : RootOf[d] = r /\ pc'[d] = "writing manifest"
    <3>1. PICK d \in Clients : RootOf[d] = r /\ pc[d] = "writing manifest"
      BY <2>1, <2>6 DEF NoneTorn
    <3>2. QED
      BY <2>4, <3>1
  <2>7. QED
    BY <2>5, <2>6 DEF NoneTorn
<1>3. ASSUME NEW c \in Clients, Builds(c)
      PROVE  NoneTorn'
  BY <1>1, <1>3 DEF Builds, NoneTorn, PcOK, Unwritten
<1>4. ASSUME NEW c \in Clients, Restores(c) \/ Closes(c)
      PROVE  NoneTorn'
  <2>1. \A d \in Clients : pc'[d] \in {"done", "writing manifest"} => pc'[d] = pc[d]
    BY <1>1, <1>4 DEF Restores, Closes, PcOK
  <2>2. \A d \in Clients : pc[d] = "writing manifest" /\ d # c => pc'[d] = pc[d]
    BY <1>1, <1>4 DEF Restores, Closes, PcOK
  <2>3. manifest' = [manifest EXCEPT ![RootOf[c]] = "whole"]
    BY <1>4 DEF Restores, Closes
  <2>4. ASSUME NEW r \in Roots, manifest'[r] = "torn"
        PROVE  \E d \in Clients : RootOf[d] = r /\ pc'[d] = "writing manifest"
    <3>1. r # RootOf[c] /\ manifest[r] = "torn"
      BY <1>1, <2>3, <2>4 DEF ManifestOK
    <3>2. PICK d \in Clients : RootOf[d] = r /\ pc[d] = "writing manifest"
      BY <3>1 DEF NoneTorn
    <3>3. QED
      BY <2>2, <3>1, <3>2
  <2>5. ASSUME NEW d \in Clients, pc'[d] = "done"
        PROVE  manifest'[RootOf[d]] = "whole"
    BY <1>1, <2>1, <2>3, <2>5 DEF NoneTorn, ManifestOK
  <2>6. QED
    BY <2>4, <2>5 DEF NoneTorn
<1>5. ASSUME NEW c \in Clients, Opens(c)
      PROVE  NoneTorn'
  <2>1. manifest[RootOf[c]] = "none"
    BY <1>5 DEF Opens, DiskInv
  <2>2. /\ pc'[c] = "writing manifest"
        /\ \A d \in Clients : d # c => pc'[d] = pc[d]
    BY <1>1, <1>5 DEF Opens, PcOK
  <2>3. manifest' = [manifest EXCEPT ![RootOf[c]] = "torn"] /\ pc[c] # "writing manifest"
    BY <1>5 DEF Opens, Unwritten
  <2>4. ASSUME NEW r \in Roots, manifest'[r] = "torn"
        PROVE  \E d \in Clients : RootOf[d] = r /\ pc'[d] = "writing manifest"
    <3>1. CASE r = RootOf[c]
      BY <2>2, <3>1
    <3>2. CASE r # RootOf[c]
      <4>1. manifest[r] = "torn"
        BY <1>1, <2>3, <2>4, <3>2 DEF ManifestOK
      <4>2. PICK d \in Clients : RootOf[d] = r /\ pc[d] = "writing manifest"
        BY <4>1 DEF NoneTorn
      <4>3. QED
        BY <2>2, <3>2, <4>2
    <3>3. QED
      BY <3>1, <3>2
  <2>5. ASSUME NEW d \in Clients, pc'[d] = "done"
        PROVE  manifest'[RootOf[d]] = "whole"
    <3>1. d # c /\ manifest[RootOf[d]] = "whole"
      BY <2>2, <2>5 DEF NoneTorn
    <3>2. QED
      BY <1>1, <2>1, <2>3, <3>1 DEF ManifestOK
  <2>6. QED
    BY <2>4, <2>5 DEF NoneTorn
<1>6. CASE UNCHANGED vars
  BY <1>6 DEF vars, call, disk, NoneTorn
<1>7. QED
  BY <1>2, <1>3, <1>4, <1>5, <1>6, StepKinds DEF Next

\* A manifest that was returned is whole and has its files until a process is
\* killed or the writing of a manifest raises, whatever else of a preparation
\* raises, whatever fails on S3 and however long others build.
THEOREM ReturnedBundlesAreWhole == Spec => []WholeUntilInterrupted
<1> DEFINE BundleInv == TypeInv /\ BucketInv /\ DiskInv /\ TornInv
<1>1. Init => BundleInv
  <2>1. Init => BucketInv /\ DiskInv /\ TornInv
    BY ConstantTypes DEF Init, BucketInv, DiskInv, TornInv, NoneTorn, Unwritten, Written
  <2>2. QED
    BY <2>1, InitTypeInv
<1>2. BundleInv /\ [Next]_vars => BundleInv'
  <2>1. TypeInv => PcOK /\ BucketOK
    BY DEF TypeInv
  <2>2. QED
    BY <2>1, TypeInvStep, BucketInvStep, DiskInvStep, TornInvStep
<1>3. BundleInv => WholeUntilInterrupted
  BY ConstantTypes DEF DiskInv, TornInv, NoneTorn, WholeUntilInterrupted, ReturnedIsWhole
<1>4. QED
  BY <1>1, <1>2, <1>3, PTL DEF Spec

----------------------------------------------------------------------------
(***************************************************************************)
(* The lock object, until S3 fails or somebody is killed: it belongs to    *)
(* the one call that knows it holds it.                                    *)
(***************************************************************************)
Locking ==
  /\ \A c \in locked : lock = c
  /\ lock # NoOne => lock \in locked /\ pc[lock] \in Underway

LockInv == seen \subseteq {"build", "write", "timeout"} => Locking

\* Until somebody has waited too long, either, a call that waited finds the
\* manifest, and before there is one only the holder of the lock builds.
First ==
  /\ \A c \in Clients : pc[c] = "probing again" => published
  /\ \A c \in Building : published \/ c \in locked

FirstInv == seen \subseteq {"build", "write"} => First

LEMMA LockInvStep ==
  ASSUME TypeInv, LockInv, [Next]_vars
  PROVE  LockInv'
<1> USE ConstantTypes
<1>1. PcOK /\ LockOK
  BY DEF TypeInv
<1> SUFFICES ASSUME seen' \subseteq {"build", "write", "timeout"}
             PROVE  Locking'
  BY DEF LockInv
<1> Locking /\ "s3" \notin seen' /\ "kill" \notin seen'
  BY SeenStep DEF LockInv
<1>2. ASSUME NEW c \in Clients, AcquireLock(c)
      PROVE  Locking'
  <2>1. pc[c] = "locking" /\ pc'[c] \in Underway /\ \A d \in Clients : d # c => pc'[d] = pc[d]
    BY <1>1, <1>2 DEF AcquireLock, Proceed, Go, PcOK, Underway
  <2>2. CASE lock = NoOne /\ lock' = c /\ locked' = locked \cup {c}
    BY <1>1, <2>1, <2>2 DEF Locking, LockOK
  <2>3. CASE lock' = lock /\ locked' = locked
    BY <1>1, <2>1, <2>3 DEF Locking, LockOK
  <2>4. QED
    BY <1>2, <2>2, <2>3 DEF AcquireLock, Happens
<1>3. ASSUME NEW c \in Clients, Release(c)
      PROVE  Locking'
  <2>1. /\ lock' = IF c \in locked THEN NoOne ELSE lock
        /\ locked' = locked \ {c}
        /\ \A d \in Clients : d # c => pc'[d] = pc[d]
    BY <1>1, <1>3 DEF Release, Happens, Leave, Go, PcOK
  <2>2. QED
    BY <1>1, <2>1 DEF Locking, LockOK
<1>4. ASSUME NEW c \in Clients, Enter(c) \/ (Step(c) /\ ~AcquireLock(c) /\ ~Release(c))
      PROVE  /\ UNCHANGED <<lock, locked>>
             /\ \E w \in States : pc' = [pc EXCEPT ![c] = w] /\ (pc[c] \in Underway => w \in Underway)
  BY <1>1, <1>4 DEF PcOK, Enter, Step, ProbeFirst, ProbeAgain, CopyFirst, CopyAgain, Probe, Copy,
    Wait, WriteFile, OpenManifest, CloseManifest, BuildRaises, Upload, call, bucket, Go, Proceed,
    Underway, States
<1>5. ASSUME NEW c \in Clients, Enter(c) \/ (Step(c) /\ ~AcquireLock(c) /\ ~Release(c))
      PROVE  Locking'
  BY <1>1, <1>4, <1>5 DEF Locking, LockOK, PcOK
<1>6. CASE UNCHANGED vars
  BY <1>6 DEF vars, call, bucket, Locking
<1>7. QED
  BY <1>1, <1>2, <1>3, <1>5, <1>6 DEF Next, Step, Crash, Happens

\* The lock object is never left behind until S3 fails or a process is killed:
\* it belongs to a call that is under way and will delete it.
THEOREM LockIsReleased == Spec => []LockWillBeReleased
<1>1. Init => LockInv
  BY DEF Init, LockInv, Locking
<1>2. TypeInv /\ LockInv /\ [Next]_vars => LockInv'
  BY LockInvStep
<1>3. LockInv => LockWillBeReleased
  BY DEF LockInv, Locking, LockWillBeReleased
<1>4. QED
  BY <1>1, <1>2, <1>3, TypeInvHolds, PTL DEF Spec

LEMMA FirstInvStep ==
  ASSUME TypeInv, BucketInv, LockInv, FirstInv, [Next]_vars
  PROVE  FirstInv'
<1>1. PcOK /\ LockOK /\ BucketOK
  BY DEF TypeInv
<1> SUFFICES ASSUME seen' \subseteq {"build", "write"}
             PROVE  First'
  BY DEF FirstInv
<1> First /\ "s3" \notin seen' /\ "timeout" \notin seen' /\ "kill" \notin seen'
  BY SeenStep DEF FirstInv
<1>2. published => published'
  BY DEF Next, Enter, Step, ProbeFirst, ProbeAgain, CopyFirst, CopyAgain, Probe, Copy, AcquireLock,
    Wait, WriteFile, OpenManifest, CloseManifest, BuildRaises, Upload, Release, Crash, vars, bucket
<1>3. ASSUME NEW c \in Clients, Enter(c) \/ Step(c)
      PROVE  /\ \A d \in Clients : d # c => pc'[d] = pc[d]
             /\ pc'[c] = "probing again" => published \/ pc[c] = "probing again"
             /\ c \in Building' => published \/ c \in Building \/ c \in locked'
             /\ \A d \in locked : d = c \/ d \in locked'
  <2>1. CASE Release(c)
    BY <1>1, <2>1 DEF Release, Leave, Go, PcOK, Building, LockOK
  <2>2. CASE AcquireLock(c)
    BY <1>1, <2>2 DEF AcquireLock, Happens, Proceed, Go, PcOK, Building, LockOK
  <2>3. CASE Enter(c) \/ ProbeFirst(c) \/ CopyFirst(c) \/ Wait(c) \/ WriteFile(c)
             \/ OpenManifest(c) \/ CloseManifest(c) \/ BuildRaises(c)
    BY <1>1, <2>3 DEF Enter, ProbeFirst, CopyFirst, Probe, Copy, Wait, Happens, WriteFile, OpenManifest,
      CloseManifest, BuildRaises, call, Proceed, Go, PcOK, Building
  <2>4. CASE ProbeAgain(c) \/ CopyAgain(c)
    BY <1>1, <2>4 DEF ProbeAgain, CopyAgain, Probe, Copy, Happens, Proceed, Go, PcOK, Building, BucketInv,
      First
  <2>5. CASE Upload(c)
    BY <1>1, <2>5 DEF Upload, Go, PcOK, Building
  <2>6. QED
    BY <1>3, <2>1, <2>2, <2>3, <2>4, <2>5 DEF Step
<1>4. ASSUME NEW c \in Clients, Enter(c) \/ Step(c)
      PROVE  First'
  <2>1. ASSUME c \in Building', c \in Building, ~published
        PROVE  c \in locked'
    <3>1. c \in locked /\ ~Release(c)
      BY <2>1 DEF First, Building, Release
    <3>2. QED
      BY <1>4, <3>1 DEF Enter, Step, ProbeFirst, ProbeAgain, CopyFirst, CopyAgain, Probe, Copy,
        AcquireLock, Wait, WriteFile, OpenManifest, CloseManifest, BuildRaises, Upload, call
  <2>2. ASSUME NEW d \in Building', ~published
        PROVE  d \in locked'
    BY <1>3, <1>4, <2>1, <2>2 DEF First, Building
  <2>3. QED
    BY <1>2, <1>3, <1>4, <2>2 DEF First, Building
<1>5. CASE UNCHANGED vars
  BY <1>5 DEF vars, call, bucket, First, Building
<1>6. QED
  BY <1>1, <1>4, <1>5 DEF Next, Crash, Happens

\* Until the bundle has been published one node at most prepares it, as long
\* as S3 answers, no process is killed, and none has waited too long.
THEOREM BuildsDoNotOverlap == Spec => []OneNodeBuilds
<1> DEFINE OneInv == TypeInv /\ BucketInv /\ LockInv /\ FirstInv
<1>1. Init => OneInv
  <2>1. Init => BucketInv /\ LockInv /\ FirstInv
    BY DEF Init, BucketInv, LockInv, Locking, FirstInv, First, Building
  <2>2. QED
    BY <2>1, InitTypeInv
<1>2. OneInv /\ [Next]_vars => OneInv'
  <2>1. TypeInv => PcOK /\ BucketOK
    BY DEF TypeInv
  <2>2. QED
    BY <2>1, TypeInvStep, BucketInvStep, LockInvStep, FirstInvStep
<1>3. OneInv => OneNodeBuilds
  <2>1. SUFFICES ASSUME LockInv, FirstInv, seen \subseteq {"build", "write"}, ~published
                 PROVE  Cardinality(Building) <= 1
    BY DEF OneNodeBuilds
  <2>2. Locking /\ First
    BY <2>1 DEF LockInv, FirstInv
  <2>3. Building \subseteq {lock}
    BY <2>1, <2>2 DEF Locking, First
  <2>4. Building = {} \/ Building = {lock}
    BY <2>3
  <2>5. Cardinality(Building) \in {0, 1}
    BY <2>4, FS_EmptySet, FS_Singleton
  <2>6. QED
    BY <2>5
<1>4. QED
  BY <1>1, <1>2, <1>3, PTL DEF Spec

----------------------------------------------------------------------------
(* The sequences of a mode in the files of a bundle                        *)

\* The steps of the sequences of a list
StepList(list) == [k \in 1 .. Len(list) |-> steps[list[k]]]

SourceTypes ==
  /\ Len(steps) \in Nat /\ steps = [k \in 1 .. Len(steps) |-> steps[k]]
  /\ \A k \in 1 .. Len(steps) : steps[k] \in Nat
  /\ wanted \in Int /\ (wanted = All \/ wanted >= 1)
  /\ inWidth \in Nat \ {0} /\ outWidth \in Nat \ {0}
  /\ rows \in Seq(1 .. Len(steps))

\* What Trim promises
ModeInv ==
  /\ StepsOf(rows) = SumUp(steps) \/ (wanted # All /\ StepsOf(rows) >= wanted)
  /\ wanted > 0 /\ rows # <<>> => StepsOf(Front(rows)) < wanted

Features(batch) == Concat([k \in DOMAIN batch |-> Values(batch[k], outWidth)])

LabelRows(batch) == Concat([k \in DOMAIN batch |-> Labels(batch[k])])

\* The batches of the mode, and how many of its sequences the first b of them hold
Parts == RowBatches(rows)

EndOf(b) == SumOver(Lengths(Parts), 1, b)

Exported == Len(featureFile)

\* What is in the files is what the first batches hold, under one width.
ExportInv ==
  /\ Exported \in 0 .. Len(Parts) /\ featureFile = [b \in 1 .. Exported |-> Features(Parts[b])]
  /\ labelFile = [b \in 1 .. Exported |-> LabelRows(Parts[b])]
  /\ batches = SubSeq(Parts, Exported + 1, Len(Parts))
  /\ Len(seqLen) = EndOf(Exported) /\ seqLen = [k \in 1 .. EndOf(Exported) |-> steps[rows[k]]]
  /\ \A b \in 1 .. Exported : WidthOf(Parts[b]) = numFeatures

BundleInv ==
  /\ SourceTypes
  /\ exportAt \in {"source", "mode", "export", "written", "open", "refused", "raised"}
  /\ exportAt = "source" => rows = Numbers(Len(steps))
  /\ exportAt \in {"source", "mode"} => featureFile = <<>> /\ labelFile = <<>> /\ seqLen = <<>>
  /\ exportAt = "mode" => ModeInv
  /\ exportAt \in {"export", "written", "open", "refused"} => ExportInv
  /\ exportAt \in {"written", "open", "refused"} => Exported = Len(Parts)
  /\ exportAt = "open" => place = Resolved
  /\ exportAt = "refused" => rows = <<>>
  /\ exportAt = "raised" => inWidth # outWidth /\ \E s \in ToSet(rows) : steps[s] = 0
----------------------------------------------------------------------------
(* The steps of the sequences of a list                                    *)

\* A list of sequences of the source
IsMode(list) == list \in Seq(1 .. Len(steps))

\* Their steps are numbers, as many as there are sequences.
LEMMA StepListIs ==
  ASSUME SourceTypes, NEW list, IsMode(list)
  PROVE  /\ Len(list) \in Nat /\ Counts(StepList(list), Len(list))
         /\ StepsOf(list) = SumOver(StepList(list), 1, Len(list))
         /\ Len(StepList(list)) = Len(list)
         /\ \A k \in 1 .. Len(list) : list[k] \in 1 .. Len(steps) /\ StepList(list)[k] = steps[list[k]]
<1>1. PICK n \in Nat : n = Len(list)
  BY LenProperties DEF IsMode
<1>2. ASSUME NEW k \in 1 .. n PROVE list[k] \in 1 .. Len(steps) /\ steps[list[k]] \in Nat
  <2>1. list[k] \in 1 .. Len(steps)
    BY <1>1, ElementOfSeq DEF IsMode
  <2>. QED
    BY <2>1 DEF SourceTypes
<1>3. StepList(list) = [k \in 1 .. n |-> steps[list[k]]] /\ Len(StepList(list)) = n
  BY <1>1 DEF StepList
<1>4. DOMAIN list = 1 .. n
  BY <1>1 DEF IsMode
<1>5. StepsOf(list) = SumOver(StepList(list), 1, n)
  BY <1>3, <1>4 DEF StepsOf, SumUp
<1>. QED
  BY <1>1, <1>2, <1>3, <1>5 DEF Counts

\* A part of a list has the steps between two sums.
LEMMA StepsOfPart ==
  ASSUME SourceTypes, NEW list, IsMode(list), NEW a \in 0 .. Len(list), NEW m \in Nat, a + m <= Len(list),
         NEW part, IsMode(part), Len(part) = m, OnwardsFrom(list, part, a, m), NEW j \in 0 .. m
  PROVE  /\ SumOver(StepList(part), 1, j) = SumOver(StepList(list), 1, a + j) - SumOver(StepList(list), 1, a)
         /\ SumOver(StepList(list), 1, a) \in Nat /\ SumOver(StepList(list), 1, a + j) \in Nat
<1>1. PICK n \in Nat : n = Len(list)
  BY StepListIs
<1>2. Counts(StepList(list), n)
  BY <1>1, StepListIs
<1>3. ASSUME NEW k \in 1 .. m PROVE StepList(part)[k] = StepList(list)[a + k]
  <2>1. a + k \in 1 .. n
    BY <1>1
  <2>2. StepList(part)[k] = steps[part[k]] /\ StepList(list)[a + k] = steps[list[a + k]]
    BY <1>1, <2>1, StepListIs
  <2>. QED
    BY <2>2 DEF OnwardsFrom
<1>4. OnwardsFrom(StepList(list), StepList(part), a, m)
  BY <1>3 DEF OnwardsFrom
<1>5. a \in 0 .. n /\ a + m <= n /\ a + j \in 0 .. n
  BY <1>1
<1>6. SumOver(StepList(part), 1, j) = SumOver(StepList(list), 1, a + j) - SumOver(StepList(list), 1, a)
  BY <1>2, <1>4, <1>5, SumOfPart
<1>. QED
  BY <1>2, <1>5, <1>6, SumUpTo

\* The steps of the first sequences of a list
LEMMA StepsOfFirst ==
  ASSUME SourceTypes, NEW list, IsMode(list), NEW m \in 0 .. Len(list)
  PROVE  /\ IsMode(SubSeq(list, 1, m)) /\ Len(SubSeq(list, 1, m)) = m
         /\ StepsOf(SubSeq(list, 1, m)) = SumOver(StepList(list), 1, m)
<1>1. PICK n \in Nat : n = Len(list)
  BY StepListIs
<1>2. PICK part : part = SubSeq(list, 1, m)
  OBVIOUS
<1>3. part \in Seq(1 .. Len(steps)) /\ Len(part) = m /\ \A i \in 1 .. m : part[i] = list[i]
  <2>1. PICK l \in Seq(1 .. Len(steps)) : l = list
    BY DEF IsMode
  <2>2. PICK z \in 0 .. n : z = m /\ z <= Len(l)
    BY <1>1, <2>1
  <2>3. SubSeq(l, 1, z) \in Seq(1 .. Len(steps)) /\ Len(SubSeq(l, 1, z)) = z
    BY <1>1, <2>1, <2>2
  <2>4. \A i \in 1 .. z : SubSeq(l, 1, z)[i] = l[i]
    BY <1>1, <2>1, <2>2
  <2>. QED
    BY <1>2, <2>1, <2>2, <2>3, <2>4
<1>4. IsMode(part)
  BY <1>3 DEF IsMode
<1>5. PICK a \in 0 .. Len(list) : a = 0
  BY <1>1
<1>6. m \in Nat /\ a + m <= Len(list) /\ m \in 0 .. m /\ OnwardsFrom(list, part, a, m)
  BY <1>1, <1>3, <1>5 DEF OnwardsFrom
<1>7. SumOver(StepList(part), 1, m) = SumOver(StepList(list), 1, a + m) - SumOver(StepList(list), 1, a)
  BY <1>3, <1>4, <1>6, StepsOfPart
<1>8. SumOver(StepList(list), 1, a) = 0 /\ SumOver(StepList(list), 1, m) \in Nat /\ a + m = m
  <2>1. Counts(StepList(list), n)
    BY <1>1, StepListIs
  <2>2. m \in 0 .. n
    BY <1>1
  <2>. QED
    BY <1>5, <2>1, <2>2, SumUpTo
<1>9. StepsOf(part) = SumOver(StepList(part), 1, m)
  BY <1>3, <1>4, StepListIs
<1>. QED
  BY <1>2, <1>3, <1>4, <1>7, <1>8, <1>9

----------------------------------------------------------------------------
(* Cutting the synthetic sequences                                         *)

\* The steps of the first k sequences of the mode
UpTo(k) == SumOver(StepList(rows), 1, k)

\* They are numbers that never fall.
LEMMA UpToGrows ==
  ASSUME SourceTypes, NEW n \in Nat, n = Len(rows)
  PROVE  /\ UpTo(0) = 0 /\ UpTo(n) = StepsOf(rows)
         /\ \A k \in 0 .. n : UpTo(k) \in Nat
         /\ \A k, m \in 0 .. n : k <= m => UpTo(k) <= UpTo(m)
<1>1. IsMode(rows)
  BY DEF IsMode, SourceTypes
<1>2. Counts(StepList(rows), n) /\ StepsOf(rows) = UpTo(n)
  BY <1>1, StepListIs DEF UpTo
<1>3. ASSUME NEW k \in 0 .. n, NEW m \in 0 .. n, k <= m PROVE UpTo(k) <= UpTo(m)
  <2>1. m \in k .. n
    BY <1>3
  <2>. QED
    BY <1>2, <2>1, SumsGrow DEF UpTo
<1>. QED
  BY <1>2, <1>3, SumUpTo DEF UpTo

\* The cut is behind the first place whose sequences have the steps asked for.
LEMMA CutOffIs ==
  ASSUME SourceTypes, NEW n \in Nat, n = Len(rows), NEW total \in Int, total <= UpTo(n)
  PROVE  \E m \in 0 .. n :
           /\ UpTo(m) >= total /\ \A k \in 0 .. m - 1 : UpTo(k) < total
           /\ CutOff(total) = IF m = 0 THEN 1 ELSE m
<1> DEFINE T == {k \in 0 .. n : UpTo(k) >= total}
           C == {k \in 1 .. n : UpTo(k) < total}
<1>1. IsMode(rows) /\ DOMAIN rows = 1 .. n
  BY DEF IsMode, SourceTypes
<1>2. UpTo(n) \in Nat
  BY UpToGrows
<1>3. n \in T /\ T \in SUBSET Nat
  BY <1>2
<1>4. PICK m \in T : \A k \in T : m <= k
  BY <1>3, LeastNatural
<1>5. m \in 0 .. n /\ UpTo(m) >= total /\ UpTo(m) \in Nat
  BY <1>4, UpToGrows
<1>6. ASSUME NEW k \in 0 .. m - 1 PROVE UpTo(k) < total
  <2>1. k \in 0 .. n /\ ~ (m <= k)
    BY <1>5
  <2>2. k \notin T /\ UpTo(k) \in Nat
    BY <1>4, <2>1, UpToGrows
  <2>. QED
    BY <2>1, <2>2
<1>7. CutOff(total) = Cardinality(C) + 1
  <2>1. ASSUME NEW k \in 1 .. n PROVE StepsOf(SubSeq(rows, 1, k)) = UpTo(k)
    <3>1. k \in 0 .. Len(rows)
      OBVIOUS
    <3>. QED
      BY <1>1, <3>1, StepsOfFirst DEF UpTo
  <2>2. {k \in DOMAIN rows : StepsOf(SubSeq(rows, 1, k)) < total} = C
    BY <1>1, <2>1
  <2>. QED
    BY <2>2 DEF CutOff
<1>8. C = 1 .. m - 1
  <2>1. ASSUME NEW k \in C PROVE k \in 1 .. m - 1
    <3>1. SUFFICES ASSUME m <= k PROVE FALSE
      BY <1>5
    <3>2. k \in 0 .. n /\ UpTo(k) < total
      OBVIOUS
    <3>3. UpTo(m) <= UpTo(k) /\ UpTo(k) \in Nat
      BY <1>5, <3>1, <3>2, UpToGrows
    <3>. QED
      BY <1>5, <3>2, <3>3
  <2>2. ASSUME NEW k \in 1 .. m - 1 PROVE k \in C
    <3>1. k \in 1 .. n /\ k \in 0 .. m - 1
      BY <1>5
    <3>. QED
      BY <1>6, <3>1
  <2>. QED
    BY <2>1, <2>2
<1>9. Cardinality(1 .. m - 1) = IF m = 0 THEN 0 ELSE m - 1
  <2>1. CASE m = 0
    <3>1. 1 .. m - 1 = {}
      BY <2>1
    <3>. QED
      BY <2>1, <3>1, FS_EmptySet
  <2>2. CASE m # 0
    <3>1. PICK a \in Int, b \in Int : a = 1 /\ b = m - 1 /\ a <= b + 1 /\ b - a + 1 = m - 1
      BY <1>5, <2>2
    <3>2. Cardinality(a .. b) = IF a > b THEN 0 ELSE b - a + 1
      BY FS_Interval
    <3>. QED
      BY <2>2, <3>1, <3>2
  <2>. QED
    BY <2>1, <2>2
<1>10. CutOff(total) = IF m = 0 THEN 1 ELSE m
  <2> HIDE DEF C, T
  <2>1. CutOff(total) = Cardinality(1 .. m - 1) + 1
    BY <1>7, <1>8
  <2>. QED
    BY <1>5, <1>9, <2>1
<1>. QED
  BY <1>5, <1>6, <1>10

\* All sequences are in the mode before it is cut.
LEMMA NumbersAre ==
  ASSUME SourceTypes, rows = Numbers(Len(steps))
  PROVE  Len(rows) = Len(steps) /\ Len(steps) \in Nat /\ StepsOf(rows) = SumUp(steps)
<1>1. PICK n \in Nat : n = Len(steps)
  BY DEF SourceTypes
<1>2. rows = [k \in 1 .. n |-> k]
  BY <1>1 DEF Numbers
<1>3. steps = [k \in 1 .. n |-> steps[k]]
  BY <1>1 DEF SourceTypes
<1>4. [k \in DOMAIN rows |-> steps[rows[k]]] = [k \in 1 .. n |-> steps[k]]
  BY <1>2
<1>5. [k \in DOMAIN rows |-> steps[rows[k]]] = steps
  BY <1>3, <1>4
<1>6. StepsOf(rows) = SumUp(steps)
  BY <1>5 DEF StepsOf
<1>. QED
  BY <1>1, <1>2, <1>6

\* What is kept of the mode: the first m sequences, with the steps asked for, or all
LEMMA TrimKeeps ==
  ASSUME SourceTypes, rows = Numbers(Len(steps)), wanted # All, NEW n \in Nat, n = Len(rows)
  PROVE  \E z \in 0 .. n :
           /\ Min({CutOff(Min({wanted, StepsOf(rows)})), n}) = z
           /\ UpTo(z) = StepsOf(rows) \/ UpTo(z) >= wanted
           /\ z # 0 => UpTo(z - 1) < wanted
<1>1. wanted \in Int /\ wanted >= 1
  BY DEF SourceTypes
<1>2. StepsOf(rows) = UpTo(n) /\ UpTo(n) \in Nat /\ UpTo(0) = 0
  BY UpToGrows
<1>3. PICK total \in Int : /\ total = Min({wanted, StepsOf(rows)})
                           /\ total <= wanted /\ total <= UpTo(n) /\ (total = wanted \/ total = UpTo(n))
  <2>1. Min({wanted, StepsOf(rows)}) = IF wanted <= StepsOf(rows) THEN wanted ELSE StepsOf(rows)
    BY <1>1, <1>2, MinOfTwo
  <2>. QED
    BY <1>1, <1>2, <2>1
<1>4. PICK m \in 0 .. n :
         /\ UpTo(m) >= total /\ \A k \in 0 .. m - 1 : UpTo(k) < total
         /\ CutOff(total) = IF m = 0 THEN 1 ELSE m
  BY <1>3, CutOffIs
<1>5. UpTo(m) \in Nat /\ UpTo(m) <= UpTo(n)
  BY UpToGrows
<1>6. CASE m = 0
  <2>1. total <= 0 /\ UpTo(n) = 0
    BY <1>1, <1>2, <1>3, <1>4, <1>6
  <2>2. PICK z \in 0 .. n : z = (IF n = 0 THEN 0 ELSE 1)
    OBVIOUS
  <2>3. Min({CutOff(total), n}) = z
    <3>1. CutOff(total) = 1
      BY <1>4, <1>6
    <3>2. Min({1, n}) = IF 1 <= n THEN 1 ELSE n
      BY MinOfTwo
    <3>. QED
      BY <2>2, <3>1, <3>2
  <2>4. UpTo(z) <= UpTo(n) /\ UpTo(z) \in Nat
    BY UpToGrows
  <2>5. z # 0 => z - 1 = 0
    BY <2>2
  <2>. QED
    BY <1>1, <1>2, <1>3, <2>1, <2>3, <2>4, <2>5
<1>7. CASE m # 0
  <2>1. Min({CutOff(total), n}) = m
    <3>1. CutOff(total) = m /\ m <= n /\ m \in Int /\ n \in Int
      BY <1>4, <1>7
    <3>2. Min({m, n}) = IF m <= n THEN m ELSE n
      BY <3>1, MinOfTwo
    <3>. QED
      BY <3>1, <3>2
  <2>2. UpTo(m) = StepsOf(rows) \/ UpTo(m) >= wanted
    BY <1>1, <1>2, <1>3, <1>4, <1>5
  <2>3. m - 1 \in 0 .. m - 1 /\ m - 1 \in 0 .. n
    BY <1>7
  <2>4. UpTo(m - 1) < total /\ UpTo(m - 1) \in Nat
    BY <1>4, <2>3, UpToGrows
  <2>5. UpTo(m - 1) < wanted
    BY <1>1, <1>3, <2>4
  <2>. QED
    BY <1>3, <2>1, <2>2, <2>5
<1>. QED
  BY <1>6, <1>7

----------------------------------------------------------------------------
(* The batches                                                             *)

\* The walk over a list of rows, as far as it has come after each
Walked(w, list, n) ==
  w = [k \in 0 .. n |->
         IF k = 0 THEN [done |-> <<>>, last |-> <<>>, size |-> 0] ELSE AddRow(w[k - 1], list[k])]

\* There is such a walk.
LEMMA WalkExists ==
  ASSUME NEW list, NEW n \in Nat
  PROVE  \E w : Walked(w, list, n)
<1> DEFINE S == {k \in Nat : ~ \E w : Walked(w, list, k)}
           Start == [done |-> <<>>, last |-> <<>>, size |-> 0]
<1>1. SUFFICES ASSUME n \in S PROVE FALSE
  OBVIOUS
<1>2. S \in SUBSET Nat
  OBVIOUS
<1>3. PICK m \in S : \A k \in S : m <= k
  BY <1>1, <1>2, LeastNatural
<1>4. CASE m = 0
  <2>1. PICK w : w = [k \in 0 .. m |-> Start]
    OBVIOUS
  <2> HIDE DEF Start
  <2>2. [k \in 0 .. m |-> IF k = 0 THEN Start ELSE AddRow(w[k - 1], list[k])] = w
    BY <1>4, <2>1
  <2>3. Walked(w, list, m)
    BY <2>2 DEF Walked, Start
  <2>. QED
    BY <2>3
<1>5. CASE m # 0
  <2>1. m - 1 \in Nat /\ ~ (m <= m - 1)
    BY <1>5
  <2>2. m - 1 \notin S
    BY <1>3, <2>1
  <2>3. PICK w : Walked(w, list, m - 1)
    BY <2>1, <2>2
  <2>4. PICK e : e = [k \in 0 .. m |-> IF k = 0 THEN Start ELSE AddRow(w[k - 1], list[k])]
    OBVIOUS
  <2>5. ASSUME NEW k \in 0 .. m - 1 PROVE w[k] = IF k = 0 THEN Start ELSE AddRow(w[k - 1], list[k])
    BY <2>3 DEF Walked
  <2> HIDE DEF Start
  <2>6. ASSUME NEW k \in 0 .. m - 1 PROVE e[k] = w[k]
    <3>1. k \in 0 .. m
      OBVIOUS
    <3>. QED
      BY <2>4, <2>5, <3>1
  <2>7. ASSUME NEW k \in 0 .. m PROVE e[k] = IF k = 0 THEN Start ELSE AddRow(e[k - 1], list[k])
    <3>1. CASE k = 0
      BY <2>4, <3>1
    <3>2. CASE k # 0
      <4>1. k - 1 \in 0 .. m - 1
        BY <3>2
      <4>. QED
        BY <2>4, <2>6, <3>2, <4>1
    <3>. QED
      BY <3>1, <3>2
  <2>8. e = [k \in 0 .. m |-> e[k]]
    BY <2>4
  <2>9. Walked(e, list, m)
    BY <2>7, <2>8 DEF Walked, Start
  <2>. QED
    BY <2>9
<1>. QED
  BY <1>4, <1>5

\* Some batches of the rows, none of them empty
AreBatches(parts) ==
  parts \in Seq(Seq(1 .. Len(steps))) /\ \A b \in 1 .. Len(parts) : parts[b] # <<>>

\* The walk has put the first k rows into batches, in their order.
WalkInv(acc, list, k) ==
  /\ AreBatches(acc.done) /\ acc.last \in Seq(1 .. Len(steps)) /\ (k # 0 => acc.last # <<>>)
  /\ Concat(acc.done) \o acc.last = SubSeq(list, 1, k)

\* A batch more
LEMMA BatchAppended ==
  ASSUME NEW parts, AreBatches(parts), NEW batch \in Seq(1 .. Len(steps)), batch # <<>>
  PROVE  AreBatches(Append(parts, batch)) /\ Concat(Append(parts, batch)) = Concat(parts) \o batch
<1> DEFINE S == 1 .. Len(steps)
<1>1. parts \in Seq(Seq(S)) /\ batch \in Seq(S)
  BY DEF AreBatches
<1> HIDE DEF S
<1>2. /\ Append(parts, batch) \in Seq(Seq(S)) /\ Len(Append(parts, batch)) = Len(parts) + 1
      /\ \A b \in 1 .. Len(parts) : Append(parts, batch)[b] = parts[b]
      /\ Append(parts, batch)[Len(parts) + 1] = batch
      /\ Len(parts) \in Nat
  BY <1>1, AppendProperties, LenProperties
<1>3. ASSUME NEW b \in 1 .. Len(parts) + 1 PROVE Append(parts, batch)[b] # <<>>
  <2>1. CASE b = Len(parts) + 1
    BY <1>2, <2>1
  <2>2. CASE b # Len(parts) + 1
    <3>1. b \in 1 .. Len(parts)
      BY <1>2, <2>2
    <3>. QED
      BY <1>2, <3>1 DEF AreBatches
  <2>. QED
    BY <2>1, <2>2
<1>4. Concat(Append(parts, batch)) = Concat(parts) \o batch
  BY <1>1, ConcatAppended
<1>. QED
  BY <1>2, <1>3, <1>4 DEF AreBatches, S

\* What batches hold together is a list of rows.
LEMMA BatchesHold ==
  ASSUME NEW parts, AreBatches(parts)
  PROVE  /\ HoldsPieces(Concat(parts), parts, 1 .. Len(steps), Len(parts))
         /\ Concat(parts) \in Seq(1 .. Len(steps)) /\ Len(parts) \in Nat /\ Counts(Lengths(parts), Len(parts))
<1>1. parts \in Seq(Seq(1 .. Len(steps)))
  BY DEF AreBatches
<1>2. HoldsPieces(Concat(parts), parts, 1 .. Len(steps), Len(parts))
  BY <1>1, ConcatIs
<1>. QED
  BY <1>1, <1>2, LengthsCount DEF HoldsPieces

\* One row more of a list
LEMMA FirstOneMore ==
  ASSUME NEW S, NEW list \in Seq(S), NEW k \in 1 .. Len(list)
  PROVE  SubSeq(list, 1, k) = SubSeq(list, 1, k - 1) \o <<list[k]>> /\ list[k] \in S
<1>1. PICK n \in Nat : n = Len(list)
  OBVIOUS
<1>2. SubSeq(list, 1, k) = [i \in 1 .. k |-> list[i]]
  BY <1>1
<1>3. SubSeq(list, 1, k - 1) \in Seq(S) /\ Len(SubSeq(list, 1, k - 1)) = k - 1
  BY <1>1
<1>4. \A i \in 1 .. k - 1 : SubSeq(list, 1, k - 1)[i] = list[i]
  BY <1>1
<1>5. list[k] \in S
  BY ElementOfSeq
<1>6. PICK f \in Seq(S), one \in Seq(S) :
         f = SubSeq(list, 1, k - 1) /\ one = <<list[k]>> /\ Len(one) = 1 /\ one[1] = list[k]
  <2>1. PICK e \in S : e = list[k]
    BY <1>5
  <2>2. <<e>> \in Seq(S) /\ Len(<<e>>) = 1 /\ <<e>>[1] = e
    OBVIOUS
  <2>. QED
    BY <1>3, <2>1, <2>2
<1>7. Len(f) = k - 1 /\ Len(one) = 1 /\ one[1] = list[k]
  BY <1>3, <1>6
<1>8. /\ f \o one \in Seq(S) /\ Len(f \o one) = k
      /\ \A i \in 1 .. k : (f \o one)[i] = IF i <= k - 1 THEN f[i] ELSE one[i - (k - 1)]
  <2>1. Len(f) + Len(one) = k
    BY <1>7
  <2>2. /\ f \o one \in Seq(S) /\ Len(f \o one) = Len(f) + Len(one)
        /\ \A i \in 1 .. Len(f) + Len(one) : (f \o one)[i] = IF i <= Len(f) THEN f[i] ELSE one[i - Len(f)]
    BY ConcatProperties
  <2>. QED
    BY <1>7, <2>1, <2>2
<1>9. ASSUME NEW i \in 1 .. k PROVE (f \o one)[i] = list[i]
  <2>1. CASE i <= k - 1
    BY <1>4, <1>6, <1>8, <2>1
  <2>2. CASE ~ (i <= k - 1)
    <3>1. i = k /\ i - (k - 1) = 1
      BY <2>2
    <3>. QED
      BY <1>7, <1>8, <2>2, <3>1
  <2>. QED
    BY <2>1, <2>2
<1>10. f \o one = [i \in 1 .. k |-> (f \o one)[i]]
  BY <1>8, SequenceIsFunction
<1>. QED
  BY <1>2, <1>5, <1>6, <1>9, <1>10

\* The walk over one row
LEMMA RowWalked ==
  ASSUME NEW list \in Seq(1 .. Len(steps)), NEW k \in 1 .. Len(list), NEW acc, WalkInv(acc, list, k - 1)
  PROVE  WalkInv(AddRow(acc, list[k]), list, k)
<1> DEFINE Source == 1 .. Len(steps)
<1>1. PICK s \in Source : s = list[k]
  BY ElementOfSeq
<1>2. SubSeq(list, 1, k) = SubSeq(list, 1, k - 1) \o <<s>>
  BY <1>1, FirstOneMore
<1>3. PICK done : done = acc.done
  OBVIOUS
<1>4. AreBatches(done) /\ acc.last \in Seq(Source)
  BY <1>3 DEF WalkInv
<1>5. Concat(done) \in Seq(Source)
  BY <1>4, BatchesHold
<1>6. PICK last \in Seq(Source), all \in Seq(Source) : last = acc.last /\ all = Concat(done)
  BY <1>4, <1>5
<1>7. all \o last = SubSeq(list, 1, k - 1)
  BY <1>3, <1>6 DEF WalkInv
<1> HIDE DEF Source
<1>8. <<s>> \in Seq(Source) /\ <<s>> # <<>>
  OBVIOUS
<1>9. CASE acc.last # <<>> /\ acc.size + RowSize(s) > BatchSize
  <2>1. PICK next : next = AddRow(acc, s)
    OBVIOUS
  <2>2. next = [done |-> Append(done, last), last |-> <<s>>, size |-> RowSize(s)]
    BY <1>3, <1>6, <1>9, <2>1 DEF AddRow
  <2>3. next.done = Append(done, last) /\ next.last = <<s>>
    BY <2>2
  <2>4. AreBatches(Append(done, last)) /\ Concat(Append(done, last)) = all \o last
    BY <1>4, <1>6, <1>9, BatchAppended DEF Source
  <2>. QED
    BY <1>1, <1>2, <1>7, <1>8, <2>1, <2>3, <2>4 DEF WalkInv, Source
<1>10. CASE ~ (acc.last # <<>> /\ acc.size + RowSize(s) > BatchSize)
  <2>1. PICK next : next = AddRow(acc, s)
    OBVIOUS
  <2>2. next = [done |-> done, last |-> Append(last, s), size |-> acc.size + RowSize(s)]
    BY <1>3, <1>6, <1>10, <2>1 DEF AddRow
  <2>3. next.done = done /\ next.last = Append(last, s)
    BY <2>2
  <2>4. all \o Append(last, s) = (all \o last) \o <<s>> /\ Append(last, s) \in Seq(Source) /\ Append(last, s) # <<>>
    BY JoinedAppended
  <2>. QED
    BY <1>1, <1>2, <1>4, <1>6, <1>7, <2>1, <2>3, <2>4 DEF WalkInv, Source
<1>. QED
  BY <1>9, <1>10

\* The batches of a mode hold its rows, in their order, and none of them is empty.
LEMMA BatchesAre ==
  ASSUME NEW list \in Seq(1 .. Len(steps))
  PROVE  AreBatches(RowBatches(list)) /\ Concat(RowBatches(list)) = list
<1>1. PICK n \in Nat : n = Len(list)
  OBVIOUS
<1>2. AreBatches(<<>>)
  BY DEF AreBatches
<1>3. CASE list = <<>>
  <2>1. RowBatches(list) = <<>>
    BY <1>3 DEF RowBatches
  <2>. QED
    BY <1>2, <1>3, <2>1, ConcatOfNone
<1>4. CASE list # <<>>
  <2>1. \E w : Walked(w, list, n)
    BY WalkExists
  <2>2. PICK w : w = CHOOSE walk : Walked(walk, list, n)
    OBVIOUS
  <2>3. Walked(w, list, n)
    BY <2>1, <2>2
  <2>4. RowBatches(list) = Append(w[n].done, w[n].last)
    BY <1>1, <1>4, <2>2 DEF RowBatches, Walked
  <2>5. n # 0
    BY <1>1, <1>4, EmptySeq
  <2>6. ASSUME NEW k \in 0 .. n
        PROVE  w[k] = IF k = 0 THEN [done |-> <<>>, last |-> <<>>, size |-> 0] ELSE AddRow(w[k - 1], list[k])
    BY <2>3 DEF Walked
  <2>7. WalkInv(w[0], list, 0)
    <3>1. w[0] = [done |-> <<>>, last |-> <<>>, size |-> 0]
      BY <2>6
    <3>2. w[0].done = <<>> /\ w[0].last = <<>>
      BY <3>1
    <3>3. <<>> \o <<>> = SubSeq(list, 1, 0)
      OBVIOUS
    <3>4. <<>> \in Seq(1 .. Len(steps))
      OBVIOUS
    <3>. QED
      BY <1>2, <3>2, <3>3, <3>4, ConcatOfNone DEF WalkInv
  <2>8. WalkInv(w[n], list, n)
    <3> DEFINE T == {k \in 0 .. n : ~ WalkInv(w[k], list, k)}
    <3>1. SUFFICES ASSUME n \in T PROVE FALSE
      OBVIOUS
    <3>2. T \in SUBSET Nat
      OBVIOUS
    <3>3. PICK m \in T : \A k \in T : m <= k
      BY <3>1, <3>2, LeastNatural
    <3>4. m \in 1 .. n /\ m # 0
      BY <2>7, <3>3
    <3>5. m - 1 \in 0 .. n /\ ~ (m <= m - 1) /\ m \in 0 .. n /\ m \in 1 .. Len(list)
      BY <1>1, <3>4
    <3>6. WalkInv(w[m - 1], list, m - 1)
      BY <3>3, <3>5
    <3>7. w[m] = AddRow(w[m - 1], list[m])
      BY <2>6, <3>4, <3>5
    <3>8. WalkInv(AddRow(w[m - 1], list[m]), list, m)
      BY <3>5, <3>6, RowWalked
    <3>. QED
      BY <3>3, <3>7, <3>8
  <2>9. PICK acc : acc = w[n]
    OBVIOUS
  <2>10. /\ AreBatches(acc.done) /\ acc.last \in Seq(1 .. Len(steps)) /\ acc.last # <<>>
         /\ Concat(acc.done) \o acc.last = SubSeq(list, 1, n)
    BY <2>5, <2>8, <2>9 DEF WalkInv
  <2>11. PICK done : done = acc.done /\ AreBatches(done)
    BY <2>10
  <2>12. PICK last \in Seq(1 .. Len(steps)) : last = acc.last /\ last # <<>>
    BY <2>10
  <2>13. AreBatches(Append(done, last)) /\ Concat(Append(done, last)) = Concat(done) \o last
    BY <2>11, <2>12, BatchAppended
  <2>14. SubSeq(list, 1, n) = list
    BY <1>1
  <2>. QED
    BY <2>4, <2>9, <2>10, <2>11, <2>12, <2>13, <2>14
<1>. QED
  BY <1>3, <1>4

----------------------------------------------------------------------------
(* From the source to the files                                            *)

\* What the batches of the mode are
LEMMA PartsAre ==
  ASSUME SourceTypes
  PROVE  /\ AreBatches(Parts) /\ Concat(Parts) = rows /\ Len(Parts) \in Nat
         /\ HoldsPieces(rows, Parts, 1 .. Len(steps), Len(Parts))
         /\ Counts(Lengths(Parts), Len(Parts))
<1>1. PICK list \in Seq(1 .. Len(steps)) : list = rows
  BY DEF SourceTypes
<1>2. AreBatches(RowBatches(list)) /\ Concat(RowBatches(list)) = list
  BY BatchesAre
<1>3. AreBatches(Parts) /\ Concat(Parts) = rows
  BY <1>1, <1>2 DEF Parts
<1>4. PICK parts : parts = Parts
  OBVIOUS
<1>5. /\ HoldsPieces(Concat(parts), parts, 1 .. Len(steps), Len(parts))
      /\ Len(parts) \in Nat /\ Counts(Lengths(parts), Len(parts))
  BY <1>3, <1>4, BatchesHold
<1>. QED
  BY <1>3, <1>4, <1>5

\* Where the batches end
LEMMA EndsAre ==
  ASSUME SourceTypes
  PROVE  /\ EndOf(0) = 0 /\ EndOf(Len(Parts)) = Len(rows) /\ Len(Parts) \in Nat
         /\ \A b \in 0 .. Len(Parts) : EndOf(b) \in 0 .. Len(rows)
<1>1. Len(Parts) \in Nat /\ Counts(Lengths(Parts), Len(Parts)) /\ HoldsPieces(rows, Parts, 1 .. Len(steps), Len(Parts))
  BY PartsAre
<1>2. PICK n \in Nat : n = Len(Parts)
  BY <1>1
<1>3. EndOf(n) = Len(rows) /\ EndOf(0) = 0
  BY <1>1, <1>2, SumUpTo DEF EndOf, HoldsPieces
<1>4. ASSUME NEW b \in 0 .. n PROVE EndOf(b) \in 0 .. Len(rows)
  <2>1. n \in b .. n
    OBVIOUS
  <2>2. EndOf(b) <= EndOf(n)
    BY <1>1, <1>2, <2>1, SumsGrow DEF EndOf
  <2>3. EndOf(b) \in Nat /\ EndOf(n) \in Nat
    BY <1>1, <1>2, SumUpTo DEF EndOf
  <2>. QED
    BY <1>3, <2>2, <2>3
<1>. QED
  BY <1>2, <1>3, <1>4

\* Where the rows of a batch are
LEMMA PartIs ==
  ASSUME SourceTypes, NEW b \in 1 .. Len(Parts)
  PROVE  /\ IsMode(Parts[b]) /\ Parts[b] # <<>> /\ Len(Parts[b]) \in Nat
         /\ EndOf(b) = EndOf(b - 1) + Len(Parts[b]) /\ EndOf(b - 1) \in 0 .. Len(rows) /\ EndOf(b) \in 0 .. Len(rows)
         /\ \A i \in 1 .. Len(Parts[b]) : rows[EndOf(b - 1) + i] = Parts[b][i]
<1>1. PICK n \in Nat : n = Len(Parts)
  BY PartsAre
<1>2. AreBatches(Parts) /\ Counts(Lengths(Parts), n) /\ HoldsPieces(rows, Parts, 1 .. Len(steps), n)
  BY <1>1, PartsAre
<1>3. Parts \in Seq(Seq(1 .. Len(steps))) /\ Parts[b] # <<>>
  BY <1>1, <1>2 DEF AreBatches
<1>4. Parts[b] \in Seq(1 .. Len(steps))
  BY <1>1, <1>3, ElementOfSeq
<1>5. Lengths(Parts)[b] = Len(Parts[b])
  BY <1>1 DEF Lengths
<1>6. EndOf(b) = EndOf(b - 1) + Len(Parts[b])
  BY <1>1, <1>2, <1>5, SumUpTo DEF EndOf
<1>7. EndOf(b - 1) \in 0 .. Len(rows) /\ EndOf(b) \in 0 .. Len(rows)
  BY <1>1, EndsAre
<1>8. \A i \in 1 .. Len(Parts[b]) : rows[EndOf(b - 1) + i] = Parts[b][i]
  BY <1>1, <1>2 DEF HoldsPieces, EndOf
<1>. QED
  BY <1>3, <1>4, <1>6, <1>7, <1>8 DEF IsMode

\* The source does not change.
LEMMA SourceStays ==
  ASSUME SourceTypes, UNCHANGED sourceVars, rows' \in Seq(1 .. Len(steps))
  PROVE  SourceTypes' /\ UNCHANGED <<steps, wanted, inWidth, outWidth>>
<1>1. UNCHANGED <<steps, wanted, inWidth, outWidth>>
  BY DEF sourceVars
<1>. QED
  BY <1>1 DEF SourceTypes, All

LEMMA ArrowInitial == ArrowInit => BundleInv
<1>1. SUFFICES ASSUME ArrowInit PROVE BundleInv
  OBVIOUS
<1>2. MaxSource \in Nat /\ MaxSteps \in Nat /\ Widths \subseteq Nat \ {0}
  BY ArrowAssumption
<1>3. PICK n \in Nat : steps \in [1 .. n -> 0 .. MaxSteps]
  BY <1>1, <1>2 DEF ArrowInit
<1>4. Len(steps) = n /\ steps = [k \in 1 .. n |-> steps[k]] /\ \A k \in 1 .. n : steps[k] \in Nat
  BY <1>2, <1>3
<1>5. rows = [k \in 1 .. n |-> k]
  BY <1>1, <1>4 DEF ArrowInit, Numbers
<1>6. rows \in Seq(1 .. n)
  BY <1>5
<1>7. wanted \in Int /\ (wanted = All \/ wanted >= 1)
  BY <1>1, <1>2 DEF ArrowInit, All
<1>8. inWidth \in Nat \ {0} /\ outWidth \in Nat \ {0}
  BY <1>1, <1>2 DEF ArrowInit
<1>9. SourceTypes
  BY <1>4, <1>6, <1>7, <1>8 DEF SourceTypes
<1>10. exportAt = "source" /\ featureFile = <<>> /\ labelFile = <<>> /\ seqLen = <<>>
  BY <1>1 DEF ArrowInit
<1>11. rows = Numbers(Len(steps))
  BY <1>1 DEF ArrowInit
<1>. QED
  BY <1>9, <1>10, <1>11 DEF BundleInv

LEMMA TrimLeaves == BundleInv /\ Trim => BundleInv'
<1>1. SUFFICES ASSUME BundleInv, Trim PROVE BundleInv'
  OBVIOUS
<1>2. SourceTypes /\ rows = Numbers(Len(steps)) /\ featureFile = <<>> /\ labelFile = <<>> /\ seqLen = <<>>
  BY <1>1 DEF BundleInv, Trim
<1>3. /\ UNCHANGED sourceVars /\ UNCHANGED steps /\ UNCHANGED wanted
      /\ featureFile' = <<>> /\ labelFile' = <<>> /\ seqLen' = <<>> /\ exportAt' = "mode"
  BY <1>1, <1>2 DEF Trim, manifestVars, sourceVars
<1>4. PICK n \in Nat : n = Len(rows) /\ StepsOf(rows) = SumUp(steps)
  BY <1>2, NumbersAre
<1>5. rows \in Seq(1 .. Len(steps)) /\ IsMode(rows)
  BY <1>2 DEF SourceTypes, IsMode
<1>6. PICK mode : mode = rows'
  OBVIOUS
<1>7. /\ IsMode(mode)
      /\ StepsOf(mode) = StepsOf(rows) \/ (wanted # All /\ StepsOf(mode) >= wanted)
      /\ wanted > 0 /\ mode # <<>> => StepsOf(Front(mode)) < wanted
  <2>1. CASE wanted = All
    <3>1. mode = rows
      BY <1>1, <1>6, <2>1 DEF Trim
    <3>. QED
      BY <1>5, <2>1, <3>1 DEF All
  <2>2. CASE wanted # All
    <3>1. PICK z \in 0 .. n :
            /\ Min({CutOff(Min({wanted, StepsOf(rows)})), n}) = z
            /\ UpTo(z) = StepsOf(rows) \/ UpTo(z) >= wanted
            /\ z # 0 => UpTo(z - 1) < wanted
      BY <1>2, <1>4, <2>2, TrimKeeps
    <3>2. mode = SubSeq(rows, 1, z)
      BY <1>1, <1>4, <1>6, <2>2, <3>1 DEF Trim
    <3>3. z \in 0 .. Len(rows)
      BY <1>4
    <3>4. IsMode(mode) /\ Len(mode) = z /\ StepsOf(mode) = UpTo(z)
      BY <1>2, <1>5, <3>2, <3>3, StepsOfFirst DEF UpTo
    <3>5. ASSUME mode # <<>> PROVE StepsOf(Front(mode)) < wanted
      <4>1. z # 0 /\ z - 1 \in 0 .. Len(rows) /\ z - 1 \in Nat
        BY <1>4, <3>4, <3>5, EmptySeq DEF IsMode
      <4>2. Front(mode) = SubSeq(rows, 1, z - 1)
        <5>1. PICK list \in Seq(1 .. Len(steps)) : list = rows /\ z <= Len(list)
          BY <1>4, <1>5
        <5>2. PICK y \in Nat : y = z - 1 /\ y < z
          BY <4>1
        <5>3. SubSeq(list, 1, z) = [i \in 1 .. z |-> list[i]] /\ SubSeq(list, 1, y) = [i \in 1 .. y |-> list[i]]
          BY <5>1, <5>2
        <5>4. SubSeq(mode, 1, y) = [i \in 1 .. y |-> mode[i]]
          BY <3>2, <3>4, <5>2 DEF IsMode
        <5>5. ASSUME NEW i \in 1 .. y PROVE mode[i] = list[i]
          <6>1. i \in 1 .. z
            BY <5>2
          <6>. QED
            BY <3>2, <5>1, <5>3, <6>1
        <5>6. SubSeq(mode, 1, y) = SubSeq(list, 1, y)
          BY <5>3, <5>4, <5>5
        <5>. QED
          BY <3>4, <5>1, <5>2, <5>6 DEF Front
      <4>3. StepsOf(SubSeq(rows, 1, z - 1)) = UpTo(z - 1)
        BY <1>2, <1>5, <4>1, StepsOfFirst DEF UpTo
      <4>. QED
        BY <3>1, <4>1, <4>2, <4>3
    <3>. QED
      BY <2>2, <3>1, <3>4, <3>5
  <2>. QED
    BY <2>1, <2>2
<1>8. SourceTypes'
  <2>1. rows' \in Seq(1 .. Len(steps))
    BY <1>6, <1>7 DEF IsMode
  <2>. QED
    BY <1>2, <1>3, <2>1, SourceStays
<1>9. StepsOf(rows)' = StepsOf(mode) /\ SumUp(steps)' = SumUp(steps) /\ StepsOf(Front(rows))' = StepsOf(Front(mode))
  BY <1>3, <1>6 DEF StepsOf
<1>10. ModeInv'
  BY <1>3, <1>4, <1>6, <1>7, <1>9 DEF ModeInv, All
<1>. QED
  BY <1>3, <1>8, <1>10 DEF BundleInv

\* The batches of a list depend on the source only.
LEMMA BatchesStay ==
  ASSUME UNCHANGED <<steps, inWidth>>, NEW list, rows' = list
  PROVE  Parts' = RowBatches(list)
<1>1. RowBatches(rows)' = RowBatches(list)
  BY DEF RowBatches, AddRow, RowSize
<1>. QED
  BY <1>1 DEF Parts

LEMMA SplitLeaves == BundleInv /\ Split => BundleInv'
<1>1. SUFFICES ASSUME BundleInv, Split PROVE BundleInv'
  OBVIOUS
<1>2. SourceTypes /\ featureFile = <<>> /\ labelFile = <<>> /\ seqLen = <<>>
  BY <1>1 DEF BundleInv, Split
<1>3. /\ UNCHANGED sourceVars /\ UNCHANGED <<steps, inWidth>>
      /\ featureFile' = <<>> /\ labelFile' = <<>> /\ seqLen' = <<>> /\ exportAt' = "export"
  BY <1>1, <1>2 DEF Split, manifestVars, sourceVars
<1>4. PICK list : list = rows' /\ batches' = RowBatches(list)
  BY <1>1 DEF Split
<1>5. list \in Seq(1 .. Len(steps))
  <2>1. PICK l \in Seq(1 .. Len(steps)) : l = rows
    BY <1>2 DEF SourceTypes
  <2>2. PICK cut \in 0 .. Len(l) : list \in {SubSeq(l, 1, cut), SubSeq(l, cut + 1, Len(l))}
    BY <1>1, <1>4, <2>1 DEF Split
  <2>3. SubSeq(l, 1, cut) \in Seq(1 .. Len(steps)) /\ SubSeq(l, cut + 1, Len(l)) \in Seq(1 .. Len(steps))
    BY <2>2
  <2>. QED
    BY <2>2, <2>3
<1>6. SourceTypes'
  BY <1>2, <1>3, <1>4, <1>5, SourceStays
<1>7. PICK parts : parts = RowBatches(list) /\ AreBatches(parts)
  BY <1>5, BatchesAre
<1>8. Parts' = parts /\ batches' = parts
  BY <1>3, <1>4, <1>7, BatchesStay
<1>9. Len(parts) \in Nat /\ Counts(Lengths(parts), Len(parts)) /\ parts = SubSeq(parts, 1, Len(parts))
  <2>1. parts \in Seq(Seq(1 .. Len(steps)))
    BY <1>7 DEF AreBatches
  <2>. QED
    BY <1>7, <2>1, BatchesHold
<1>10. EndOf(0)' = 0
  <2>1. SumOver(Lengths(parts), 1, 0) = 0
    BY <1>9, SumUpTo
  <2>. QED
    BY <1>8, <2>1 DEF EndOf
<1>11. Exported' = 0
  BY <1>3 DEF Exported
<1>12. ExportInv'
  <2>1. (Exported \in 0 .. Len(Parts))'
    BY <1>8, <1>9, <1>11
  <2>2. (featureFile = [b \in 1 .. Exported |-> Features(Parts[b])])'
    BY <1>3, <1>11
  <2>3. (labelFile = [b \in 1 .. Exported |-> LabelRows(Parts[b])])'
    BY <1>3, <1>11
  <2>4. (batches = SubSeq(Parts, Exported + 1, Len(Parts)))'
    BY <1>8, <1>9, <1>11
  <2>5. (Len(seqLen) = EndOf(Exported) /\ seqLen = [k \in 1 .. EndOf(Exported) |-> steps[rows[k]]])'
    BY <1>3, <1>10, <1>11
  <2>6. (\A b \in 1 .. Exported : WidthOf(Parts[b]) = numFeatures)'
    BY <1>11
  <2>. QED
    BY <2>1, <2>2, <2>3, <2>4, <2>5, <2>6 DEF ExportInv
<1>. QED
  BY <1>3, <1>6, <1>12 DEF BundleInv

\* What the files hold depends on the source and the mode only.
LEMMA FilesStay ==
  ASSUME UNCHANGED sourceVars, UNCHANGED rows
  PROVE  /\ Parts' = Parts /\ \A b : EndOf(b)' = EndOf(b)
         /\ \A b : /\ Features(Parts[b])' = Features(Parts[b]) /\ LabelRows(Parts[b])' = LabelRows(Parts[b])
                   /\ WidthOf(Parts[b])' = WidthOf(Parts[b])
<1>1. UNCHANGED <<steps, inWidth, outWidth>>
  BY DEF sourceVars
<1>2. Parts' = Parts
  BY <1>1, BatchesStay DEF Parts
<1>3. ASSUME NEW b PROVE EndOf(b)' = EndOf(b)
  BY <1>2 DEF EndOf
<1>4. ASSUME NEW b PROVE Features(Parts[b])' = Features(Parts[b])
  BY <1>1, <1>2 DEF Features, Values
<1>5. ASSUME NEW b PROVE LabelRows(Parts[b])' = LabelRows(Parts[b])
  BY <1>1, <1>2 DEF LabelRows, Labels
<1>6. ASSUME NEW b PROVE WidthOf(Parts[b])' = WidthOf(Parts[b])
  BY <1>1, <1>2 DEF WidthOf, StepsOf
<1>. QED
  BY <1>2, <1>3, <1>4, <1>5, <1>6

\* An export that goes on, or is done, keeps what is in the files.
LEMMA ExportStays ==
  ASSUME SourceTypes, ExportInv, UNCHANGED sourceVars, UNCHANGED <<rows, batches>>, UNCHANGED manifestVars
  PROVE  SourceTypes' /\ ExportInv' /\ Exported' = Exported /\ Parts' = Parts
<1>1. SourceTypes' /\ UNCHANGED steps
  BY SourceStays DEF SourceTypes
<1>2. UNCHANGED <<seqLen, numFeatures, featureFile, labelFile>>
  BY DEF manifestVars
<1>3. Exported' = Exported
  BY <1>2 DEF Exported
<1>4. /\ Parts' = Parts /\ \A b : EndOf(b)' = EndOf(b)
      /\ \A b : /\ Features(Parts[b])' = Features(Parts[b]) /\ LabelRows(Parts[b])' = LabelRows(Parts[b])
                /\ WidthOf(Parts[b])' = WidthOf(Parts[b])
  BY FilesStay
<1>5. PICK e : e = Exported
  OBVIOUS
<1>6. (featureFile = [b \in 1 .. Exported |-> Features(Parts[b])])'
  BY <1>2, <1>3, <1>4 DEF ExportInv
<1>7. (labelFile = [b \in 1 .. Exported |-> LabelRows(Parts[b])])'
  BY <1>2, <1>3, <1>4 DEF ExportInv
<1>8. (batches = SubSeq(Parts, Exported + 1, Len(Parts)))'
  BY <1>3, <1>4 DEF ExportInv
<1>9. EndOf(Exported)' = EndOf(Exported)
  BY <1>3, <1>4 DEF EndOf
<1>10. (Len(seqLen) = EndOf(Exported) /\ seqLen = [k \in 1 .. EndOf(Exported) |-> steps[rows[k]]])'
  BY <1>1, <1>2, <1>9 DEF ExportInv
<1>11. (\A b \in 1 .. Exported : WidthOf(Parts[b]) = numFeatures)'
  BY <1>2, <1>3, <1>4 DEF ExportInv
<1>12. (Exported \in 0 .. Len(Parts))'
  BY <1>3, <1>4 DEF ExportInv
<1>13. ExportInv'
  BY <1>6, <1>7, <1>8, <1>10, <1>11, <1>12 DEF ExportInv
<1>. QED
  BY <1>1, <1>3, <1>4, <1>13

\* A place more at the end of a function over 1 .. n
LEMMA AppendIsFunction ==
  ASSUME NEW n \in Nat, NEW f, NEW F, f = [k \in 1 .. n |-> F[k]], NEW x, x = F[n + 1]
  PROVE  Append(f, x) = [k \in 1 .. n + 1 |-> F[k]]
<1> DEFINE S == {F[k] : k \in 1 .. n + 1}
<1>1. f \in [1 .. n -> S] /\ x \in S
  OBVIOUS
<1> HIDE DEF S
<1>2. f \in Seq(S) /\ Len(f) = n
  BY <1>1
<1>3. /\ Append(f, x) \in Seq(S) /\ Len(Append(f, x)) = n + 1
      /\ \A i \in 1 .. n : Append(f, x)[i] = f[i]
      /\ Append(f, x)[n + 1] = x
  BY <1>1, <1>2, AppendProperties
<1>4. Append(f, x) = [k \in 1 .. n + 1 |-> Append(f, x)[k]]
  BY <1>3, SequenceIsFunction
<1>5. ASSUME NEW k \in 1 .. n + 1 PROVE Append(f, x)[k] = F[k]
  <2>1. CASE k = n + 1
    BY <1>3, <2>1
  <2>2. CASE k # n + 1
    <3>1. k \in 1 .. n
      BY <2>2
    <3>. QED
      BY <1>3, <3>1
  <2>. QED
    BY <2>1, <2>2
<1>. QED
  BY <1>4, <1>5

\* What is not written yet begins with the next batch.
LEMMA NextBatch ==
  ASSUME SourceTypes, ExportInv
  PROVE  /\ Exported \in Nat /\ Len(Parts) \in Nat /\ Exported <= Len(Parts)
         /\ batches = <<>> <=> Exported = Len(Parts)
         /\ batches # <<>> =>
              /\ Exported + 1 \in 1 .. Len(Parts) /\ Head(batches) = Parts[Exported + 1]
              /\ Tail(batches) = SubSeq(Parts, Exported + 2, Len(Parts))
<1>1. PICK n \in Nat : n = Len(Parts)
  BY PartsAre
<1>2. PICK e \in 0 .. n : e = Exported
  BY <1>1 DEF ExportInv
<1>3. PICK S : S = Seq(1 .. Len(steps))
  OBVIOUS
<1>4. PICK parts \in Seq(S) : parts = Parts /\ Len(parts) = n
  BY <1>1, <1>3, PartsAre DEF AreBatches
<1>5. batches = SubSeq(parts, e + 1, n)
  BY <1>1, <1>2, <1>4 DEF ExportInv
<1>6. PICK m \in Nat : m = n - e
  BY <1>2
<1>7. batches \in Seq(S) /\ Len(batches) = m /\ \A i \in 1 .. m : batches[i] = parts[e + i]
  <2>1. PICK f \in Int, t \in Int : f = e + 1 /\ t = n
    OBVIOUS
  <2>2. 1 <= f /\ t <= Len(parts) /\ t - f + 1 = m
    BY <1>4, <1>6, <2>1
  <2>3. SubSeq(parts, f, t) = [i \in 1 .. m |-> parts[f + i - 1]]
    BY <1>4, <2>2
  <2>4. ASSUME NEW i \in 1 .. m PROVE parts[f + i - 1] = parts[e + i] /\ parts[e + i] \in S
    <3>1. f + i - 1 = e + i /\ e + i \in 1 .. n
      BY <1>6, <2>1
    <3>. QED
      BY <1>4, <3>1, ElementOfSeq
  <2>5. SubSeq(parts, f, t) \in [1 .. m -> S]
    BY <2>3, <2>4
  <2>6. SubSeq(parts, f, t) \in Seq(S) /\ Len(SubSeq(parts, f, t)) = m
    BY <2>5, FunctionIsList
  <2>. QED
    BY <1>5, <2>1, <2>3, <2>4, <2>6
<1>8. batches = <<>> <=> e = n
  BY <1>6, <1>7, EmptySeq
<1>9. ASSUME batches # <<>>
      PROVE  e + 1 \in 1 .. n /\ Head(batches) = parts[e + 1] /\ Tail(batches) = SubSeq(parts, e + 2, n)
  <2>1. m >= 1 /\ e + 1 \in 1 .. n
    BY <1>6, <1>8, <1>9
  <2>2. Head(batches) = parts[e + 1]
    BY <1>7, <2>1
  <2>3. Tail(batches) = [i \in 1 .. m - 1 |-> batches[i + 1]]
    <3>1. /\ Tail(batches) \in Seq(S) /\ Len(Tail(batches)) = Len(batches) - 1
          /\ \A i \in 1 .. Len(Tail(batches)) : Tail(batches)[i] = batches[i + 1]
      BY <1>7, <1>9, HeadTailProperties
    <3>2. Tail(batches) = [i \in 1 .. Len(Tail(batches)) |-> Tail(batches)[i]]
      BY <3>1, SequenceIsFunction
    <3>. QED
      BY <1>7, <3>1, <3>2
  <2>4. PICK f \in Int, t \in Int, l \in Nat : f = e + 2 /\ t = n /\ l = m - 1 /\ t - f + 1 = l /\ 1 <= f /\ t <= Len(parts)
    BY <1>4, <1>6, <2>1
  <2>5. SubSeq(parts, f, t) = [i \in 1 .. l |-> parts[f + i - 1]]
    BY <1>4, <2>4
  <2>6. ASSUME NEW i \in 1 .. l PROVE batches[i + 1] = parts[f + i - 1]
    <3>1. i + 1 \in 1 .. m /\ e + (i + 1) = f + i - 1
      BY <2>4
    <3>. QED
      BY <1>7, <3>1
  <2>7. Tail(batches) = SubSeq(parts, f, t)
    BY <2>3, <2>4, <2>5, <2>6
  <2>. QED
    BY <2>1, <2>2, <2>4, <2>7
<1>. QED
  BY <1>1, <1>2, <1>4, <1>8, <1>9

\* A batch without a step holds a sequence without one.
LEMMA BatchWithoutSteps ==
  ASSUME SourceTypes, NEW b \in 1 .. Len(Parts), StepsOf(Parts[b]) = 0
  PROVE  \E s \in ToSet(rows) : steps[s] = 0
<1>1. PICK list : list = Parts[b]
  OBVIOUS
<1>2. PICK n \in Nat : n = Len(list)
  BY <1>1, PartIs
<1>3. IsMode(list) /\ list # <<>>
  BY <1>1, PartIs
<1>4. Counts(StepList(list), n) /\ SumOver(StepList(list), 1, n) = 0
  BY <1>1, <1>2, <1>3, StepListIs
<1>5. n >= 1
  BY <1>2, <1>3, EmptySeq DEF IsMode
<1>6. SumOver(StepList(list), 1, 1) = SumOver(StepList(list), 1, 0) + StepList(list)[1]
  <2>1. PICK one \in 1 .. n : one = 1 /\ one - 1 = 0
    BY <1>5
  <2>2. SumOver(StepList(list), 1, one) = SumOver(StepList(list), 1, one - 1) + StepList(list)[one]
    BY <1>4, SumUpTo
  <2>. QED
    BY <2>1, <2>2
<1>7. SumOver(StepList(list), 1, 1) <= SumOver(StepList(list), 1, n)
  <2>1. 1 \in 0 .. n /\ n \in 1 .. n
    BY <1>5
  <2>. QED
    BY <1>4, <2>1, SumsGrow
<1>8. StepList(list)[1] = steps[list[1]] /\ StepList(list)[1] \in Nat
  BY <1>2, <1>3, <1>4, <1>5, StepListIs DEF Counts
<1>9. steps[list[1]] = 0
  <2>1. SumOver(StepList(list), 1, 0) = 0
    BY <1>4, SumUpTo
  <2>. QED
    BY <1>4, <1>6, <1>7, <1>8, <2>1
<1>10. list[1] \in ToSet(rows)
  <2>1. 1 \in 1 .. Len(Parts[b])
    BY <1>1, <1>2, <1>5
  <2>2. rows[EndOf(b - 1) + 1] = list[1]
    BY <1>1, <2>1, PartIs
  <2>3. PICK x \in Nat, y \in Nat : x = EndOf(b - 1) /\ y = Len(rows) /\ x + n = EndOf(b) /\ x + n <= y
    BY <1>1, <1>2, PartIs
  <2>4. x + 1 \in 1 .. Len(rows)
    BY <1>5, <2>3
  <2>5. DOMAIN rows = 1 .. Len(rows)
    BY DEF SourceTypes
  <2>. QED
    BY <2>2, <2>3, <2>4, <2>5 DEF ToSet
<1>. QED
  BY <1>9, <1>10

\* Writing a batch puts it behind those before it.
LEMMA BatchWritten ==
  ASSUME SourceTypes, ExportInv, NEW batch, WriteBatch(batch), NEW e, e = Exported,
         e + 1 \in 1 .. Len(Parts), batch = Parts[e + 1]
  PROVE  /\ featureFile' = [b \in 1 .. e + 1 |-> Features(Parts[b])]
         /\ labelFile' = [b \in 1 .. e + 1 |-> LabelRows(Parts[b])]
         /\ seqLen' = [k \in 1 .. EndOf(e + 1) |-> steps[rows[k]]] /\ Len(seqLen') = EndOf(e + 1)
         /\ Len(featureFile') = e + 1
         /\ numFeatures' = WidthOf(batch)
<1>1. e \in Nat /\ Len(Parts) \in Nat
  BY NextBatch
<1>2. PICK F : F = [b \in 1 .. e + 1 |-> Features(Parts[b])]
  OBVIOUS
<1>3. featureFile' = F
  <2>1. featureFile = [b \in 1 .. e |-> F[b]]
    <3>1. featureFile = [b \in 1 .. e |-> Features(Parts[b])]
      BY DEF ExportInv
    <3>2. ASSUME NEW b \in 1 .. e PROVE F[b] = Features(Parts[b])
      <4>1. b \in 1 .. e + 1
        BY <1>1
      <4>. QED
        BY <1>2, <4>1
    <3>. QED
      BY <3>1, <3>2
  <2>2. featureFile' = Append(featureFile, Features(batch))
    BY DEF WriteBatch, Features
  <2>3. Features(batch) = F[e + 1]
    BY <1>1, <1>2
  <2>4. Append(featureFile, F[e + 1]) = [b \in 1 .. e + 1 |-> F[b]]
    BY <1>1, <2>1, AppendIsFunction
  <2>. QED
    BY <1>2, <2>2, <2>3, <2>4
<1>4. PICK G : G = [b \in 1 .. e + 1 |-> LabelRows(Parts[b])]
  OBVIOUS
<1>5. labelFile' = G
  <2>1. labelFile = [b \in 1 .. e |-> G[b]]
    <3>1. labelFile = [b \in 1 .. e |-> LabelRows(Parts[b])]
      BY DEF ExportInv
    <3>2. ASSUME NEW b \in 1 .. e PROVE G[b] = LabelRows(Parts[b])
      <4>1. b \in 1 .. e + 1
        BY <1>1
      <4>. QED
        BY <1>4, <4>1
    <3>. QED
      BY <3>1, <3>2
  <2>2. labelFile' = Append(labelFile, LabelRows(batch))
    BY DEF WriteBatch, LabelRows
  <2>3. LabelRows(batch) = G[e + 1]
    BY <1>1, <1>4
  <2>4. Append(labelFile, G[e + 1]) = [b \in 1 .. e + 1 |-> G[b]]
    BY <1>1, <2>1, AppendIsFunction
  <2>. QED
    BY <1>4, <2>2, <2>3, <2>4
<1>6. Len(featureFile') = e + 1
  BY <1>1, <1>2, <1>3
<1>7. PICK n \in Nat, m \in Nat : n = EndOf(e) /\ m = Len(batch) /\ EndOf(e + 1) = n + m /\ n + m <= Len(rows)
  <2>1. PICK b \in 1 .. Len(Parts) : b = e + 1 /\ b - 1 = e
    BY <1>1
  <2>2. EndOf(b) = EndOf(b - 1) + Len(Parts[b]) /\ Len(Parts[b]) \in Nat /\ EndOf(b - 1) \in 0 .. Len(rows) /\ EndOf(b) \in 0 .. Len(rows)
    BY <2>1, PartIs
  <2>. QED
    BY <2>1, <2>2
<1>8. \A i \in 1 .. m : rows[n + i] = batch[i]
  <2>1. PICK b \in 1 .. Len(Parts) : b = e + 1 /\ b - 1 = e
    BY <1>1
  <2>2. \A i \in 1 .. Len(Parts[b]) : rows[EndOf(b - 1) + i] = Parts[b][i]
    BY PartIs
  <2>. QED
    BY <1>7, <2>1, <2>2
<1>9. PICK p, q : p = seqLen /\ q = [k \in 1 .. m |-> steps[batch[k]]]
  OBVIOUS
<1>10. seqLen' = p \o q
  <2>1. DOMAIN batch = 1 .. m
    <3>1. IsMode(batch)
      BY PartIs
    <3>. QED
      BY <1>7, <3>1 DEF IsMode
  <2>. QED
    BY <1>9, <2>1 DEF WriteBatch
<1>11. p = [k \in 1 .. n |-> steps[rows[k]]]
  BY <1>7, <1>9 DEF ExportInv
<1>12. Listed(p) /\ Len(p) = n /\ Listed(q) /\ Len(q) = m
  <2>1. p = [k \in 1 .. n |-> p[k]] /\ q = [k \in 1 .. m |-> q[k]]
    BY <1>9, <1>11
  <2>. QED
    BY <2>1, ListedFunction
<1>13. /\ Listed(p \o q) /\ Len(p \o q) = n + m
       /\ \A i \in 1 .. n : (p \o q)[i] = p[i]
       /\ \A i \in 1 .. m : (p \o q)[n + i] = q[i]
  <2>1. /\ Listed(p \o q) /\ Len(p \o q) = Len(p) + Len(q)
        /\ \A i \in 1 .. Len(p) : (p \o q)[i] = p[i]
        /\ \A i \in 1 .. Len(q) : (p \o q)[Len(p) + i] = q[i]
    BY <1>12, JoinedLists
  <2>. QED
    BY <1>12, <2>1
<1>14. ASSUME NEW k \in 1 .. n + m PROVE (p \o q)[k] = steps[rows[k]]
  <2>1. CASE k <= n
    <3>1. k \in 1 .. n
      BY <1>7, <2>1
    <3>. QED
      BY <1>11, <1>13, <3>1
  <2>2. CASE ~ (k <= n)
    <3>1. PICK i \in 1 .. m : k = n + i
      <4>1. k - n \in 1 .. m /\ k = n + (k - n)
        BY <1>7, <2>2
      <4>. QED
        BY <4>1
    <3>2. (p \o q)[n + i] = q[i] /\ q[i] = steps[batch[i]]
      BY <1>9, <1>13
    <3>3. rows[n + i] = batch[i]
      BY <1>8
    <3>. QED
      BY <3>1, <3>2, <3>3
  <2>. QED
    BY <2>1, <2>2
<1>15. p \o q = [k \in 1 .. n + m |-> (p \o q)[k]]
  BY <1>13, SequenceIsFunction DEF Listed
<1>16. seqLen' = [k \in 1 .. EndOf(e + 1) |-> steps[rows[k]]] /\ Len(seqLen') = EndOf(e + 1)
  BY <1>7, <1>10, <1>13, <1>14, <1>15
<1>17. numFeatures' = WidthOf(batch)
  BY DEF WriteBatch
<1>. QED
  BY <1>2, <1>3, <1>4, <1>5, <1>6, <1>16, <1>17

\* Every step of the export keeps what is in the files.
LEMMA ExportLeaves == BundleInv /\ Export => BundleInv'
<1>1. SUFFICES ASSUME BundleInv, Export PROVE BundleInv'
  OBVIOUS
<1>2. SourceTypes /\ ExportInv /\ exportAt = "export"
  BY <1>1 DEF BundleInv, Export
<1>3. UNCHANGED sourceVars /\ UNCHANGED rows
  BY <1>1 DEF Export
<1>4. SourceTypes' /\ UNCHANGED <<steps, wanted, inWidth, outWidth>>
  BY <1>2, <1>3, SourceStays DEF SourceTypes
<1>5. PICK e \in Nat, n \in Nat : e = Exported /\ n = Len(Parts)
  BY <1>2, NextBatch
<1>6. /\ Parts' = Parts /\ \A b : EndOf(b)' = EndOf(b)
      /\ \A b : /\ Features(Parts[b])' = Features(Parts[b]) /\ LabelRows(Parts[b])' = LabelRows(Parts[b])
                /\ WidthOf(Parts[b])' = WidthOf(Parts[b])
  BY <1>3, FilesStay
<1>7. CASE batches = <<>> /\ exportAt' = "written" /\ UNCHANGED <<batches, manifestVars>>
  <2>1. UNCHANGED <<rows, batches>> /\ UNCHANGED manifestVars
    BY <1>3, <1>7
  <2>2. ExportInv' /\ Exported' = Exported /\ Parts' = Parts
    BY <1>2, <1>3, <2>1, ExportStays
  <2>3. (Exported = Len(Parts))'
    BY <1>2, <1>7, <2>2, NextBatch
  <2>. QED
    BY <1>4, <1>7, <2>2, <2>3 DEF BundleInv
<1>8. CASE /\ batches # <<>> /\ featureFile # <<>> /\ numFeatures # WidthOf(Head(batches))
           /\ exportAt' = "raised"
  <2>1. e + 1 \in 1 .. n /\ Head(batches) = Parts[e + 1]
    BY <1>2, <1>5, <1>8, NextBatch
  <2>2. e # 0
    <3>1. SUFFICES ASSUME e = 0 PROVE FALSE
      OBVIOUS
    <3>2. featureFile = [b \in 1 .. 0 |-> Features(Parts[b])]
      BY <1>2, <1>5, <3>1 DEF ExportInv
    <3>3. featureFile = <<>>
      BY <3>2
    <3>. QED
      BY <1>8, <3>3
  <2>3. e \in 1 .. e /\ e \in 1 .. n
    BY <1>5, <2>1, <2>2
  <2>4. numFeatures = WidthOf(Parts[e])
    BY <1>2, <1>5, <2>3 DEF ExportInv
  <2>5. WidthOf(Parts[e]) # WidthOf(Parts[e + 1])
    BY <1>8, <2>1, <2>4
  <2>6. inWidth # outWidth /\ (StepsOf(Parts[e]) = 0 \/ StepsOf(Parts[e + 1]) = 0)
    BY <2>5 DEF WidthOf
  <2>7. \E s \in ToSet(rows) : steps[s] = 0
    BY <1>2, <1>5, <2>1, <2>3, <2>6, BatchWithoutSteps
  <2>8. (inWidth # outWidth /\ \E s \in ToSet(rows) : steps[s] = 0)'
    BY <1>3, <1>4, <2>6, <2>7
  <2>. QED
    BY <1>4, <1>8, <2>8 DEF BundleInv
<1>9. CASE /\ batches # <<>>
           /\ featureFile = <<>> \/ numFeatures = WidthOf(Head(batches))
           /\ WriteBatch(Head(batches)) /\ batches' = Tail(batches) /\ UNCHANGED exportAt
  <2>1. PICK batch : batch = Head(batches)
    OBVIOUS
  <2>2. e + 1 \in 1 .. n /\ batch = Parts[e + 1] /\ batches' = SubSeq(Parts, e + 2, n)
    BY <1>2, <1>5, <1>9, <2>1, NextBatch
  <2>3. /\ featureFile' = [b \in 1 .. e + 1 |-> Features(Parts[b])]
        /\ labelFile' = [b \in 1 .. e + 1 |-> LabelRows(Parts[b])]
        /\ seqLen' = [k \in 1 .. EndOf(e + 1) |-> steps[rows[k]]] /\ Len(seqLen') = EndOf(e + 1)
        /\ Len(featureFile') = e + 1
        /\ numFeatures' = WidthOf(batch)
    BY <1>2, <1>5, <1>9, <2>1, <2>2, BatchWritten
  <2>4. Exported' = e + 1
    BY <2>3 DEF Exported
  <2>5. (featureFile = [b \in 1 .. Exported |-> Features(Parts[b])])'
    BY <1>6, <2>3, <2>4
  <2>6. (labelFile = [b \in 1 .. Exported |-> LabelRows(Parts[b])])'
    BY <1>6, <2>3, <2>4
  <2>7. (batches = SubSeq(Parts, Exported + 1, Len(Parts)))'
    <3>1. (e + 1) + 1 = e + 2
      BY <1>5
    <3>. QED
      BY <1>5, <1>6, <2>2, <2>4, <3>1
  <2>8. EndOf(Exported)' = EndOf(e + 1)
    BY <1>6, <2>4 DEF EndOf
  <2>9. (Len(seqLen) = EndOf(Exported) /\ seqLen = [k \in 1 .. EndOf(Exported) |-> steps[rows[k]]])'
    BY <1>3, <1>4, <2>3, <2>8
  <2>10. ASSUME NEW b \in 1 .. e + 1 PROVE WidthOf(Parts[b]) = numFeatures'
    <3>1. CASE b = e + 1
      BY <2>2, <2>3, <3>1
    <3>2. CASE b # e + 1
      <4>1. b \in 1 .. e /\ e # 0
        BY <1>5, <3>2
      <4>2. WidthOf(Parts[b]) = numFeatures
        BY <1>2, <1>5, <4>1 DEF ExportInv
      <4>3. featureFile # <<>>
        <5>1. Len(featureFile) # 0
          BY <1>5, <4>1 DEF Exported
        <5>. QED
          BY <5>1
      <4>. QED
        BY <1>9, <2>1, <2>3, <4>2, <4>3
    <3>. QED
      BY <3>1, <3>2
  <2>11. (\A b \in 1 .. Exported : WidthOf(Parts[b]) = numFeatures)'
    BY <1>6, <2>4, <2>10
  <2>12. (Exported \in 0 .. Len(Parts))'
    BY <1>5, <1>6, <2>2, <2>4
  <2>13. ExportInv'
    BY <2>5, <2>6, <2>7, <2>9, <2>11, <2>12 DEF ExportInv
  <2>. QED
    BY <1>2, <1>4, <1>9, <2>13 DEF BundleInv
<1>. QED
  BY <1>1, <1>7, <1>8, <1>9 DEF Export

----------------------------------------------------------------------------
(* The files, when all of the mode is written                              *)

FilesInv == SourceTypes /\ ExportInv /\ Exported = Len(Parts)

\* The steps of the first k sequences of the mode
StepsTo(k) == SumOver(seqLen, 1, k)

\* What the manifest says
LEMMA ManifestIs ==
  ASSUME FilesInv
  PROVE  /\ Len(rows) \in Nat /\ Len(seqLen) = Len(rows) /\ seqLen = StepList(rows)
         /\ Counts(seqLen, Len(rows)) /\ DOMAIN seqLen = 1 .. Len(rows)
         /\ Len(featureFile) = Len(Parts) /\ DOMAIN featureFile = 1 .. Len(Parts)
         /\ Len(labelFile) = Len(Parts) /\ Len(Parts) \in Nat
<1>1. SourceTypes /\ ExportInv /\ Exported = Len(Parts)
  BY DEF FilesInv
<1>2. PICK n \in Nat, parts \in Nat : n = Len(rows) /\ parts = Len(Parts) /\ EndOf(parts) = n
  <2>1. Len(Parts) \in Nat /\ EndOf(Len(Parts)) = Len(rows)
    BY <1>1, EndsAre
  <2>2. Len(rows) \in Nat
    BY <1>1 DEF SourceTypes
  <2>. QED
    BY <2>1, <2>2
<1>3. seqLen = [k \in 1 .. n |-> steps[rows[k]]] /\ Len(seqLen) = n
  BY <1>1, <1>2 DEF ExportInv
<1>4. IsMode(rows)
  BY <1>1 DEF SourceTypes, IsMode
<1>5. seqLen = StepList(rows)
  BY <1>2, <1>3 DEF StepList
<1>6. Counts(seqLen, n)
  BY <1>1, <1>2, <1>4, <1>5, StepListIs
<1>7. /\ featureFile = [b \in 1 .. parts |-> Features(Parts[b])]
      /\ labelFile = [b \in 1 .. parts |-> LabelRows(Parts[b])]
  BY <1>1, <1>2 DEF ExportInv
<1>8. Len(featureFile) = parts /\ DOMAIN featureFile = 1 .. parts /\ Len(labelFile) = parts
  BY <1>7
<1>. QED
  BY <1>2, <1>3, <1>5, <1>6, <1>8

\* The steps of the first sequences of a batch
LEMMA BatchSteps ==
  ASSUME FilesInv, NEW b \in 1 .. Len(Parts), NEW i \in 0 .. Len(Parts[b])
  PROVE  /\ SumOver(StepList(Parts[b]), 1, i) = StepsTo(EndOf(b - 1) + i) - StepsTo(EndOf(b - 1))
         /\ StepsTo(EndOf(b - 1)) \in Nat /\ StepsTo(EndOf(b - 1) + i) \in Nat
<1>1. SourceTypes /\ seqLen = StepList(rows) /\ IsMode(rows)
  BY ManifestIs DEF FilesInv, SourceTypes, IsMode
<1>2. PICK part : part = Parts[b]
  OBVIOUS
<1>3. PICK a \in 0 .. Len(rows) : a = EndOf(b - 1)
  BY <1>1, PartIs
<1>4. PICK m \in Nat : m = Len(part) /\ a + m <= Len(rows) /\ i \in 0 .. m
  <2>1. EndOf(b) = EndOf(b - 1) + Len(Parts[b]) /\ EndOf(b) \in 0 .. Len(rows) /\ Len(Parts[b]) \in Nat
    BY <1>1, PartIs
  <2>2. Len(rows) \in Nat
    BY ManifestIs
  <2>. QED
    BY <1>2, <1>3, <2>1, <2>2
<1>5. IsMode(part) /\ OnwardsFrom(rows, part, a, m)
  <2>1. \A j \in 1 .. m : rows[a + j] = part[j]
    BY <1>1, <1>2, <1>3, <1>4, PartIs
  <2>2. IsMode(part)
    BY <1>1, <1>2, PartIs
  <2>. QED
    BY <2>1, <2>2 DEF OnwardsFrom
<1>6. SumOver(StepList(part), 1, i) = SumOver(StepList(rows), 1, a + i) - SumOver(StepList(rows), 1, a)
  BY <1>1, <1>3, <1>4, <1>5, StepsOfPart
<1>7. SumOver(StepList(rows), 1, a) \in Nat /\ SumOver(StepList(rows), 1, a + i) \in Nat
  BY <1>1, <1>3, <1>4, <1>5, StepsOfPart
<1>. QED
  BY <1>1, <1>2, <1>3, <1>6, <1>7 DEF StepsTo

----------------------------------------------------------------------------
(* What is read from a concatenation                                       *)

\* Lists of known lengths
AreLists(p, d, n) == \A k \in 1 .. n : Listed(p[k]) /\ Len(p[k]) = d[k] /\ d[k] \in Nat

\* ... are pieces of these lengths, whatever is in them.
LEMMA ListsArePieces ==
  ASSUME NEW n \in Nat, NEW p, p = [k \in 1 .. n |-> p[k]], NEW d, d = [k \in 1 .. n |-> d[k]],
         AreLists(p, d, n)
  PROVE  \E S : p \in Seq(Seq(S)) /\ Len(p) = n /\ Lengths(p) = d /\ Counts(d, n)
<1>1. PICK S : S = UNION {{p[k][i] : i \in 1 .. d[k]} : k \in 1 .. n}
  OBVIOUS
<1>2. ASSUME NEW k \in 1 .. n PROVE p[k] \in Seq(S) /\ Len(p[k]) = d[k]
  <2>1. PICK q : q = p[k] /\ Listed(q) /\ Len(q) = d[k]
    BY DEF AreLists
  <2>2. PICK l \in Nat : l = d[k] /\ Len(q) = l
    BY <2>1 DEF AreLists
  <2>3. q \in Seq({q[i] : i \in 1 .. l})
    BY <2>1, <2>2 DEF Listed
  <2>4. {q[i] : i \in 1 .. l} \subseteq S
    BY <1>1, <2>1, <2>2
  <2>5. q \in Seq(S)
    BY <2>3, <2>4
  <2>. QED
    BY <2>1, <2>5
<1>3. AreLong(p, d, S, n)
  BY <1>2 DEF AreLong
<1>. QED
  BY <1>3, PiecesAre

\* A piece is read back from where it lies.
LEMMA CutThere ==
  ASSUME NEW S, NEW p \in Seq(Seq(S)), NEW k \in 1 .. Len(p), NEW first \in Nat,
         first = SumOver(Lengths(p), 1, k - 1), NEW count, count = Len(p[k])
  PROVE  Cut(Concat(p), first, count) = p[k]
<1>1. first + Len(p[k]) <= Len(Concat(p)) /\ SubSeq(Concat(p), first + 1, first + Len(p[k])) = p[k]
  BY PieceThere
<1>2. p[k] \in Seq(S)
  BY ElementOfSeq
<1>3. Concat(p) \in Seq(S)
  BY ConcatIs DEF HoldsPieces
<1>4. PICK x \in Int, y \in Int : x = first + count /\ y = Len(Concat(p)) /\ x <= y
  BY <1>1, <1>2, <1>3
<1>5. Min({x, y}) = x
  BY <1>4, MinOfTwo
<1>. QED
  BY <1>1, <1>4, <1>5 DEF Cut

\* Nothing is read for a sequence without a step.
LEMMA CutNothing ==
  ASSUME NEW array, Len(array) \in Nat, NEW first \in Int
  PROVE  Cut(array, first, 0) = <<>>
<1>1. PICK x \in Int, y \in Int : x = first + 0 /\ y = Len(array)
  OBVIOUS
<1>2. PICK z \in Int : z = Min({x, y}) /\ z <= first
  BY <1>1, MinOfTwo
<1>3. first + 1 > z
  BY <1>2
<1>4. SubSeq(array, first + 1, z) = <<>>
  BY <1>2, <1>3
<1>. QED
  BY <1>1, <1>2, <1>4 DEF Cut

\* Pieces with w values for each step of the sequences of a list
ArePieces(p, list, w, n, S) ==
  /\ p \in Seq(Seq(S)) /\ Len(p) = n /\ HoldsPieces(Concat(p), p, S, n)
  /\ \A j \in 0 .. n : SumOver(Lengths(p), 1, j) = SumOver(StepList(list), 1, j) * w

\* The features and the labels of a batch are such pieces.
LEMMA BatchPieces ==
  ASSUME SourceTypes, NEW list, IsMode(list), NEW w \in Nat, NEW n, n = Len(list),
         NEW p, p = [k \in 1 .. n |-> p[k]], NEW d, d = [k \in 1 .. n |-> steps[list[k]] * w],
         AreLists(p, d, n)
  PROVE  \E S : ArePieces(p, list, w, n, S)
<1>1. n \in Nat /\ Counts(StepList(list), n) /\ \A k \in 1 .. n : StepList(list)[k] = steps[list[k]]
  BY StepListIs
<1>2. d = [k \in 1 .. n |-> d[k]]
  OBVIOUS
<1>3. PICK S : p \in Seq(Seq(S)) /\ Len(p) = n /\ Lengths(p) = d /\ Counts(d, n)
  <2>1. n \in Nat
    BY <1>1
  <2>. QED
    BY <1>2, <2>1, ListsArePieces
<1>4. Widened(StepList(list), d, w, n)
  BY <1>1 DEF Widened
<1>5. ASSUME NEW j \in 0 .. n PROVE SumOver(d, 1, j) = SumOver(StepList(list), 1, j) * w
  BY <1>1, <1>4, SumWidened
<1>6. HoldsPieces(Concat(p), p, S, n)
  BY <1>3, ConcatIs
<1>. QED
  BY <1>3, <1>5, <1>6 DEF ArePieces

\* What is written of a sequence
LEMMA ValuesAre ==
  ASSUME SourceTypes, NEW s \in 1 .. Len(steps), NEW w \in Nat
  PROVE  /\ Listed(Values(s, w)) /\ Len(Values(s, w)) = steps[s] * w /\ steps[s] * w \in Nat
         /\ Listed(Labels(s)) /\ Len(Labels(s)) = steps[s] /\ steps[s] \in Nat
<1>1. PICK m \in Nat : m = steps[s]
  BY DEF SourceTypes
<1>2. PICK n \in Nat : n = m * w
  OBVIOUS
<1>3. PICK f : f = Values(s, w)
  OBVIOUS
<1>4. f = [k \in 1 .. n |-> <<s, (k - 1) \div w + 1, ((k - 1) % w) + 1>>]
  BY <1>1, <1>2, <1>3 DEF Values
<1>5. f = [k \in 1 .. n |-> f[k]]
  BY <1>4
<1>6. Listed(f) /\ Len(f) = n
  BY <1>5, ListedFunction
<1>7. PICK g : g = Labels(s)
  OBVIOUS
<1>8. g = [k \in 1 .. m |-> g[k]]
  BY <1>1, <1>7 DEF Labels
<1>9. Listed(g) /\ Len(g) = m
  BY <1>8, ListedFunction
<1>. QED
  BY <1>1, <1>2, <1>3, <1>6, <1>7, <1>9

\* File holds in its batch b the pieces p of the sequences of this batch, w of it for
\* each of their steps.
HoldsBatch(file, p, w, b) ==
  /\ Len(p) = Len(Parts[b]) /\ file[b] = Concat(p)
  /\ Len(file[b]) = (StepsTo(EndOf(b)) - StepsTo(EndOf(b - 1))) * w
  /\ \E S : p \in Seq(Seq(S))
  /\ \A i \in 0 .. Len(Parts[b]) :
       SumOver(Lengths(p), 1, i) = (StepsTo(EndOf(b - 1) + i) - StepsTo(EndOf(b - 1))) * w

\* Pieces of the lengths of their sequences make up a batch.
LEMMA BatchHolds ==
  ASSUME FilesInv, NEW b \in 1 .. Len(Parts), NEW w \in Nat, NEW n, n = Len(Parts[b]),
         NEW p, p = [k \in 1 .. n |-> p[k]], NEW d, d = [k \in 1 .. n |-> steps[Parts[b][k]] * w],
         AreLists(p, d, n), NEW file, file[b] = Concat(p)
  PROVE  HoldsBatch(file, p, w, b)
<1>1. SourceTypes /\ IsMode(Parts[b]) /\ n \in Nat /\ EndOf(b) = EndOf(b - 1) + n
  BY PartIs DEF FilesInv
<1>2. PICK list : list = Parts[b]
  OBVIOUS
<1>3. PICK S : ArePieces(p, list, w, n, S)
  <2>1. IsMode(list) /\ n = Len(list) /\ d = [k \in 1 .. n |-> steps[list[k]] * w]
    BY <1>1, <1>2
  <2>. QED
    BY <1>1, <2>1, BatchPieces
<1>4. ASSUME NEW i \in 0 .. n
      PROVE  SumOver(Lengths(p), 1, i) = (StepsTo(EndOf(b - 1) + i) - StepsTo(EndOf(b - 1))) * w
  <2>1. SumOver(StepList(list), 1, i) = StepsTo(EndOf(b - 1) + i) - StepsTo(EndOf(b - 1))
    BY <1>2, BatchSteps
  <2>. QED
    BY <1>3, <2>1 DEF ArePieces
<1>5. Len(file[b]) = (StepsTo(EndOf(b)) - StepsTo(EndOf(b - 1))) * w
  <2>1. Len(file[b]) = SumOver(Lengths(p), 1, n)
    BY <1>3 DEF ArePieces, HoldsPieces
  <2>2. n \in 0 .. n
    BY <1>1
  <2>. QED
    BY <1>1, <1>4, <2>1, <2>2
<1>. QED
  BY <1>3, <1>4, <1>5 DEF ArePieces, HoldsBatch

\* What the files hold of a batch
LEMMA FilesHold ==
  ASSUME FilesInv, NEW b \in 1 .. Len(Parts)
  PROVE  /\ HoldsBatch(featureFile, [k \in 1 .. Len(Parts[b]) |-> Values(Parts[b][k], outWidth)], outWidth, b)
         /\ HoldsBatch(labelFile, [k \in 1 .. Len(Parts[b]) |-> Labels(Parts[b][k])], 1, b)
<1>1. SourceTypes /\ ExportInv /\ Exported = Len(Parts)
  BY DEF FilesInv
<1>2. PICK list : list = Parts[b]
  OBVIOUS
<1>3. IsMode(list)
  BY <1>1, <1>2, PartIs
<1>4. PICK n \in Nat : n = Len(list)
  BY <1>1, <1>3, StepListIs
<1>5. \A k \in 1 .. n : list[k] \in 1 .. Len(steps)
  BY <1>1, <1>3, <1>4, StepListIs
<1>6. DOMAIN list = 1 .. n
  BY <1>3, <1>4 DEF IsMode
<1>7. outWidth \in Nat
  BY <1>1 DEF SourceTypes
<1>8. HoldsBatch(featureFile, [k \in 1 .. n |-> Values(list[k], outWidth)], outWidth, b)
  <2>1. PICK p : p = [k \in 1 .. n |-> Values(list[k], outWidth)]
    OBVIOUS
  <2>2. PICK d : d = [k \in 1 .. n |-> steps[list[k]] * outWidth]
    OBVIOUS
  <2>3. AreLists(p, d, n)
    BY <1>1, <1>5, <1>7, <2>1, <2>2, ValuesAre DEF AreLists
  <2>4. featureFile[b] = Features(list)
    BY <1>1, <1>2 DEF ExportInv
  <2>5. Features(list) = Concat(p)
    BY <1>6, <2>1 DEF Features
  <2>6. p = [k \in 1 .. n |-> p[k]]
    BY <2>1
  <2>7. HoldsBatch(featureFile, p, outWidth, b)
    BY <1>2, <1>4, <1>7, <2>2, <2>3, <2>4, <2>5, <2>6, BatchHolds
  <2>. QED
    BY <2>1, <2>7
<1>9. HoldsBatch(labelFile, [k \in 1 .. n |-> Labels(list[k])], 1, b)
  <2>1. PICK p : p = [k \in 1 .. n |-> Labels(list[k])]
    OBVIOUS
  <2>2. PICK one \in Nat : one = 1
    OBVIOUS
  <2>3. PICK e : e = [k \in 1 .. n |-> steps[list[k]] * one]
    OBVIOUS
  <2>4. AreLists(p, e, n)
    <3>1. ASSUME NEW k \in 1 .. n PROVE Listed(p[k]) /\ Len(p[k]) = e[k] /\ e[k] \in Nat
      <4>1. Listed(Labels(list[k])) /\ Len(Labels(list[k])) = steps[list[k]] /\ steps[list[k]] \in Nat
        BY <1>1, <1>5, <1>7, ValuesAre
      <4>. QED
        BY <2>1, <2>2, <2>3, <4>1
    <3>. QED
      BY <3>1 DEF AreLists
  <2>5. labelFile[b] = LabelRows(list)
    BY <1>1, <1>2 DEF ExportInv
  <2>6. LabelRows(list) = Concat(p)
    BY <1>6, <2>1 DEF LabelRows
  <2>7. p = [k \in 1 .. n |-> p[k]]
    BY <2>1
  <2>8. HoldsBatch(labelFile, p, one, b)
    BY <1>2, <1>4, <2>3, <2>4, <2>5, <2>6, <2>7, BatchHolds
  <2>. QED
    BY <2>1, <2>2, <2>8
<1>. QED
  BY <1>2, <1>4, <1>8, <1>9

----------------------------------------------------------------------------
(* Where the sequences are taken to be                                     *)

\* The first x sequences are those of the first b batches, and those without a step
\* behind them.
IsReach(b, x) ==
  /\ x \in EndOf(b) .. Len(seqLen) /\ StepsTo(x) = StepsTo(EndOf(b))
  /\ \A y \in 0 .. Len(seqLen) : StepsTo(y) <= StepsTo(EndOf(b)) => y <= x

Reach(b) == IF b = 0 THEN 0 ELSE CHOOSE x : IsReach(b, x)

\* The sums of the manifest
LEMMA StepsGrow ==
  ASSUME FilesInv, NEW a \in 0 .. Len(seqLen), NEW b \in a .. Len(seqLen)
  PROVE  /\ StepsTo(a) \in Nat /\ StepsTo(b) \in Nat /\ StepsTo(a) <= StepsTo(b)
         /\ SumOfLengths(a + 1, b) = StepsTo(b) - StepsTo(a)
<1>1. PICK n \in Nat : n = Len(seqLen) /\ Counts(seqLen, n)
  BY ManifestIs
<1>2. b \in 0 .. n /\ a \in 0 .. n /\ b \in a .. n
  BY <1>1
<1>3. StepsTo(a) \in Nat /\ StepsTo(b) \in Nat
  BY <1>1, <1>2, SumUpTo DEF StepsTo
<1>4. StepsTo(a) <= StepsTo(b)
  BY <1>1, <1>2, SumsGrow DEF StepsTo
<1>5. SumOfLengths(a + 1, b) = StepsTo(b) - StepsTo(a)
  BY <1>1, <1>2, SumBetween DEF StepsTo, SumOfLengths
<1>. QED
  BY <1>3, <1>4, <1>5

\* The batches end at sequences of the mode.
LEMMA EndsInMode ==
  ASSUME FilesInv
  PROVE  /\ Len(seqLen) \in Nat /\ Len(Parts) \in Nat /\ EndOf(0) = 0 /\ EndOf(Len(Parts)) = Len(seqLen)
         /\ \A b \in 0 .. Len(Parts) : EndOf(b) \in 0 .. Len(seqLen)
         /\ \A b \in 1 .. Len(Parts) : EndOf(b) \in EndOf(b - 1) .. Len(seqLen)
<1>1. SourceTypes /\ Len(seqLen) = Len(rows) /\ Len(rows) \in Nat
  BY ManifestIs DEF FilesInv
<1>2. /\ Len(Parts) \in Nat /\ EndOf(0) = 0 /\ EndOf(Len(Parts)) = Len(rows)
      /\ \A b \in 0 .. Len(Parts) : EndOf(b) \in 0 .. Len(rows)
  BY <1>1, EndsAre
<1>3. ASSUME NEW b \in 1 .. Len(Parts) PROVE EndOf(b) \in EndOf(b - 1) .. Len(rows)
  <2>1. /\ EndOf(b) = EndOf(b - 1) + Len(Parts[b]) /\ Len(Parts[b]) \in Nat
        /\ EndOf(b - 1) \in 0 .. Len(rows) /\ EndOf(b) \in 0 .. Len(rows)
    BY <1>1, PartIs
  <2>. QED
    BY <1>1, <2>1
<1>. QED
  BY <1>1, <1>2, <1>3

\* There is such a number for every batch.
LEMMA ReachIs ==
  ASSUME FilesInv, NEW b \in 1 .. Len(Parts)
  PROVE  IsReach(b, Reach(b))
<1>1. PICK n \in Nat : n = Len(seqLen)
  BY EndsInMode
<1>2. PICK e \in 0 .. n : e = EndOf(b)
  <2>1. b \in 0 .. Len(Parts)
    BY EndsInMode
  <2>. QED
    BY <1>1, <2>1, EndsInMode
<1> DEFINE B == {y \in 0 .. n : StepsTo(y) <= StepsTo(e)}
<1>3. StepsTo(e) \in Nat
  <2>1. e \in 0 .. Len(seqLen) /\ e \in e .. Len(seqLen)
    BY <1>1
  <2>. QED
    BY <2>1, StepsGrow
<1>4. e \in B
  BY <1>3
<1>5. PICK x \in B : \A y \in B : x >= y
  <2>1. B \in SUBSET (0 .. n) /\ B # {}
    BY <1>4
  <2> HIDE DEF B
  <2>. QED
    BY <2>1, GreatestNatural
<1>6. x \in e .. n /\ StepsTo(x) <= StepsTo(e)
  BY <1>4, <1>5
<1>7. StepsTo(x) \in Nat /\ StepsTo(e) <= StepsTo(x)
  <2>1. e \in 0 .. Len(seqLen) /\ x \in e .. Len(seqLen)
    BY <1>1, <1>6
  <2>. QED
    BY <2>1, StepsGrow
<1>8. StepsTo(x) = StepsTo(e)
  BY <1>3, <1>6, <1>7
<1>9. IsReach(b, x)
  BY <1>1, <1>2, <1>5, <1>6, <1>8 DEF IsReach
<1>10. b # 0
  OBVIOUS
<1>. QED
  BY <1>9, <1>10 DEF Reach

\* What the record batches of a batch are as long as
LEMMA BatchIsLong ==
  ASSUME FilesInv, NEW b \in 1 .. Len(Parts)
  PROVE  \E t \in Nat : /\ t = StepsTo(EndOf(b)) - StepsTo(EndOf(b - 1))
                        /\ Len(featureFile[b]) = t * numFeatures /\ Len(labelFile[b]) = t
                        /\ numFeatures \in Nat /\ numFeatures # 0 /\ (t # 0 => numFeatures = outWidth)
<1>1. SourceTypes /\ ExportInv /\ Exported = Len(Parts)
  BY DEF FilesInv
<1>2. PICK m \in Nat : m = Len(Parts[b]) /\ EndOf(b) = EndOf(b - 1) + m /\ IsMode(Parts[b])
  BY <1>1, PartIs
<1>3. PICK t \in Int : t = StepsTo(EndOf(b)) - StepsTo(EndOf(b - 1)) /\ t >= 0
  <2>1. b - 1 \in 0 .. Len(Parts)
    BY EndsInMode
  <2>2. EndOf(b - 1) \in 0 .. Len(seqLen) /\ EndOf(b) \in EndOf(b - 1) .. Len(seqLen)
    BY <2>1, EndsInMode
  <2>3. /\ StepsTo(EndOf(b)) \in Nat /\ StepsTo(EndOf(b - 1)) \in Nat
        /\ StepsTo(EndOf(b - 1)) <= StepsTo(EndOf(b))
    BY <2>2, StepsGrow
  <2>. QED
    BY <2>3
<1>4. Len(featureFile[b]) = t * outWidth
  BY <1>3, FilesHold DEF HoldsBatch
<1>5. Len(labelFile[b]) = t
  <2>1. Len(labelFile[b]) = t * 1
    BY <1>3, FilesHold DEF HoldsBatch
  <2>. QED
    BY <1>3, <2>1
<1>6. StepsOf(Parts[b]) = t
  <2>1. StepsOf(Parts[b]) = SumOver(StepList(Parts[b]), 1, m)
    BY <1>1, <1>2, StepListIs
  <2>2. m \in 0 .. Len(Parts[b])
    BY <1>2
  <2>3. SumOver(StepList(Parts[b]), 1, m) = StepsTo(EndOf(b - 1) + m) - StepsTo(EndOf(b - 1))
    BY <2>2, BatchSteps
  <2>. QED
    BY <1>2, <1>3, <2>1, <2>3
<1>7. numFeatures = IF t = 0 THEN inWidth ELSE outWidth
  <2>1. WidthOf(Parts[b]) = numFeatures
    BY <1>1 DEF ExportInv
  <2>. QED
    BY <1>6, <2>1 DEF WidthOf
<1>8. inWidth \in Nat \ {0} /\ outWidth \in Nat \ {0}
  BY <1>1 DEF SourceTypes
<1>9. t \in Nat
  BY <1>3
<1>10. t * outWidth = t * numFeatures
  <2>1. CASE t = 0
    BY <1>7, <1>8, <2>1
  <2>2. CASE t # 0
    BY <1>7, <2>2
  <2>. QED
    BY <2>1, <2>2
<1>. QED
  BY <1>3, <1>4, <1>5, <1>7, <1>8, <1>9, <1>10

\* The next sequences fit into a batch if their steps do.
LEMMA FitsIs ==
  ASSUME FilesInv, NEW b \in 1 .. Len(Parts), NEW c \in 0 .. Len(seqLen), StepsTo(c) = StepsTo(EndOf(b - 1)),
         NEW m \in 0 .. Len(seqLen) - c
  PROVE  /\ Fits(c, m, b) <=> StepsTo(c + m) <= StepsTo(EndOf(b))
         /\ SumOfLengths(c + 1, c + m) = StepsTo(c + m) - StepsTo(c)
<1>1. Len(seqLen) \in Nat
  BY EndsInMode
<1>2. c + m \in c .. Len(seqLen) /\ c + m \in 0 .. Len(seqLen)
  BY <1>1
<1>3. PICK u \in Int : u = StepsTo(c + m) - StepsTo(c) /\ u >= 0 /\ SumOfLengths(c + 1, c + m) = u
  <2>1. /\ StepsTo(c) \in Nat /\ StepsTo(c + m) \in Nat /\ StepsTo(c) <= StepsTo(c + m)
        /\ SumOfLengths(c + 1, c + m) = StepsTo(c + m) - StepsTo(c)
    BY <1>2, StepsGrow
  <2>. QED
    BY <2>1
<1>4. PICK t \in Nat : /\ t = StepsTo(EndOf(b)) - StepsTo(EndOf(b - 1))
                       /\ Len(featureFile[b]) = t * numFeatures /\ Len(labelFile[b]) = t
                       /\ numFeatures \in Nat
  BY BatchIsLong
<1>5. u <= t => u * numFeatures <= t * numFeatures
  <2>1. PICK o \in Nat : o = numFeatures
    BY <1>4
  <2>2. ASSUME u <= t PROVE o * u <= o * t
    BY <1>3, <1>4, <2>1, <2>2, ProductGrows
  <2>3. o * u = u * o /\ o * t = t * o
    BY <1>3, <1>4, <2>1
  <2>. QED
    BY <2>1, <2>2, <2>3
<1>6. Fits(c, m, b) <=> u <= t
  BY <1>3, <1>4, <1>5 DEF Fits
<1>7. u <= t <=> StepsTo(c + m) <= StepsTo(EndOf(b))
  <2>1. StepsTo(c) \in Nat /\ StepsTo(c + m) \in Nat
    BY <1>2, StepsGrow
  <2>2. EndOf(b) \in 0 .. Len(seqLen)
    <3>1. b \in 0 .. Len(Parts)
      BY EndsInMode
    <3>. QED
      BY <3>1, EndsInMode
  <2>3. StepsTo(EndOf(b)) \in Nat
    <3>1. EndOf(b) \in EndOf(b) .. Len(seqLen)
      BY <1>1, <2>2
    <3>. QED
      BY <2>2, <3>1, StepsGrow
  <2>4. PICK p \in Int, q \in Int, e \in Int : p = StepsTo(c + m) /\ q = StepsTo(c) /\ e = StepsTo(EndOf(b))
    BY <2>1, <2>3
  <2>5. u = p - q /\ t = e - q
    BY <1>3, <1>4, <2>4
  <2>6. p - q <= e - q <=> p <= e
    BY <2>4
  <2>. QED
    BY <2>4, <2>5, <2>6
<1>. QED
  BY <1>3, <1>6, <1>7

\* What Reach says of the batches before
LEMMA ReachBefore ==
  ASSUME FilesInv, NEW b \in 1 .. Len(Parts)
  PROVE  /\ Reach(b - 1) \in EndOf(b - 1) .. Len(seqLen) /\ StepsTo(Reach(b - 1)) = StepsTo(EndOf(b - 1))
         /\ Reach(b) \in Reach(b - 1) .. Len(seqLen) /\ StepsTo(Reach(b)) = StepsTo(EndOf(b))
         /\ EndOf(b) <= Reach(b)
<1>1. Len(seqLen) \in Nat /\ EndOf(0) = 0 /\ Len(Parts) \in Nat
  BY EndsInMode
<1>2. Reach(b - 1) \in EndOf(b - 1) .. Len(seqLen) /\ StepsTo(Reach(b - 1)) = StepsTo(EndOf(b - 1))
  <2>1. CASE b - 1 = 0
    BY <1>1, <2>1 DEF Reach
  <2>2. CASE b - 1 # 0
    <3>1. PICK a \in 1 .. Len(Parts) : a = b - 1
      BY <1>1, <2>2
    <3>2. IsReach(a, Reach(a))
      BY ReachIs
    <3>. QED
      BY <3>1, <3>2 DEF IsReach
  <2>. QED
    BY <2>1, <2>2
<1>3. PICK e \in 0 .. Len(seqLen) : e = EndOf(b - 1)
  <2>1. b - 1 \in 0 .. Len(Parts)
    BY <1>1
  <2>. QED
    BY <2>1, EndsInMode
<1>4. EndOf(b) \in e .. Len(seqLen)
  BY <1>3, EndsInMode
<1>5. StepsTo(e) <= StepsTo(EndOf(b))
  BY <1>3, <1>4, StepsGrow
<1>6. IsReach(b, Reach(b))
  BY ReachIs
<1>7. PICK c \in 0 .. Len(seqLen) : c = Reach(b - 1) /\ StepsTo(c) <= StepsTo(EndOf(b))
  <2>1. Reach(b - 1) \in 0 .. Len(seqLen)
    BY <1>1, <1>2, <1>3
  <2>. QED
    BY <1>2, <1>3, <1>5, <2>1
<1>8. c <= Reach(b)
  BY <1>6, <1>7 DEF IsReach
<1>9. PICK x \in 0 .. Len(seqLen) : x = Reach(b) /\ EndOf(b) <= x
  BY <1>1, <1>3, <1>4, <1>6 DEF IsReach
<1>. QED
  BY <1>1, <1>2, <1>6, <1>7, <1>8, <1>9 DEF IsReach

\* A batch takes the sequences up to there.
LEMMA TakenReaches ==
  ASSUME FilesInv, NEW b \in 1 .. Len(Parts)
  PROVE  Reach(b - 1) + Taken(Reach(b - 1), b) = Reach(b)
<1>1. PICK n \in Nat : n = Len(seqLen)
  BY EndsInMode
<1>2. PICK e \in 0 .. n : e = EndOf(b - 1)
  <2>1. b - 1 \in 0 .. Len(Parts)
    BY EndsInMode
  <2>. QED
    BY <1>1, <2>1, EndsInMode
<1>3. PICK c \in 0 .. n : c = Reach(b - 1) /\ StepsTo(c) = StepsTo(EndOf(b - 1))
  BY <1>1, <1>2, ReachBefore
<1>4. PICK x \in c .. n : x = Reach(b) /\ StepsTo(x) <= StepsTo(EndOf(b))
  <2>1. EndOf(b) \in 0 .. Len(seqLen) /\ EndOf(b) \in EndOf(b) .. Len(seqLen)
    BY <1>1, <1>2, EndsInMode
  <2>2. StepsTo(EndOf(b)) \in Nat
    BY <2>1, StepsGrow
  <2>. QED
    BY <1>1, <1>3, <2>2, ReachBefore
<1> DEFINE A == {m \in 0 .. n - c : Fits(c, m, b)}
<1>5. ASSUME NEW m \in 0 .. n - c
      PROVE  Fits(c, m, b) <=> StepsTo(c + m) <= StepsTo(EndOf(b))
  BY <1>1, <1>3, FitsIs
<1>6. PICK v \in 0 .. n - c : v = x - c /\ c + v = x
  <2>1. x - c \in 0 .. n - c /\ c + (x - c) = x
    OBVIOUS
  <2>. QED
    BY <2>1
<1>7. v \in A
  BY <1>4, <1>5, <1>6
<1>8. ASSUME NEW m \in A PROVE v >= m
  <2>1. StepsTo(c + m) <= StepsTo(EndOf(b)) /\ c + m \in 0 .. n
    BY <1>5
  <2>2. c + m <= x
    BY <1>1, <1>4, <2>1, ReachIs DEF IsReach
  <2>. QED
    BY <1>6, <2>2
<1>9. A \in SUBSET Int
  OBVIOUS
<1>10. Max(A) = v
  <2> HIDE DEF A
  <2>. QED
    BY <1>7, <1>8, <1>9, MaxIs
<1>11. Taken(c, b) = v
  BY <1>1, <1>10 DEF Taken
<1>. QED
  BY <1>3, <1>4, <1>6, <1>11

\* The places that _resolve_sequence_batches goes through
Resolves(cursor, n) ==
  cursor = [b \in 0 .. n |-> IF b = 0 THEN 0 ELSE cursor[b - 1] + Taken(cursor[b - 1], b)]

LEMMA CursorIs ==
  ASSUME FilesInv
  PROVE  \A b \in 0 .. Len(Parts) : Cursor[b] = Reach(b)
<1>1. PICK n \in Nat : n = Len(Parts) /\ n = Len(featureFile)
  BY ManifestIs
<1>2. PICK r : r = [b \in 0 .. n |-> Reach(b)]
  OBVIOUS
<1>3. ASSUME NEW b \in 0 .. n
      PROVE  r[b] = IF b = 0 THEN 0 ELSE r[b - 1] + Taken(r[b - 1], b)
  <2>1. CASE b = 0
    BY <1>2, <2>1 DEF Reach
  <2>2. CASE b # 0
    <3>1. b \in 1 .. Len(Parts) /\ b - 1 \in 0 .. n
      BY <1>1, <2>2
    <3>2. Reach(b - 1) + Taken(Reach(b - 1), b) = Reach(b)
      BY <3>1, TakenReaches
    <3>. QED
      BY <1>2, <2>2, <3>1, <3>2
  <2>. QED
    BY <2>1, <2>2
<1>4. r = [b \in 0 .. n |-> r[b]]
  BY <1>2
<1>5. Resolves(r, n)
  BY <1>3, <1>4 DEF Resolves
<1>6. PICK c : c = CHOOSE cursor : Resolves(cursor, n)
  OBVIOUS
<1>7. Resolves(c, n)
  BY <1>5, <1>6
<1>8. Cursor = c
  BY <1>1, <1>6 DEF Cursor, Resolves
<1>9. ASSUME NEW b \in 0 .. n
      PROVE  c[b] = IF b = 0 THEN 0 ELSE c[b - 1] + Taken(c[b - 1], b)
  BY <1>7 DEF Resolves
<1>10. ASSUME NEW d \in 0 .. n PROVE c[d] = Reach(d)
  <2> DEFINE S == {b \in 0 .. n : c[b] # Reach(b)}
  <2>1. SUFFICES ASSUME d \in S PROVE FALSE
    OBVIOUS
  <2>2. S \in SUBSET Nat
    OBVIOUS
  <2>3. PICK b \in S : \A k \in S : b <= k
    BY <2>1, <2>2, LeastNatural
  <2>4. b # 0
    <3>1. SUFFICES ASSUME b = 0 PROVE FALSE
      OBVIOUS
    <3>2. c[0] = 0 /\ Reach(0) = 0
      BY <1>9 DEF Reach
    <3>. QED
      BY <2>3, <3>1, <3>2
  <2>5. b \in 1 .. Len(Parts) /\ b - 1 \in 0 .. n /\ ~ (b <= b - 1)
    BY <1>1, <2>3, <2>4
  <2>6. c[b - 1] = Reach(b - 1)
    BY <2>3, <2>5
  <2>7. c[b] = c[b - 1] + Taken(c[b - 1], b)
    BY <1>9, <2>3, <2>4
  <2>8. Reach(b - 1) + Taken(Reach(b - 1), b) = Reach(b)
    BY <2>5, TakenReaches
  <2>. QED
    BY <2>3, <2>6, <2>7, <2>8
<1>. QED
  BY <1>1, <1>8, <1>10

----------------------------------------------------------------------------
(* The mode, when it is opened                                             *)

\* Every batch is full, and all sequences have their place.
LEMMA BatchesAreFull ==
  ASSUME FilesInv
  PROVE  /\ \A b \in DOMAIN featureFile : BatchIsFull(b)
         /\ Cursor[Len(featureFile)] = Len(seqLen)
<1>1. PICK n \in Nat : n = Len(Parts) /\ n = Len(featureFile) /\ DOMAIN featureFile = 1 .. n
  BY ManifestIs
<1>2. ASSUME NEW b \in 1 .. n PROVE BatchIsFull(b)
  <2>1. b \in 1 .. Len(Parts) /\ b \in 0 .. Len(Parts) /\ b - 1 \in 0 .. Len(Parts)
    BY <1>1
  <2>2. Cursor[b - 1] = Reach(b - 1) /\ Cursor[b] = Reach(b)
    BY <2>1, CursorIs
  <2>3. PICK c \in 0 .. Len(seqLen) : c = Reach(b - 1) /\ StepsTo(c) = StepsTo(EndOf(b - 1))
    <3>1. EndOf(b - 1) \in 0 .. Len(seqLen) /\ Len(seqLen) \in Nat
      BY <2>1, EndsInMode
    <3>. QED
      BY <2>1, <3>1, ReachBefore
  <2>4. PICK x \in c .. Len(seqLen) : x = Reach(b) /\ StepsTo(x) = StepsTo(EndOf(b))
    BY <2>1, <2>3, ReachBefore
  <2>5. SumOfLengths(c + 1, x) = StepsTo(x) - StepsTo(c)
    BY <2>3, <2>4, StepsGrow
  <2>6. PICK t \in Nat : /\ t = StepsTo(EndOf(b)) - StepsTo(EndOf(b - 1))
                         /\ Len(featureFile[b]) = t * numFeatures /\ Len(labelFile[b]) = t
    BY <2>1, BatchIsLong
  <2>7. SumOfLengths(Cursor[b - 1] + 1, Cursor[b]) = t
    BY <2>2, <2>3, <2>4, <2>5, <2>6
  <2>. QED
    BY <2>6, <2>7 DEF BatchIsFull
<1>3. Cursor[n] = Len(seqLen)
  <2>1. Cursor[n] = Reach(n)
    BY <1>1, CursorIs
  <2>2. EndOf(n) = Len(seqLen) /\ Len(seqLen) \in Nat /\ EndOf(0) = 0
    BY <1>1, EndsInMode
  <2>3. CASE n = 0
    BY <2>1, <2>2, <2>3 DEF Reach
  <2>4. CASE n # 0
    <3>1. n \in 1 .. Len(Parts)
      BY <1>1, <2>4
    <3>2. Reach(n) \in EndOf(n) .. Len(seqLen)
      BY <3>1, ReachIs DEF IsReach
    <3>. QED
      BY <2>1, <2>2, <3>2
  <2>. QED
    BY <2>3, <2>4
<1>. QED
  BY <1>1, <1>2, <1>3

\* Only a mode without sequences is refused.
LEMMA RefusedIsEmpty ==
  ASSUME FilesInv, ~ Loads
  PROVE  rows = <<>>
<1>1. Len(featureFile) = Len(Parts) /\ Len(labelFile) = Len(Parts) /\ Len(Parts) \in Nat
  BY ManifestIs
<1>2. Len(Parts) = 0
  <2>1. CASE featureFile = <<>>
    BY <1>1, <2>1
  <2>2. CASE labelFile = <<>>
    BY <1>1, <2>2
  <2>. QED
    BY <2>1, <2>2 DEF Loads
<1>3. SourceTypes
  BY DEF FilesInv
<1>4. EndOf(0) = 0 /\ EndOf(Len(Parts)) = Len(rows)
  BY <1>3, EndsAre
<1>5. Len(rows) = 0 /\ rows \in Seq(1 .. Len(steps))
  BY <1>2, <1>3, <1>4 DEF SourceTypes
<1>. QED
  BY <1>5, EmptySeq

LEMMA OpenLeaves == BundleInv /\ Open => BundleInv'
<1>1. SUFFICES ASSUME BundleInv, Open PROVE BundleInv'
  OBVIOUS
<1>2. FilesInv
  BY <1>1 DEF BundleInv, FilesInv, Open
<1>3. UNCHANGED sourceVars /\ UNCHANGED <<rows, batches>> /\ UNCHANGED manifestVars
  BY <1>1 DEF Open
<1>4. SourceTypes' /\ ExportInv' /\ Exported' = Exported /\ Parts' = Parts
  BY <1>2, <1>3, ExportStays DEF FilesInv
<1>5. (Exported = Len(Parts))'
  BY <1>2, <1>4 DEF FilesInv
<1>6. CASE exportAt' = "open" /\ place' = Resolved
  <2>1. Resolved' = Resolved
    <3>1. UNCHANGED <<seqLen, numFeatures, featureFile, labelFile>>
      BY <1>3 DEF manifestVars
    <3>2. Cursor' = Cursor
      BY <3>1 DEF Cursor, Taken, Fits, SumOfLengths
    <3>. QED
      BY <3>1, <3>2 DEF Resolved, Before, SumOfLengths
  <2>2. (place = Resolved)'
    BY <1>6, <2>1
  <2>. QED
    BY <1>4, <1>5, <1>6, <2>2 DEF BundleInv
<1>7. CASE ~ Loads /\ exportAt' = "refused"
  <2>1. rows' = <<>>
    BY <1>2, <1>3, <1>7, RefusedIsEmpty
  <2>. QED
    BY <1>4, <1>5, <1>7, <2>1 DEF BundleInv
<1>8. (exportAt' = "open" /\ place' = Resolved) \/ (~ Loads /\ exportAt' = "refused")
  BY <1>1, <1>2, BatchesAreFull DEF Open
<1>. QED
  BY <1>6, <1>7, <1>8

LEMMA PickleLeaves == BundleInv /\ Pickle => BundleInv'
<1>1. SUFFICES ASSUME BundleInv, Pickle PROVE BundleInv'
  OBVIOUS
<1>2. FilesInv /\ exportAt' = "written"
  BY <1>1 DEF BundleInv, FilesInv, Pickle
<1>3. UNCHANGED sourceVars /\ UNCHANGED <<rows, batches>> /\ UNCHANGED manifestVars
  BY <1>1 DEF Pickle
<1>4. SourceTypes' /\ ExportInv' /\ Exported' = Exported /\ Parts' = Parts
  BY <1>2, <1>3, ExportStays DEF FilesInv
<1>5. (Exported = Len(Parts))'
  BY <1>2, <1>4 DEF FilesInv
<1>. QED
  BY <1>2, <1>4, <1>5 DEF BundleInv

\* Every sequence is placed in a batch.
LEMMA PlaceIs ==
  ASSUME FilesInv, NEW k \in 1 .. Len(seqLen)
  PROVE  \E b \in 1 .. Len(Parts) :
           /\ Resolved[k].batch = b /\ Reach(b - 1) <= k - 1 /\ k <= Reach(b)
           /\ Resolved[k].before = StepsTo(k - 1) - StepsTo(EndOf(b - 1))
<1>1. PICK n \in Nat : n = Len(Parts) /\ n = Len(featureFile) /\ DOMAIN featureFile = 1 .. n
  BY ManifestIs
<1>2. PICK l \in Nat : l = Len(seqLen) /\ DOMAIN seqLen = 1 .. l
  BY ManifestIs
<1>3. ASSUME NEW b \in 0 .. n PROVE Cursor[b] = Reach(b) /\ Reach(b) \in 0 .. l
  <2>1. Cursor[b] = Reach(b)
    BY <1>1, CursorIs
  <2>2. CASE b = 0
    BY <2>1, <2>2 DEF Reach
  <2>3. CASE b # 0
    <3>1. b \in 1 .. Len(Parts) /\ b \in 0 .. Len(Parts)
      BY <1>1, <2>3
    <3>2. EndOf(b) \in 0 .. Len(seqLen) /\ Reach(b) \in EndOf(b) .. Len(seqLen)
      BY <3>1, EndsInMode, ReachIs DEF IsReach
    <3>. QED
      BY <1>2, <2>1, <3>2
  <2>. QED
    BY <2>2, <2>3
<1> DEFINE InIt(i) == Cursor[i - 1] < k /\ k <= Cursor[i]
<1>4. \E i \in 1 .. n : InIt(i)
  <2> DEFINE S == {b \in 0 .. n : k <= Reach(b)}
  <2>1. n \in S
    <3>1. Cursor[n] = l
      BY <1>1, <1>2, BatchesAreFull
    <3>2. n \in 0 .. n /\ k <= l
      BY <1>2
    <3>. QED
      BY <1>3, <3>1, <3>2
  <2>2. S \in SUBSET Nat
    OBVIOUS
  <2>3. PICK b \in S : \A i \in S : b <= i
    BY <2>1, <2>2, LeastNatural
  <2>4. b # 0
    BY <2>3 DEF Reach
  <2>5. b \in 1 .. n /\ b - 1 \in 0 .. n /\ ~ (b <= b - 1)
    BY <2>3, <2>4
  <2>6. ~ (k <= Reach(b - 1))
    BY <2>3, <2>5
  <2>7. Reach(b - 1) \in Int /\ k \in Int /\ Cursor[b - 1] = Reach(b - 1) /\ Cursor[b] = Reach(b)
    BY <1>2, <1>3, <2>5
  <2>8. Cursor[b - 1] < k /\ k <= Cursor[b]
    BY <2>3, <2>6, <2>7
  <2>. QED
    BY <2>5, <2>8
<1>5. PICK b : b = CHOOSE i \in 1 .. n : InIt(i)
  OBVIOUS
<1>6. b \in 1 .. n /\ InIt(b)
  <2> HIDE DEF InIt
  <2>. QED
    BY <1>4, <1>5
<1>7. Resolved[k] = [batch |-> b, before |-> Before(k, b)]
  BY <1>1, <1>2, <1>5 DEF Resolved
<1>8. b - 1 \in 0 .. n /\ b \in 0 .. n /\ b \in 1 .. Len(Parts)
  BY <1>1, <1>6
<1>9. PICK c \in 0 .. l : c = Reach(b - 1) /\ Cursor[b - 1] = c
  BY <1>3, <1>8
<1>10. c <= k - 1 /\ k <= Reach(b) /\ k - 1 \in 0 .. l
  BY <1>2, <1>3, <1>6, <1>8, <1>9
<1>11. Before(k, b) = StepsTo(k - 1) - StepsTo(c)
  <2>1. c \in 0 .. Len(seqLen) /\ k - 1 \in c .. Len(seqLen)
    BY <1>2, <1>10
  <2>2. SumOfLengths(c + 1, k - 1) = StepsTo(k - 1) - StepsTo(c)
    BY <2>1, StepsGrow
  <2>. QED
    BY <1>9, <2>2 DEF Before
<1>12. StepsTo(c) = StepsTo(EndOf(b - 1))
  BY <1>8, <1>9, ReachBefore
<1>. QED
  BY <1>7, <1>8, <1>9, <1>10, <1>11, <1>12

\* A sequence with steps is in the batch where it is placed.
LEMMA PlacedWhereItIs ==
  ASSUME FilesInv, NEW k \in 1 .. Len(seqLen), seqLen[k] # 0, NEW b \in 1 .. Len(Parts),
         Reach(b - 1) <= k - 1, k <= Reach(b)
  PROVE  EndOf(b - 1) <= k - 1 /\ k <= EndOf(b)
<1>1. PICK l \in Nat : l = Len(seqLen) /\ Counts(seqLen, l)
  BY ManifestIs
<1>2. PICK e \in 0 .. l : e = EndOf(b - 1)
  <2>1. b - 1 \in 0 .. Len(Parts)
    BY EndsInMode
  <2>. QED
    BY <1>1, <2>1, EndsInMode
<1>3. PICK f \in 0 .. l : f = EndOf(b)
  <2>1. b \in 0 .. Len(Parts)
    BY EndsInMode
  <2>. QED
    BY <1>1, <2>1, EndsInMode
<1>4. EndOf(b - 1) <= k - 1
  <2>1. PICK c \in Int : c = Reach(b - 1) /\ e <= c
    BY <1>1, <1>2, ReachBefore
  <2>. QED
    BY <1>1, <1>2, <2>1
<1>5. k <= f
  <2>1. SUFFICES ASSUME ~ (k <= f) PROVE FALSE
    OBVIOUS
  <2>2. f \in 0 .. Len(seqLen) /\ k - 1 \in f .. Len(seqLen) /\ k \in 0 .. Len(seqLen)
    BY <1>1, <2>1
  <2>3. StepsTo(f) <= StepsTo(k - 1) /\ StepsTo(f) \in Nat /\ StepsTo(k - 1) \in Nat
    BY <2>2, StepsGrow
  <2>4. PICK x \in k .. Len(seqLen) : x = Reach(b) /\ StepsTo(x) = StepsTo(f)
    <3>1. Reach(b) \in EndOf(b) .. Len(seqLen) /\ StepsTo(Reach(b)) = StepsTo(EndOf(b))
      BY ReachIs DEF IsReach
    <3>. QED
      BY <1>1, <1>3, <3>1
  <2>5. StepsTo(k) <= StepsTo(x) /\ StepsTo(k) \in Nat
    BY <2>2, <2>4, StepsGrow
  <2>6. StepsTo(k) = StepsTo(k - 1) + seqLen[k]
    BY <1>1, SumUpTo DEF StepsTo
  <2>7. seqLen[k] \in Nat
    BY <1>1 DEF Counts
  <2>. QED
    BY <2>3, <2>4, <2>5, <2>6, <2>7
<1>. QED
  BY <1>3, <1>4, <1>5

\* What is read for a sequence is what was written of it.
LEMMA SequenceIsRead ==
  ASSUME FilesInv, place = Resolved, NEW k \in 1 .. Len(rows)
  PROVE  FeaturesOf(k) = Values(rows[k], outWidth) /\ LabelsOf(k) = Labels(rows[k])
<1>1. SourceTypes
  BY DEF FilesInv
<1>2. PICK l \in Nat : l = Len(seqLen) /\ l = Len(rows) /\ Counts(seqLen, l) /\ seqLen = StepList(rows)
  BY ManifestIs
<1>3. seqLen[k] = steps[rows[k]] /\ seqLen[k] \in Nat /\ rows[k] \in 1 .. Len(steps)
  <2>1. IsMode(rows)
    BY <1>1 DEF SourceTypes, IsMode
  <2>2. rows[k] \in 1 .. Len(steps) /\ StepList(rows)[k] = steps[rows[k]]
    BY <1>1, <2>1, StepListIs
  <2>. QED
    BY <1>2, <2>2 DEF Counts
<1>4. PICK b \in 1 .. Len(Parts) :
           /\ Resolved[k].batch = b /\ Reach(b - 1) <= k - 1 /\ k <= Reach(b)
           /\ Resolved[k].before = StepsTo(k - 1) - StepsTo(EndOf(b - 1))
  BY <1>2, PlaceIs
<1>5. PICK e \in 0 .. l : e = EndOf(b - 1)
  <2>1. b - 1 \in 0 .. Len(Parts)
    BY EndsInMode
  <2>. QED
    BY <1>2, <2>1, EndsInMode
<1>6. PICK before \in Int : before = StepsTo(k - 1) - StepsTo(e) /\ place[k].before = before
  <2>1. e \in 0 .. Len(seqLen) /\ e \in e .. Len(seqLen) /\ k - 1 \in 0 .. Len(seqLen) /\ k - 1 \in k - 1 .. Len(seqLen)
    BY <1>2
  <2>2. StepsTo(e) \in Nat /\ StepsTo(k - 1) \in Nat
    BY <2>1, StepsGrow
  <2>. QED
    BY <1>4, <1>5, <2>2
<1>7. /\ FeaturesOf(k) = Cut(featureFile[b], before * numFeatures, seqLen[k] * numFeatures)
      /\ LabelsOf(k) = Cut(labelFile[b], before, seqLen[k])
  BY <1>4, <1>6 DEF FeaturesOf, LabelsOf
<1>8. PICK t \in Nat : /\ t = StepsTo(EndOf(b)) - StepsTo(EndOf(b - 1))
                       /\ Len(featureFile[b]) = t * numFeatures /\ Len(labelFile[b]) = t
                       /\ numFeatures \in Nat /\ numFeatures # 0 /\ (t # 0 => numFeatures = outWidth)
  BY BatchIsLong
<1>9. CASE seqLen[k] = 0
  <2>1. seqLen[k] * numFeatures = 0 /\ before * numFeatures \in Int
    BY <1>8, <1>9
  <2>2. Len(featureFile[b]) \in Nat /\ Len(labelFile[b]) \in Nat
    BY <1>8
  <2>3. FeaturesOf(k) = <<>> /\ LabelsOf(k) = <<>>
    BY <1>7, <1>9, <2>1, <2>2, CutNothing
  <2>4. steps[rows[k]] = 0
    BY <1>3, <1>9
  <2>5. Values(rows[k], outWidth) = <<>>
    <3>1. outWidth \in Nat /\ steps[rows[k]] * outWidth = 0
      BY <1>1, <2>4 DEF SourceTypes
    <3>2. Values(rows[k], outWidth)
            = [i \in 1 .. 0 |-> <<rows[k], (i - 1) \div outWidth + 1, ((i - 1) % outWidth) + 1>>]
      BY <3>1 DEF Values
    <3>. QED
      BY <3>2
  <2>6. Labels(rows[k]) = <<>>
    BY <2>4 DEF Labels
  <2>. QED
    BY <2>3, <2>5, <2>6
<1>10. CASE seqLen[k] # 0
  <2>1. e <= k - 1 /\ k <= EndOf(b)
    BY <1>2, <1>4, <1>5, <1>10, PlacedWhereItIs
  <2>2. PICK m \in Nat : m = Len(Parts[b]) /\ EndOf(b) = e + m
    BY <1>1, <1>5, PartIs
  <2>3. PICK i \in 1 .. m : k = e + i
    <3>1. k - e \in 1 .. m /\ k = e + (k - e)
      BY <2>1, <2>2
    <3>. QED
      BY <3>1
  <2>4. Parts[b][i] = rows[k]
    BY <1>1, <1>5, <2>2, <2>3, PartIs
  <2>5. i - 1 \in 0 .. m /\ e + (i - 1) = k - 1
    BY <2>3
  <2>6. t # 0
    <3>1. e \in 0 .. Len(seqLen) /\ k - 1 \in e .. Len(seqLen) /\ k \in 0 .. Len(seqLen) /\ EndOf(b) \in k .. Len(seqLen)
      <4>1. EndOf(b) \in EndOf(b - 1) .. Len(seqLen)
        BY EndsInMode
      <4>. QED
        BY <1>2, <2>1, <2>2, <4>1
    <3>2. StepsTo(e) <= StepsTo(k - 1) /\ StepsTo(e) \in Nat /\ StepsTo(k - 1) \in Nat
      BY <3>1, StepsGrow
    <3>3. StepsTo(k) <= StepsTo(EndOf(b)) /\ StepsTo(k) \in Nat /\ StepsTo(EndOf(b)) \in Nat
      BY <3>1, StepsGrow
    <3>4. StepsTo(k) = StepsTo(k - 1) + seqLen[k]
      BY <1>2, SumUpTo DEF StepsTo
    <3>5. t = StepsTo(EndOf(b)) - StepsTo(e)
      BY <1>5, <1>8
    <3>6. StepsTo(k) > StepsTo(k - 1)
      BY <1>3, <1>10, <3>2, <3>3, <3>4
    <3>7. StepsTo(EndOf(b)) > StepsTo(e)
      BY <3>2, <3>3, <3>6
    <3>. QED
      BY <3>2, <3>3, <3>5, <3>7
  <2>7. numFeatures = outWidth /\ before >= 0
    <3>1. e \in 0 .. Len(seqLen) /\ k - 1 \in e .. Len(seqLen)
      BY <1>2, <2>1
    <3>2. StepsTo(e) <= StepsTo(k - 1) /\ StepsTo(e) \in Nat /\ StepsTo(k - 1) \in Nat
      BY <3>1, StepsGrow
    <3>. QED
      BY <1>6, <1>8, <2>6, <3>2
  <2>8. FeaturesOf(k) = Values(rows[k], outWidth)
    <3>1. PICK p : p = [j \in 1 .. m |-> Values(Parts[b][j], outWidth)]
      OBVIOUS
    <3>2. HoldsBatch(featureFile, p, outWidth, b)
      BY <2>2, <3>1, FilesHold
    <3>3. featureFile[b] = Concat(p) /\ Len(p) = m /\ \E S : p \in Seq(Seq(S))
      BY <2>2, <3>2 DEF HoldsBatch
    <3>4. PICK first \in Nat : first = before * outWidth
      <4>1. outWidth \in Nat /\ before \in Nat
        BY <1>1, <1>6, <2>7 DEF SourceTypes
      <4>. QED
        BY <4>1
    <3>5. SumOver(Lengths(p), 1, i - 1) = (StepsTo(e + (i - 1)) - StepsTo(e)) * outWidth
      BY <1>5, <2>2, <2>5, <3>2 DEF HoldsBatch
    <3>6. first = SumOver(Lengths(p), 1, i - 1)
      BY <1>6, <2>5, <3>4, <3>5
    <3>7. p[i] = Values(rows[k], outWidth)
      BY <2>4, <3>1
    <3>8. PICK count : count = seqLen[k] * outWidth /\ count = Len(p[i])
      <4>1. PICK s \in 1 .. Len(steps) : s = rows[k] /\ seqLen[k] = steps[s]
        BY <1>3
      <4>2. Len(Values(s, outWidth)) = steps[s] * outWidth
        <5>1. outWidth \in Nat
          BY <1>1 DEF SourceTypes
        <5>. QED
          BY <1>1, <5>1, ValuesAre
      <4>. QED
        BY <3>7, <4>1, <4>2
    <3>9. PICK S : p \in Seq(Seq(S))
      BY <3>3
    <3>10. i \in 1 .. Len(p)
      BY <3>3
    <3>11. Cut(Concat(p), first, count) = p[i]
      BY <3>6, <3>8, <3>9, <3>10, CutThere
    <3>. QED
      BY <1>7, <2>7, <3>3, <3>4, <3>7, <3>8, <3>11
  <2>9. LabelsOf(k) = Labels(rows[k])
    <3>1. PICK p : p = [j \in 1 .. m |-> Labels(Parts[b][j])]
      OBVIOUS
    <3>2. HoldsBatch(labelFile, p, 1, b)
      BY <2>2, <3>1, FilesHold
    <3>3. labelFile[b] = Concat(p) /\ Len(p) = m /\ \E S : p \in Seq(Seq(S))
      BY <2>2, <3>2 DEF HoldsBatch
    <3>4. SumOver(Lengths(p), 1, i - 1) = (StepsTo(e + (i - 1)) - StepsTo(e)) * 1
      BY <1>5, <2>2, <2>5, <3>2 DEF HoldsBatch
    <3>5. before = SumOver(Lengths(p), 1, i - 1) /\ before \in Nat
      BY <1>6, <2>5, <2>7, <3>4
    <3>6. p[i] = Labels(rows[k])
      BY <2>4, <3>1
    <3>7. seqLen[k] = Len(p[i])
      BY <1>1, <1>3, <3>6, ValuesAre DEF SourceTypes
    <3>8. PICK S : p \in Seq(Seq(S))
      BY <3>3
    <3>9. i \in 1 .. Len(p)
      BY <3>3
    <3>10. Cut(Concat(p), before, seqLen[k]) = p[i]
      BY <3>5, <3>7, <3>8, <3>9, CutThere
    <3>. QED
      BY <1>7, <3>3, <3>6, <3>10
  <2>. QED
    BY <2>8, <2>9
<1>. QED
  BY <1>9, <1>10

\* Nothing of it changes by itself.
LEMMA BundleStays ==
  ASSUME BundleInv, UNCHANGED bundleVars
  PROVE  BundleInv'
<1>1. /\ UNCHANGED sourceVars /\ UNCHANGED <<rows, batches>> /\ UNCHANGED manifestVars
      /\ UNCHANGED <<exportAt, place>> /\ UNCHANGED <<steps, wanted, seqLen, featureFile, labelFile, inWidth, outWidth>>
  BY DEF bundleVars, sourceVars, manifestVars
<1>2. SourceTypes'
  BY <1>1, SourceStays DEF BundleInv, SourceTypes
<1>3. ModeInv' <=> ModeInv
  BY <1>1 DEF ModeInv, StepsOf
<1>4. CASE exportAt \in {"export", "written", "open", "refused"}
  <2>1. ExportInv' /\ Exported' = Exported /\ Parts' = Parts
    BY <1>1, <1>4, ExportStays DEF BundleInv
  <2>2. Resolved' = Resolved
    <3>1. UNCHANGED <<seqLen, numFeatures, featureFile, labelFile>>
      BY <1>1 DEF manifestVars
    <3>2. Cursor' = Cursor
      BY <3>1 DEF Cursor, Taken, Fits, SumOfLengths
    <3>. QED
      BY <3>1, <3>2 DEF Resolved, Before, SumOfLengths
  <2>. QED
    BY <1>1, <1>2, <1>4, <2>1, <2>2 DEF BundleInv
<1>5. CASE exportAt \notin {"export", "written", "open", "refused"}
  BY <1>1, <1>2, <1>3, <1>5 DEF BundleInv
<1>. QED
  BY <1>4, <1>5

\* What is wanted of a bundle follows.
LEMMA BundleInvHolds == BundleInv => BundleHoldsSource
<1>1. SUFFICES ASSUME BundleInv PROVE BundleHoldsSource
  OBVIOUS
<1>2. ASSUME exportAt = "open", NEW k \in DOMAIN rows
      PROVE  FeaturesOf(k) = Values(rows[k], outWidth) /\ LabelsOf(k) = Labels(rows[k])
  <2>1. FilesInv /\ place = Resolved
    BY <1>1, <1>2 DEF BundleInv, FilesInv
  <2>2. k \in 1 .. Len(rows)
    BY <2>1 DEF FilesInv, SourceTypes
  <2>. QED
    BY <2>1, <2>2, SequenceIsRead
<1>. QED
  BY <1>1, <1>2 DEF BundleInv, ModeInv, BundleHoldsSource

\* The sequences of a mode survive the way through the files of a bundle
\* (_iter_arrow_row_batches, _resolve_sequence_batches, __getitem__): for any
\* sequences, also without steps, any widths, any size of the batches and any cut,
\* each one is read back as it was, only a mode without sequences does not open,
\* and the synthetic ones are cut to as few as have the wanted steps.
THEOREM BundleIsRead == ArrowSpec => []BundleHoldsSource
<1>1. BundleInv /\ [ArrowNext]_bundleVars => BundleInv'
  <2>1. SUFFICES ASSUME BundleInv, [ArrowNext]_bundleVars PROVE BundleInv'
    OBVIOUS
  <2>2. CASE UNCHANGED bundleVars
    BY <2>1, <2>2, BundleStays
  <2>. QED
    BY <2>1, <2>2, TrimLeaves, SplitLeaves, ExportLeaves, OpenLeaves, PickleLeaves DEF ArrowNext
<1>. QED
  BY ArrowInitial, BundleInvHolds, <1>1, PTL DEF ArrowSpec
=============================================================================
