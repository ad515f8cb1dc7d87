------------------------------ MODULE DeltaProofs ------------------------------
(* Theorems about Delta for every pair of manifests. *)
EXTENDS Delta, TLAPS

\* A deletion has removed what it no longer has to do, and nobody writes it anew.
DeleteInv ==
  /\ del.todo \subseteq Deleted
  /\ del.run # "running" => del.todo = {}
  /\ del.run \in {"running", "ok"} => \A i \in Deleted \ del.todo : disk[i] = "absent"

\* A verification has a verdict on every file it has read, and reports are true but for
\* what the download takes up.
VerifyInv ==
  /\ chk.run = "ok" => chk.todo = {}
  /\ chk.todo \cap chk.corrupt = {}
  /\ VerdictsHold

\* The download writes what it has begun and not marked; a marked chunk is on disk.
FetchInv ==
  /\ writing \subseteq DOMAIN new \ got
  /\ writing \cup got \subseteq begun /\ begun \subseteq DOMAIN new
  /\ \A i \in got : disk[i] = new[i]

\* Neither version has a chunk here, nor does the store.
OutsideInv == \A i \in Index \ (DOMAIN old \cup DOMAIN new) : disk[i] = "absent"

IInv == TypeOK /\ DeleteInv /\ VerifyInv /\ FetchInv /\ OutsideInv

\* compute puts every chunk of either version in exactly one of its three sets.
LEMMA PatchPartition ==
  /\ Unchanged \cap Changed = {} /\ Unchanged \cap Deleted = {} /\ Changed \cap Deleted = {}
  /\ Unchanged \cup Changed \cup Deleted = DOMAIN old \cup DOMAIN new
  BY DEF Unchanged, Changed, Deleted

LEMMA ManifestDomain ==
  ASSUME NEW m \in Manifest
  PROVE  DOMAIN m \subseteq Index /\ \A i \in DOMAIN m : m[i] \in Hash
<1>1. PICK n \in 0 .. MaxChunks : m \in [0 .. n - 1 -> Hash]
  BY DEF Manifest
<1> QED BY <1>1, MaxChunksAssumption DEF Index

LEMMA InitInv == Init => IInv
<1> SUFFICES ASSUME Init PROVE IInv
  OBVIOUS
<1> USE DEF Init, NoDel, NoChk
<1>1. TypeOK
  BY DEF TypeOK, RunState
<1>2. DeleteInv /\ VerifyInv /\ FetchInv /\ OutsideInv
  BY DEF DeleteInv, VerifyInv, VerdictsHold, FetchInv, OutsideInv
<1> QED BY <1>1, <1>2 DEF IInv

\* The patch is a function of the manifests, which no step changes.
LEMMA PatchStays ==
  ASSUME UNCHANGED <<old, new>>
  PROVE  Unchanged' = Unchanged /\ Changed' = Changed /\ Deleted' = Deleted
  BY DEF Unchanged, Changed, Deleted

LEMMA DeleteStep ==
  ASSUME IInv,
         StartDelete \/ (\E i \in Index : RemoveFile(i)) \/ FailRemove \/ EndDelete
  PROVE  IInv'
<1> USE DEF IInv
<1>1. UNCHANGED <<old, new, chk, writing, begun, got>>
  BY DEF StartDelete, RemoveFile, FailRemove, EndDelete
<1>2. Unchanged' = Unchanged /\ Changed' = Changed /\ Deleted' = Deleted
  BY <1>1, PatchStays
<1>3. Deleted \subseteq Index
  BY ManifestDomain DEF TypeOK, Deleted
<1>4. CASE disk' = disk
  <2>1. VerifyInv' /\ FetchInv' /\ OutsideInv'
    BY <1>1, <1>2, <1>4 DEF VerifyInv, VerdictsHold, FetchInv, OutsideInv
  <2>2. CASE StartDelete
    BY <1>1, <1>2, <1>3, <2>1, <2>2 DEF StartDelete, TypeOK, RunState, DeleteInv
  <2>3. ASSUME NEW i \in Index, RemoveFile(i) PROVE IInv'
    <3>1. disk[i] = "absent" /\ del'.run = "running" /\ del'.todo = del.todo \ {i} /\ TypeOK'
      BY <1>1, <1>4, <2>3 DEF RemoveFile, TypeOK, RunState
    <3> QED BY <1>2, <1>4, <2>1, <2>3, <3>1 DEF RemoveFile, DeleteInv
  <2>4. CASE FailRemove
    BY <1>1, <1>2, <2>1, <2>4 DEF FailRemove, TypeOK, RunState, DeleteInv
  <2>5. CASE EndDelete
    <3>1. del'.todo = {} /\ del'.run = "ok" /\ disk' = disk /\ TypeOK'
      BY <1>1, <2>5 DEF EndDelete, TypeOK, RunState
    <3> QED BY <1>2, <2>1, <2>5, <3>1 DEF EndDelete, DeleteInv
  <2> QED BY <2>2, <2>3, <2>4, <2>5
<1>5. ASSUME NEW i \in Index, RemoveFile(i) PROVE IInv'
  <2>1. /\ i \in del.todo /\ i \in Deleted
        /\ disk' = [disk EXCEPT ![i] = "absent"]
        /\ del' = [del EXCEPT !.todo = @ \ {i}]
        /\ del.run = "running"
    BY <1>5 DEF RemoveFile, DeleteInv
  <2>2. i \notin Unchanged /\ i \notin DOMAIN new
    BY <2>1 DEF Unchanged, Deleted
  <2>3. del'.todo = del.todo \ {i} /\ del'.run = "running" /\ TypeOK'
    BY <1>1, <2>1 DEF TypeOK, RunState, Content
  <2>4. DeleteInv'
    BY <1>2, <2>1, <2>3 DEF DeleteInv, TypeOK
  <2>5. \A j \in Index \ {i} : disk'[j] = disk[j]
    BY <2>1 DEF TypeOK
  <2>6. Unchanged \subseteq Index /\ DOMAIN new \subseteq Index
    BY ManifestDomain DEF TypeOK, Unchanged
  <2>7. VerifyInv'
    BY <1>1, <1>2, <2>2, <2>5, <2>6 DEF VerifyInv, VerdictsHold
  <2>8. FetchInv' /\ OutsideInv'
    BY <1>1, <2>1, <2>2, <2>5, <2>6 DEF FetchInv, OutsideInv, TypeOK
  <2> QED BY <2>3, <2>4, <2>7, <2>8
<1> QED BY <1>4, <1>5 DEF StartDelete, FailRemove, EndDelete

LEMMA VerifyStep ==
  ASSUME IInv, StartVerify \/ (\E i \in Index : CheckFile(i)) \/ EndVerify
  PROVE  IInv'
<1> USE DEF IInv
<1>1. UNCHANGED <<old, new, disk, del, writing, begun, got>>
  BY DEF StartVerify, CheckFile, EndVerify
<1>2. Unchanged' = Unchanged /\ Changed' = Changed /\ Deleted' = Deleted
  BY <1>1, PatchStays
<1>3. DeleteInv' /\ FetchInv' /\ OutsideInv'
  BY <1>1, <1>2 DEF DeleteInv, FetchInv, OutsideInv
<1>4. Unchanged \subseteq Index
  BY ManifestDomain DEF TypeOK, Unchanged
<1>5. CASE StartVerify
  BY <1>1, <1>2, <1>3, <1>4, <1>5 DEF StartVerify, TypeOK, RunState, VerifyInv, VerdictsHold
<1>6. ASSUME NEW i \in Index, CheckFile(i) PROVE IInv'
  <2> DEFINE bad == IF disk[i] = new[i] THEN chk.corrupt ELSE chk.corrupt \cup {i}
  <2>1. chk' = [chk EXCEPT !.todo = chk.todo \ {i}, !.corrupt = bad] /\ chk.run = "running"
    BY <1>6 DEF CheckFile
  <2>2. chk'.run = "running" /\ chk'.todo = chk.todo \ {i} /\ chk'.corrupt = bad /\ TypeOK'
    BY <1>1, <2>1 DEF TypeOK, RunState
  <2>3. i \notin chk.corrupt
    BY <1>6 DEF CheckFile, VerifyInv
  <2>4. VerifyInv'
    BY <1>1, <1>2, <2>1, <2>2, <2>3 DEF VerifyInv, VerdictsHold
  <2> QED BY <1>3, <2>2, <2>4
<1>7. CASE EndVerify
  <2>1. /\ chk'.run = "ok" /\ chk'.todo = {} /\ chk'.corrupt = chk.corrupt /\ TypeOK'
        /\ chk.run = "running" /\ chk.todo = {}
    BY <1>1, <1>7 DEF EndVerify, TypeOK, RunState
  <2> QED BY <1>1, <1>2, <1>3, <2>1 DEF VerifyInv, VerdictsHold
<1> QED BY <1>5, <1>6, <1>7

LEMMA FetchStep ==
  ASSUME IInv, NEW i \in Index, BeginWrite(i) \/ EndWrite(i) \/ FailWrite(i)
  PROVE  IInv'
<1> USE DEF IInv
<1>1. UNCHANGED <<old, new, del, chk>>
  BY DEF BeginWrite, EndWrite, FailWrite
<1>2. Unchanged' = Unchanged /\ Changed' = Changed /\ Deleted' = Deleted
  BY <1>1, PatchStays
<1>3. i \in DOMAIN new /\ i \notin Deleted /\ i \in begun' /\ begun \subseteq begun'
  BY DEF BeginWrite, EndWrite, FailWrite, FetchInv, Deleted
<1>4. \A j \in Index \ {i} : disk'[j] = disk[j]
  BY DEF BeginWrite, EndWrite, FailWrite, TypeOK
<1>5. Deleted \subseteq Index /\ Unchanged \subseteq Index /\ DOMAIN new \subseteq Index
        /\ new[i] \in Hash
  BY <1>3, ManifestDomain DEF TypeOK, Unchanged, Deleted
<1>6. DeleteInv' /\ OutsideInv'
  BY <1>1, <1>2, <1>3, <1>4, <1>5 DEF DeleteInv, OutsideInv
<1>7. VerifyInv'
  BY <1>1, <1>2, <1>3, <1>4, <1>5 DEF VerifyInv, VerdictsHold
<1>8. TypeOK'
  BY <1>1, <1>5 DEF BeginWrite, EndWrite, FailWrite, TypeOK, Content
<1>9. FetchInv'
  <2>1. CASE BeginWrite(i)
    BY <1>1, <1>4, <1>5, <2>1 DEF BeginWrite, FetchInv
  <2>2. CASE EndWrite(i)
    <3>1. disk'[i] = new[i]
      BY <2>2 DEF EndWrite, TypeOK
    <3> QED BY <1>1, <1>4, <1>5, <2>2, <3>1 DEF EndWrite, FetchInv
  <2>3. CASE FailWrite(i)
    BY <2>3 DEF FailWrite, FetchInv
  <2> QED BY <2>1, <2>2, <2>3
<1> QED BY <1>6, <1>7, <1>8, <1>9

LEMMA CrashStep ==
  ASSUME IInv, Crash
  PROVE  IInv'
  BY PatchStays DEF IInv, Crash, NoDel, NoChk, TypeOK, RunState, DeleteInv, VerifyInv,
                    VerdictsHold, FetchInv, OutsideInv

LEMMA StutterStep ==
  ASSUME IInv, UNCHANGED vars
  PROVE  IInv'
  BY PatchStays DEF IInv, vars, TypeOK, DeleteInv, VerifyInv, VerdictsHold, FetchInv, OutsideInv

LEMMA Invariant == Spec => []IInv
<1>1. IInv /\ [Next]_vars => IInv'
  BY DeleteStep, VerifyStep, FetchStep, CrashStep, StutterStep DEF Next
<1> QED BY InitInv, <1>1, PTL DEF Spec

-----------------------------------------------------------------------------
\* No step of a pass, a download or a crash leaves the variables' types.
THEOREM DeltaTypeCorrect == Spec => []TypeOK
<1>1. IInv => TypeOK
  BY DEF IInv
<1> QED BY Invariant, <1>1, PTL

\* For any two manifests and any damage to the files: a deletion that ends, a
\* verification without findings and a download that has marked the changed chunks and
\* all it has begun make the new version.
THEOREM UpdateIsExact == Spec => []UpdateYieldsNewVersion
<1>1. IInv => UpdateYieldsNewVersion
  <2> SUFFICES ASSUME IInv, del.run = "ok", chk.run = "ok", chk.corrupt = {},
                      Changed \cup begun \subseteq got, NEW i \in Index
               PROVE  disk[i] = IF i \in DOMAIN new THEN new[i] ELSE "absent"
    BY DEF UpdateYieldsNewVersion
  <2>1. CASE i \in got
    BY <2>1 DEF IInv, FetchInv
  <2>2. CASE i \in DOMAIN new \ got
    <3>1. i \in Unchanged \ (begun \cup chk.todo)
      BY <2>2, PatchPartition DEF IInv, VerifyInv, Changed
    <3> QED BY <2>2, <3>1 DEF IInv, VerifyInv, VerdictsHold
  <2>3. CASE i \notin DOMAIN new
    BY <2>3 DEF IInv, DeleteInv, OutsideInv, Deleted
  <2> QED BY <2>1, <2>2, <2>3 DEF IInv, FetchInv
<1> QED BY Invariant, <1>1, PTL

\* No deletion, failure or crash makes a verdict of the verification wrong.
THEOREM VerdictsStand == Spec => []VerdictsHold
<1>1. IInv => VerdictsHold
  BY DEF IInv, VerifyInv
<1> QED BY Invariant, <1>1, PTL
=============================================================================
