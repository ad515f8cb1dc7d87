--------------------------------- MODULE Delta ---------------------------------
(***************************************************************************)
(* An update by delta patch of one node's chunk store (src/src/delta.rs):  *)
(* DeltaPatch::compute, and PatchApplicator's two passes over data_dir,    *)
(* delete_stale_chunks and verify_unchanged, beside the downloader that    *)
(* delta.rs:154 names: it knows no patch, starts with an empty bitmap and  *)
(* takes every chunk of the new manifest, the shared ones too.  Each pass  *)
(* awaits one file operation at a time, so they interleave, any may fail   *)
(* half way, and a crash may come between any two steps.                   *)
(*                                                                         *)
(* A chunk's content is its hash; indices count from 0 as in the code.     *)
(***************************************************************************)
EXTENDS Integers

CONSTANTS Hash, MaxChunks

ASSUME MaxChunksAssumption == MaxChunks \in Nat
ASSUME HashAssumption == Hash \cap {"absent", "torn"} = {}

Index == 0 .. MaxChunks - 1

\* No file, a file that matches no manifest, or a chunk of some version.
Content == Hash \cup {"absent", "torn"}

\* chunk_hashes of a manifest with at most MaxChunks chunks.
Manifest == UNION {[0 .. n - 1 -> Hash] : n \in 0 .. MaxChunks}

VARIABLES
  old, new,  \* the two manifests
  disk,      \* per index, the node's chunk file
  del,       \* delete_stale_chunks: how the last run stands, and what it has left
  chk,       \* verify_unchanged: the same, and the corrupt chunks it found
  writing,   \* verified chunks whose files are being written
  begun,     \* chunks whose files were ever written since the process started
  got        \* bitmap of the download, in memory

vars == <<old, new, disk, del, chk, writing, begun, got>>

RunState == {"idle", "running", "ok", "failed"}

\* Types: no pass of the applicator meets an index of neither version.
TypeOK ==
  /\ old \in Manifest /\ new \in Manifest
  /\ disk \in [Index -> Content]
  /\ del \in [run : RunState, todo : SUBSET Index]
  /\ chk \in [run : RunState, todo : SUBSET Index, corrupt : SUBSET Index]
  /\ writing \subseteq Index /\ begun \subseteq Index /\ got \subseteq Index

NoDel == [run |-> "idle", todo |-> {}]
NoChk == [run |-> "idle", todo |-> {}, corrupt |-> {}]

\* The node holds the old version, though any file may have been damaged or lost.
Init ==
  /\ old \in Manifest /\ new \in Manifest
  /\ disk \in [Index -> Content]
  /\ \A i \in Index : disk[i] \in IF i \in DOMAIN old THEN {old[i], "absent", "torn"}
                                  ELSE {"absent"}
  /\ del = NoDel /\ chk = NoChk
  /\ writing = {} /\ begun = {} /\ got = {}

-----------------------------------------------------------------------------
(* DeltaPatch::compute *)

Unchanged == {i \in DOMAIN new : i \in DOMAIN old /\ old[i] = new[i]}

\* Mutant: only chunks that both versions have are compared.
ChangedOfBoth == {i \in DOMAIN new \cap DOMAIN old : old[i] # new[i]}

Changed == DOMAIN new \ Unchanged

\* Mutant: new_n ..= old_n.
DeletedOneMore == (DOMAIN old \cup {i + 1 : i \in DOMAIN old}) \ DOMAIN new

\* Mutant: new_n - 1 .. old_n.
DeletedFromLast == DOMAIN old \ {i \in DOMAIN new : i + 1 \in DOMAIN new}

Deleted == DOMAIN old \ DOMAIN new

-----------------------------------------------------------------------------
(* PatchApplicator::delete_stale_chunks *)

StartDelete ==
  /\ del.run # "running"
  /\ del' = [run |-> "running", todo |-> Deleted]
  /\ UNCHANGED <<old, new, disk, chk, writing, begun, got>>

\* The lowest index first; a file that is not there is no error.
RemoveFile(i) ==
  /\ del.run = "running" /\ i \in del.todo
  /\ \A d \in del.todo : i <= d
  /\ disk' = [disk EXCEPT ![i] = "absent"]
  /\ del' = [del EXCEPT !.todo = @ \ {i}]
  /\ UNCHANGED <<old, new, chk, writing, begun, got>>

\* Any other error ends the run, the rest stays.
FailRemove ==
  /\ del.run = "running" /\ del.todo # {}
  /\ del' = [run |-> "failed", todo |-> {}]
  /\ UNCHANGED <<old, new, disk, chk, writing, begun, got>>

EndDelete ==
  /\ del.run = "running" /\ del.todo = {}
  /\ del' = [del EXCEPT !.run = "ok"]
  /\ UNCHANGED <<old, new, disk, chk, writing, begun, got>>

-----------------------------------------------------------------------------
(* PatchApplicator::verify_unchanged *)

StartVerify ==
  /\ chk.run # "running"
  /\ chk' = [run |-> "running", todo |-> Unchanged, corrupt |-> {}]
  /\ UNCHANGED <<old, new, disk, del, writing, begun, got>>

\* In the order of a hash set; a file that cannot be read counts as corrupt.
CheckFile(i) ==
  /\ chk.run = "running" /\ i \in chk.todo
  /\ chk' = [chk EXCEPT !.todo = @ \ {i},
                        !.corrupt = IF disk[i] = new[i] THEN @ ELSE @ \cup {i}]
  /\ UNCHANGED <<old, new, disk, del, writing, begun, got>>

EndVerify ==
  /\ chk.run = "running" /\ chk.todo = {}
  /\ chk' = [chk EXCEPT !.run = "ok"]
  /\ UNCHANGED <<old, new, disk, del, writing, begun, got>>

-----------------------------------------------------------------------------
(* The download: what the manifest verifies is written *)

BeginWrite(i) ==
  /\ i \in DOMAIN new \ (got \cup writing)
  /\ disk' = [disk EXCEPT ![i] = "torn"]
  /\ writing' = writing \cup {i}
  /\ begun' = begun \cup {i}
  /\ UNCHANGED <<old, new, del, chk, got>>

EndWrite(i) ==
  /\ i \in writing
  /\ disk' = [disk EXCEPT ![i] = new[i]]
  /\ writing' = writing \ {i}
  /\ got' = got \cup {i}
  /\ UNCHANGED <<old, new, del, chk, begun>>

\* The file stays torn, until a later attempt at the chunk.
FailWrite(i) ==
  /\ i \in writing
  /\ writing' = writing \ {i}
  /\ UNCHANGED <<old, new, disk, del, chk, begun, got>>

\* Everything in memory is lost, the files stay as they are.
Crash ==
  /\ del' = NoDel /\ chk' = NoChk
  /\ writing' = {} /\ begun' = {} /\ got' = {}
  /\ UNCHANGED <<old, new, disk>>

Next ==
  \/ StartDelete
  \/ \E i \in Index : RemoveFile(i)
  \/ FailRemove
  \/ EndDelete
  \/ StartVerify
  \/ \E i \in Index : CheckFile(i)
  \/ EndVerify
  \/ \E i \in Index : BeginWrite(i) \/ EndWrite(i) \/ FailWrite(i)
  \/ Crash

Spec == Init /\ [][Next]_vars

-----------------------------------------------------------------------------
(* Properties *)

\* What the parts of an update promise together: once a deletion ran to its end, a
\* verification found nothing and the download has marked the changed chunks and
\* whatever else it had begun, in any order and after any failures and crashes, the
\* store is the new version, no chunk missing and none left over.
UpdateYieldsNewVersion ==
  (/\ del.run = "ok"
   /\ chk.run = "ok" /\ chk.corrupt = {}
   /\ Changed \cup begun \subseteq got)
    => \A i \in Index : disk[i] = IF i \in DOMAIN new THEN new[i] ELSE "absent"

\* "Unchanged chunks are left in place" (delta.rs:153) by everything but the download:
\* what verify_unchanged finds of a shared chunk, intact or corrupt, stays true over
\* deletions that end, fail or run again, until the download takes up that very chunk.
VerdictsHold ==
  \A i \in Unchanged \ (begun \cup chk.todo) :
    chk.run # "idle" => (i \in chk.corrupt <=> disk[i] # new[i])
=============================================================================
