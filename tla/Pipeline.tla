-------------------------------- MODULE Pipeline --------------------------------
(***************************************************************************)
(* A file on its way to the nodes: the client's manifest of it             *)
(* (main.rs run_client, proto/client.rs create_job), the frame that takes  *)
(* it to the tracker (proto/mod.rs), what a starting node gets of it       *)
(* (peer/mod.rs fetch_manifest), the bitmaps reported against it, the same *)
(* manifest streamed from disk (manifest.rs build_from_file), and its      *)
(* chunks in erasure-coded stripes (erasure.rs).                           *)
(***************************************************************************)
EXTENDS Erasure

CONSTANTS
  Files,      \* the files a client may publish
  SizesMb,    \* values of --chunk-size-mb
  MiB,        \* 1024 * 1024
  Envelope,   \* length of a create_job message without the hashes,
  HashBytes,  \* and what each hash adds to it
  MaxFrame,   \* MAX_FRAME
  None

ASSUME FileAssumption ==
  \A f \in Files : \E n \in 0 .. U64 - 1 : f \in [0 .. n - 1 -> Nat]

ASSUME FrameAssumption ==
  /\ SizesMb \subseteq 0 .. U64 - 1 /\ MiB \in Nat
  /\ Envelope \in Nat /\ HashBytes \in Nat /\ MaxFrame \in 0 .. U32 - 1

VARIABLES
  stage,      \* how far the file got
  file,       \* its content
  chunkSize,
  manifest,   \* the client's manifest
  stream,     \* build_from_file: bytes read so far and the hashes pushed
  job,        \* the manifest of the tracker's job
  node,       \* a process started with --job-id
  bitmap,     \* of a node that has the manifest
  seen,       \* NodeState::bitmap of that node, and the bitmap it was sent of
  stripe      \* the stripe under way: its chunks ("parts", none if it is the whole
              \* file), its data shards, the shards still present, the rebuilt bytes

data == <<stage, file, chunkSize, manifest, stream, job>>
holder == <<node, bitmap, seen>>
vars == <<data, holder, stripe>>

Total == Length(file)

\* A build with overflow checks refuses a size that wraps here.
Init ==
  /\ stage = "cli"
  /\ file \in Files
  /\ \E mb \in SizesMb : chunkSize = (mb * MiB) % U64
  /\ manifest = None /\ job = None
  /\ stream = [pos |-> 0, hashes |-> <<>>]
  /\ node = "idle" /\ bitmap = NewBitmap(0)
  /\ seen = [sent |-> NewBitmap(0), got |-> NewBitmap(0)]
  /\ stripe = [step |-> "none", parts |-> <<>>, shards |-> <<>>, present |-> {}, out |-> <<>>]

-----------------------------------------------------------------------------
(* The client *)

\* A division by zero; or a sum too large, in a build with overflow checks.
PanicBuild ==
  /\ stage = "cli"
  /\ chunkSize = 0 \/ Total + chunkSize >= U64
  /\ stage' = "panicked"
  /\ UNCHANGED <<file, chunkSize, manifest, stream, job, holder, stripe>>

BuildManifest ==
  /\ stage = "cli" /\ chunkSize # 0
  /\ stage' = "built"
  /\ manifest' = Build(file, chunkSize)
  /\ UNCHANGED <<file, chunkSize, stream, job, holder, stripe>>

\* Bytes of the JSON that carries a manifest; its own JSON is an array in there.
Payload(m) == Envelope + HashBytes * m.count

\* Mutant: a frame cut short is parsed for what it has.
AcceptsPrefix(len) == len % U32 <= MaxFrame

\* write_msg sends the length as a u32, read_msg takes that many bytes: of a longer
\* message they are a prefix, which is no JSON.
Accepts(len) == len % U32 <= MaxFrame /\ len % U32 = len

\* create_job: the tracker has the job, or the client an error.
Submit ==
  /\ stage = "built"
  /\ IF Accepts(Payload(manifest))
       THEN /\ stage' = "job"
            /\ job' = manifest
            /\ bitmap' = NewBitmap(manifest.count)
       ELSE /\ stage' = "refused"
            /\ UNCHANGED <<job, bitmap>>
  /\ UNCHANGED <<file, chunkSize, manifest, stream, node, seen, stripe>>

-----------------------------------------------------------------------------
(* build_from_file: one read() per chunk, of any length up to the buffer's *)

StreamStart ==
  /\ stage = "cli" /\ chunkSize # 0
  /\ stage' = "streaming"
  /\ UNCHANGED <<file, chunkSize, manifest, stream, job, holder, stripe>>

ReadAgain(n) ==
  /\ stage = "streaming" /\ Len(stream.hashes) < ChunksNeeded(Total, chunkSize)
  /\ n > 0 \/ stream.pos = Total
  /\ stream' = [pos    |-> stream.pos + n,
                hashes |-> Append(stream.hashes, Slice(file, stream.pos, stream.pos + n))]
  /\ UNCHANGED <<stage, file, chunkSize, manifest, job, holder, stripe>>

StreamEnd ==
  /\ stage = "streaming" /\ Len(stream.hashes) = ChunksNeeded(Total, chunkSize)
  /\ stage' = "streamed"
  /\ manifest' = [total |-> Total, size |-> chunkSize, count |-> Len(stream.hashes),
                  hashes |-> [i \in 0 .. Len(stream.hashes) - 1 |-> stream.hashes[i + 1]]]
  /\ UNCHANGED <<file, chunkSize, stream, job, holder, stripe>>

-----------------------------------------------------------------------------
(* A node of the job *)

StatusFields ==
  {"job_id", "file_id", "version", "status", "policy", "total_chunks",
   "node_count", "avg_completion_pct", "nodes"}

ManifestFields ==
  {"file_id", "version", "total_size", "chunk_size", "chunk_count", "chunk_hashes"}

\* fetch_manifest: the status has no field "manifest", so it is parsed itself.
FetchManifest ==
  /\ stage = "job" /\ node = "idle"
  /\ node' = IF ManifestFields \subseteq StatusFields THEN "started" ELSE "stopped"
  /\ UNCHANGED <<data, bitmap, seen, stripe>>

\* What a node does that has the manifest.
Mark(i) ==
  /\ stage = "job" /\ i \in Missing(bitmap)
  /\ bitmap' = MarkComplete(bitmap, i)
  /\ UNCHANGED <<data, node, seen, stripe>>

\* A heartbeat, as update_node decodes it.
Heartbeat ==
  /\ stage = "job"
  /\ seen' = [sent |-> bitmap, got |-> FromBytes(AsBytes(bitmap), job.count)]
  /\ UNCHANGED <<data, node, bitmap, stripe>>

-----------------------------------------------------------------------------
(* Erasure coding *)

Encode(parts, shards) ==
  /\ stage = "job" /\ stripe.step = "none"
  /\ stripe' = [step |-> "coded", parts |-> parts, shards |-> shards,
                present |-> Shard, out |-> <<>>]
  /\ UNCHANGED <<data, holder>>

\* The whole file in one stripe.
SplitFile == ~SplitPanics(file) /\ Encode(<<>>, SplitIntoShards(file))

PanicSplit ==
  /\ stage = "job" /\ SplitPanics(file)
  /\ stage' = "panicked"
  /\ UNCHANGED <<file, chunkSize, manifest, stream, job, holder, stripe>>

\* A window of scarce chunks, whichever they are.
EncodeStripe(parts) ==
  Encode(parts, BuildStripe([j \in DOMAIN parts |-> job.hashes[parts[j]]]))

Lose(s) ==
  /\ stripe.step = "coded" /\ s \in stripe.present
  /\ stripe' = [stripe EXCEPT !.present = @ \ {s}]
  /\ UNCHANGED <<data, holder>>

Rebuild ==
  /\ stripe.step = "coded"
  /\ stripe' =
       IF ~CanReconstruct(stripe.present) THEN [stripe EXCEPT !.step = "failed"]
       ELSE [stripe EXCEPT !.step = "rebuilt",
               !.out = IF stripe.parts = <<>> THEN MergeShards(stripe.shards, Total)
                       ELSE MergeStripe(stripe.shards)]
  /\ UNCHANGED <<data, holder>>

Windows ==
  {p \in UNION {[1 .. n -> 0 .. job.count - 1] : n \in 1 .. DataShards} :
     \A i, j \in DOMAIN p : p[i] = p[j] => i = j}

Next ==
  \/ PanicBuild
  \/ BuildManifest
  \/ Submit
  \/ StreamStart
  \/ \E n \in 0 .. Least(chunkSize, Total - stream.pos) : ReadAgain(n)
  \/ StreamEnd
  \/ FetchManifest
  \/ \E i \in Missing(bitmap) : Mark(i)
  \/ Heartbeat
  \/ SplitFile
  \/ PanicSplit
  \/ stage = "job" /\ \E p \in Windows : EncodeStripe(p)
  \/ \E s \in Shard : Lose(s)
  \/ Rebuild

Spec == Init /\ [][Next]_vars

-----------------------------------------------------------------------------
(* Properties *)

HasManifest == stage \in {"built", "refused", "job", "streamed"}

IsManifest(m) ==
  /\ DOMAIN m = {"total", "size", "count", "hashes"}
  /\ m.total = Total /\ m.size = chunkSize
  /\ m.count \in 0 .. U32 - 1 /\ DOMAIN m.hashes = 0 .. m.count - 1

\* Types: counts fit 32 bits, sizes 64, and no read goes past the end of the file.
TypeOK ==
  /\ stage \in {"cli", "built", "refused", "job", "streaming", "streamed", "panicked"}
  /\ file \in Files /\ chunkSize \in 0 .. U64 - 1
  /\ HasManifest => IsManifest(manifest)
  /\ stage = "job" => IsManifest(job)
  /\ stream.pos \in 0 .. Total /\ Len(stream.hashes) \in 0 .. U32 - 1
  /\ node \in {"idle", "started", "stopped"}
  /\ stripe.step \in {"none", "coded", "rebuilt", "failed"} /\ stripe.present \subseteq Shard

\* Sums and counts stay below the widths of their types.
Fits == Total + chunkSize - 1 < U64 /\ Ceil(Total, chunkSize) < U32

Holds(m, i, b) ==
  LET r == ChunkRange(i, m.size, m.total) IN r[1] <= b /\ b < r[2]

\* The chunks of a manifest cover every byte of the file once, so nothing reaches
\* a node unverified and nothing is missing from a complete one, exactly when no
\* sum has wrapped and no count been cut to 32 bits on the way.
ManifestCoversFile ==
  HasManifest =>
    ((\A b \in DOMAIN file :
        \E i \in 0 .. manifest.count - 1 :
          /\ Holds(manifest, i, b)
          /\ \A j \in 0 .. manifest.count - 1 : Holds(manifest, j, b) => i = j)
      <=> (Total = 0 \/ Fits))

\* The tracker gets the client's manifest whole or not at all, whatever the length
\* field and the cap make of a large one; and only a frame over the cap is refused.
SubmittedWholeOrNot ==
  /\ stage = "job" => job = Build(file, chunkSize) /\ Payload(job) <= MaxFrame
  /\ stage = "refused" => Payload(manifest) > MaxFrame

\* The tracker decodes a heartbeat to the very chunks that it was sent of, has a bit
\* for every chunk a peer query may ask for, and counts as the node does, so that
\* both agree on when the node is complete.
BitmapSurvives ==
  LET sent == seen.sent
      got  == seen.got
  IN /\ {i \in 0 .. sent.count - 1 : Has(got, i)} = sent.bits
     /\ \A i \in 0 .. sent.count - 1 : ~Panics(got, i)
     /\ IsComplete(got) <=> Missing(sent) = {}
     /\ IsComplete(sent) <=> Missing(sent) = {}

\* Every chunk of a stripe can be cut out of the reconstructed data by its place in
\* the stripe and its length in the manifest, and passes verification, also the
\* short last chunk of the file, wherever in the stripe it is.
RebuildsEveryChunk ==
  (stage = "job" /\ stripe.step = "rebuilt") =>
    \A j \in DOMAIN stripe.parts :
      LET c    == stripe.parts[j]
          from == (j - 1) * Length(stripe.shards[0])
          r    == ChunkRange(c, job.size, job.total)
          to   == from + (r[2] - r[1])
      IN to <= Length(stripe.out) /\ VerifyChunk(job, c, Slice(stripe.out, from, to))

\* A file that was split and lost no more than the parity is merged to itself, and
\* beyond that there is an error, never other bytes.
SplitMergesBack ==
  (stripe.parts = <<>> /\ stripe.step \in {"rebuilt", "failed"}) =>
    IF Cardinality(Shard \ stripe.present) <= ParityShards
      THEN stripe.step = "rebuilt" /\ stripe.out = file
      ELSE stripe.step = "failed"

\* "The status body embeds the manifest fields" (peer/mod.rs:114): a node that asks
\* for the manifest of a job of the tracker gets it.
NodeGetsManifest == node # "stopped"

\* "SHA-256 hex digest per chunk (indexed by chunk index)" (manifest.rs:20), "streaming a
\* file from disk chunk-by-chunk" (manifest.rs:53): each hash of a streamed manifest
\* verifies the chunk of its index.
StreamHashesChunks ==
  stage = "streamed" =>
    \A i \in 0 .. manifest.count - 1 :
      LET r == ChunkRange(i, chunkSize, Total)
      IN VerifyChunk(manifest, i, Slice(file, r[1], r[2]))
=============================================================================
