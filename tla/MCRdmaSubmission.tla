-------------------------- MODULE MCRdmaSubmission --------------------------
(***************************************************************************)
(* RdmaSubmission for TLC: the workloads a run starts from.                *)
(***************************************************************************)
EXTENDS RdmaSubmission

CONSTANTS near, far  \* peers

Put(op, peer, bytes) ==
    [op |-> "submit", opcode |-> op, peer |-> peer, bytes |-> bytes, producer |-> -1]

FenceTo(peer) == [op |-> "fence", peer |-> peer]

AwaitQuiet == [op |-> "quiet"]

Respond(bytes) == [op |-> "respond", bytes |-> bytes]

\* Two queue pairs to a peer, batches and moderation of two, direct data path.
Direct ==
    [peers |-> {near, far}, qpsPerPeer |-> 2, producers |-> 2, mapQpByProducer |-> TRUE,
     queueDepth |-> 2, maxReadAtomic |-> 1, doorbellBatch |-> 2, cqModeration |-> 2,
     stagingBuffer |-> 0, stagingChunk |-> 0, cpuHandoff |-> FALSE, maxFailures |-> 0,
     calls |-> <<Put("WRITE", near, 1), Put("WRITE", near, 1), FenceTo(near), Put("READ", near, 1),
                 Put("WRITE", far, 2), Put("READ", near, 1), AwaitQuiet>>]

\* One queue pair and a staging buffer of two packets, shared with a responder.
Staging ==
    [Direct EXCEPT !.peers = {near}, !.qpsPerPeer = 1, !.stagingBuffer = 2, !.stagingChunk = 1,
                   !.cpuHandoff = TRUE, !.maxReadAtomic = 2,
                   !.calls = <<Put("SEND", near, 2), Put("READ", near, 1), Respond(1),
                               Put("PUT_SIGNAL", near, 2), AwaitQuiet>>]

\* Completions for three works at a time, and a queue that wraps.
Moderated ==
    [Direct EXCEPT !.peers = {near}, !.qpsPerPeer = 1, !.queueDepth = 3, !.cqModeration = 3,
                   !.doorbellBatch = 1, !.maxReadAtomic = 2,
                   !.calls = <<Put("READ", near, 1), Put("WRITE", near, 2), Put("READ", near, 1),
                               Put("WRITE", near, 1), Put("READ", near, 1), AwaitQuiet>>]

\* Round-robin queue pairs, and operations that fail or are lost.
Failing ==
    [Direct EXCEPT !.mapQpByProducer = FALSE, !.maxFailures = 1, !.cqModeration = 1,
                   !.calls = <<Put("PUT_SIGNAL", near, 1), Put("SEND", near, 1), Put("WRITE", far, 1),
                               AwaitQuiet, Put("READ", near, 1), AwaitQuiet>>]

Workloads == {Direct, Staging, Moderated, Failing}
=============================================================================
