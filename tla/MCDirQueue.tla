----------------------------- MODULE MCDirQueue -----------------------------
(***************************************************************************)
(* Small instances of DirQueue: who drains the queue.                      *)
(***************************************************************************)
EXTENDS DirQueue, TLC

CONSTANTS a, b

JustWorker == a :> "worker"
CliAndInline == a :> "cli" @@ b :> "inline"
WorkerAndOnce == a :> "worker" @@ b :> "once"

TwoMessages == 1..2
ThreeMessages == 1..3
=============================================================================
