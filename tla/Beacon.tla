------------------------------- MODULE Beacon -------------------------------
(***************************************************************************)
(* The beacon (ax25/beacon.go): the goroutine run, which sleeps and sends, *)
(* and its callers: one that starts and stops it, one that triggers it and *)
(* changes its configuration, and the owner of the parent context.         *)
(*                                                                         *)
(* The goroutines are numbered in the order of Start.  A configuration is  *)
(* its number, whether it has a period, and whether it has a source.       *)
(***************************************************************************)
EXTENDS Integers, Sequences

CONSTANTS MaxStarts,   \* bound: goroutines started
          MaxUpdates,  \* bound: calls of UpdateConfig
          MaxFrames    \* bound: frames sent

VARIABLES bcfg,      \* b.cfg
          bcancel,   \* the goroutine b.cancel cancels, 0 for nil
          runs,      \* where each goroutine is, and the configuration it has read
          cancelled, \* the goroutines whose context is cancelled
          stopping,  \* Stop is in wg.Wait
          quiet,     \* Stop has returned, and Start has not been called since
          frames     \* the configurations of the frames sent

beaconVars == <<bcfg, bcancel, runs, cancelled, stopping, quiet, frames>>

Runs == 1 .. Len(runs)
live(k) == runs[k].at # "exited"
Config(n, every, src) == [n |-> n, every |-> every, src |-> src]

\* b.send: a frame, if there is a source to send from.
send(cfg) == IF cfg.src THEN Append(frames, cfg.n) ELSE frames

\* The cancel function is that of a run that was started, and each run of the
\* goroutine is in a known place.
TypeOK == /\ bcfg.n \in 0 .. MaxUpdates
          /\ bcancel \in 0 .. Len(runs)
          /\ \A k \in Runs : runs[k].at \in {"read", "off", "sleep", "exited"}
          /\ cancelled \subseteq Runs

Init == /\ bcfg \in {Config(0, e, TRUE) : e \in BOOLEAN}
        /\ bcancel = 0 /\ runs = << >> /\ cancelled = {}
        /\ stopping = FALSE /\ quiet = TRUE /\ frames = << >>

\* Mutant: a second call starts a second goroutine.
Start_Twice == /\ Len(runs) < MaxStarts
               /\ bcancel' = Len(runs) + 1
               /\ runs' = Append(runs, [at |-> "read", cfg |-> bcfg])
               /\ quiet' = FALSE
               /\ UNCHANGED <<bcfg, cancelled, stopping, frames>>

\* A beacon that is running, or whose parent context has ended, stays as it is.
Start == /\ Len(runs) < MaxStarts /\ bcancel = 0
         /\ bcancel' = Len(runs) + 1
         /\ runs' = Append(runs, [at |-> "read", cfg |-> bcfg])
         /\ quiet' = FALSE
         /\ UNCHANGED <<bcfg, cancelled, stopping, frames>>

Stop == /\ ~stopping /\ stopping' = TRUE
        /\ cancelled' = IF bcancel = 0 THEN cancelled ELSE cancelled \cup {bcancel}
        /\ bcancel' = 0
        /\ UNCHANGED <<bcfg, runs, quiet, frames>>

\* b.wg.Wait(): for a goroutine that another caller has started meanwhile too.
StopReturns == /\ stopping /\ (\A k \in Runs : ~live(k))
               /\ stopping' = FALSE /\ quiet' = TRUE
               /\ UNCHANGED <<bcfg, bcancel, runs, cancelled, frames>>

ParentCancelled == /\ bcancel \notin cancelled \cup {0}
                   /\ cancelled' = cancelled \cup {bcancel}
                   /\ UNCHANGED <<bcfg, bcancel, runs, stopping, quiet, frames>>

Trigger == /\ Len(frames) < MaxFrames
           /\ frames' = send(bcfg)
           /\ UNCHANGED <<bcfg, bcancel, runs, cancelled, stopping, quiet>>

UpdateConfig(every, src) ==
    /\ bcfg.n < MaxUpdates /\ bcfg' = Config(bcfg.n + 1, every, src)
    /\ UNCHANGED <<bcancel, runs, cancelled, stopping, quiet, frames>>

\* The head of the loop: a configuration that is off is never read again.
RunReads(k) == /\ runs[k].at = "read"
               /\ runs' = [runs EXCEPT ![k] =
                             [at |-> IF bcfg.every /\ bcfg.src THEN "sleep" ELSE "off", cfg |-> bcfg]]
               /\ UNCHANGED <<bcfg, bcancel, cancelled, stopping, quiet, frames>>

RunEnds(k) == /\ runs[k].at \in {"off", "sleep"} /\ k \in cancelled
              /\ runs' = [runs EXCEPT ![k].at = "exited"]
              /\ UNCHANGED <<bcfg, bcancel, cancelled, stopping, quiet, frames>>

\* After the pause, with the configuration read before it.
RunSends(k) == /\ runs[k].at = "sleep" /\ Len(frames) < MaxFrames
               /\ frames' = send(runs[k].cfg)
               /\ runs' = [runs EXCEPT ![k].at = "read"]
               /\ UNCHANGED <<bcfg, bcancel, cancelled, stopping, quiet>>

run(k) == RunReads(k) \/ RunEnds(k) \/ RunSends(k)

Next == \/ Start \/ Stop \/ StopReturns \/ ParentCancelled \/ Trigger
        \/ (\E every, src \in BOOLEAN : UpdateConfig(every, src))
        \/ (\E k \in Runs : run(k))

-----------------------------------------------------------------------------
\* At most one goroutine sends.  While a Stop waits for the goroutine it has
\* cancelled, a Start of another caller can put a second one beside it, and
\* both may send; when no Stop waits there is never more than one, there is
\* never more than one that is not cancelled, and once Stop has returned there
\* is none until the next Start (Start, Stop, run).
OneRuns == /\ quiet => \A k \in Runs : ~live(k)
           /\ \A j, k \in Runs : live(j) /\ live(k) /\ j # k =>
                 stopping /\ {j, k} \cap cancelled # {}
=============================================================================
