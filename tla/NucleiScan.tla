------------------------------ MODULE NucleiScan ------------------------------
(***************************************************************************)
(* vulnerabilities/nuclei: the jobs of one container.  A job may bring     *)
(* custom templates, which it stages in a directory of its own, through a  *)
(* cache that all jobs of the container share, and runs nuclei's engine in *)
(* the process of the connector.  Jobs run one after the other, except     *)
(* that the runtime may start the next while one that was cancelled and    *)
(* did not return in time still runs.                                      *)
(*                                                                         *)
(* The engine, the server of the templates and the file system are         *)
(* external.                                                               *)
(***************************************************************************)
EXTENDS Naturals, Sequences, FiniteSets

CONSTANTS
    Jobs,
    Keys,        \* templates with a usable cache key
    Plain,       \* templates without: inline, or with an unsafe key
    Profile,     \* of each job: its custom templates and the filters it sets
    MaxEvents    \* bound on the events of one scan

ASSUME NucleiAssumption ==
    /\ Keys \cap Plain = {} /\ MaxEvents \in Nat
    /\ Profile \in [Jobs -> [custom : Seq(Keys \cup Plain), ids : BOOLEAN, select : BOOLEAN]]

VARIABLES
    cache,      \* what a reader finds under each key: nothing, a part or the whole
    pc,
    tmp,        \* the file from which a job fills the cache
    staged,     \* the files of the job's directory, in order
    loaded,     \* what the engine runs
    found, skipped,          \* the callback's counters
    had,        \* history: the outcomes that events of the scan had
    result,
    cancelled, abandoned     \* the job's context has ended; the runtime has given it up

files == <<cache, tmp, staged>>
events == <<found, skipped, had>>
vars == <<files, pc, loaded, events, result, cancelled, abandoned>>

None == "none"
Baked == "baked"        \* the collection of the image
File(t, part) == [template |-> t, part |-> part]
Whole(t) == File(t, "whole")

Go(j, step) == pc' = [pc EXCEPT ![j] = step]
(* Execute returns and its deferred calls remove the directory.            *)
Return(j, how) ==
    /\ Go(j, "ended")
    /\ result' = [result EXCEPT ![j] = how]
    /\ staged' = [staged EXCEPT ![j] = <<>>]

Running(j) == pc[j] \notin {"idle", "ended"}
Custom(j) == Profile[j].custom
(* The template to be staged next.                                         *)
Current(j) == Custom(j)[Len(staged[j]) + 1]

Init ==
    /\ cache = [k \in Keys |-> None]
    /\ pc = [j \in Jobs |-> "idle"]
    /\ tmp = [j \in Jobs |-> None]
    /\ staged = [j \in Jobs |-> <<>>]
    /\ loaded = [j \in Jobs |-> <<>>]
    /\ found = [j \in Jobs |-> 0] /\ skipped = [j \in Jobs |-> 0] /\ had = [j \in Jobs |-> {}]
    /\ result = [j \in Jobs |-> None]
    /\ cancelled = [j \in Jobs |-> FALSE] /\ abandoned = [j \in Jobs |-> FALSE]

Cancel(j) ==
    /\ Running(j) /\ ~cancelled[j]
    /\ cancelled' = [cancelled EXCEPT ![j] = TRUE]
    /\ UNCHANGED <<files, pc, loaded, events, result, abandoned>>

(* runtime.go:529-535                                                      *)
Abandon(j) ==
    /\ Running(j) /\ cancelled[j] /\ ~abandoned[j]
    /\ abandoned' = [abandoned EXCEPT ![j] = TRUE]
    /\ UNCHANGED <<files, pc, loaded, events, result, cancelled>>

-----------------------------------------------------------------------------
(* Execute up to the engine: no target, no collection or no valid profile  *)
(* are errors, and so is a directory that cannot be made.                  *)

Start(j) ==
    /\ pc[j] = "idle" /\ \A k \in Jobs : Running(k) => abandoned[k]
    /\ \/ Return(j, "error")
       \/ Custom(j) = <<>> /\ Go(j, "engine") /\ UNCHANGED <<result, staged>>
       \/ Custom(j) # <<>> /\ Go(j, "stage") /\ UNCHANGED <<result, staged>>
    /\ UNCHANGED <<cache, tmp, loaded, events, cancelled, abandoned>>

(* stageCustomTemplates, one template after the other; a template that     *)
(* cannot be had, by size or by a failed download, ends the job.           *)
StagingFails(j) ==
    /\ pc[j] \in {"download", "write"}
    /\ Return(j, "error")
    /\ UNCHANGED <<cache, tmp, loaded, events, cancelled, abandoned>>

(* The file is written with what the job was given.                        *)
WriteStaged(j) ==
    /\ pc[j] = "write"
    /\ staged' = [staged EXCEPT ![j] = Append(@, Whole(Current(j)))]
    /\ Go(j, "stage")
    /\ UNCHANGED <<cache, tmp, loaded, events, result, cancelled, abandoned>>

(* customTemplateContent: a readable file in the cache is taken as it is.  *)
Lookup(j) ==
    /\ pc[j] = "stage" /\ Len(staged[j]) < Len(Custom(j))
    /\ LET t == Current(j)
       IN  IF t \in Keys /\ cache[t] # None
           THEN \/ /\ staged' = [staged EXCEPT ![j] = Append(@, File(t, cache[t]))]
                   /\ UNCHANGED <<pc, result>>
                \/ Return(j, "error")           \* the staged file cannot be written
           ELSE Go(j, "download") /\ UNCHANGED <<staged, result>>
    /\ UNCHANGED <<cache, tmp, loaded, events, cancelled, abandoned>>

Download(j) ==
    /\ pc[j] = "download"
    /\ Go(j, IF Current(j) \in Keys THEN "save" ELSE "write")
    /\ UNCHANGED <<files, loaded, events, result, cancelled, abandoned>>

(* writeCacheFile.  Its errors are ignored and it hears no cancellation.   *)
Begin_InPlace(j) == cache' = [cache EXCEPT ![Current(j)] = "part"] /\ UNCHANGED tmp
Begin(j) == tmp' = [tmp EXCEPT ![j] = "part"] /\ UNCHANGED cache

SaveBegins(j) ==
    /\ pc[j] = "save"
    /\ \/ Begin(j) /\ Go(j, "fill")
       \/ UNCHANGED <<cache, tmp>> /\ Go(j, "write")       \* no file
    /\ UNCHANGED <<staged, loaded, events, result, cancelled, abandoned>>

Fill(j) ==
    /\ pc[j] = "fill"
    /\ \/ tmp' = [tmp EXCEPT ![j] = "whole"] /\ Go(j, "rename")
       \/ tmp' = [tmp EXCEPT ![j] = None] /\ Go(j, "write")     \* failed, and removed
    /\ UNCHANGED <<cache, staged, loaded, events, result, cancelled, abandoned>>

Rename(j) ==
    /\ pc[j] = "rename"
    /\ \/ cache' = [cache EXCEPT ![Current(j)] = tmp[j]]
       \/ UNCHANGED cache
    /\ tmp' = [tmp EXCEPT ![j] = None]
    /\ Go(j, "write")
    /\ UNCHANGED <<staged, loaded, events, result, cancelled, abandoned>>

StagingEnds(j) ==
    /\ pc[j] = "stage" /\ Len(staged[j]) = Len(Custom(j))
    /\ Go(j, "engine")
    /\ UNCHANGED <<files, loaded, events, result, cancelled, abandoned>>

-----------------------------------------------------------------------------
(* scanParams: which filters the engine gets.  Filters match nothing of a  *)
(* custom template here, the worst case.                                   *)
Filtered(p) == p.custom = <<>> /\ (p.select \/ p.ids)

EngineStarts(j) ==
    /\ pc[j] = "engine"
    /\ \/ Return(j, "error") /\ UNCHANGED loaded
       \/ /\ loaded' = [loaded EXCEPT ![j] =
                 IF Custom(j) = <<>> THEN <<Whole(Baked)>>
                 ELSE IF Filtered(Profile[j]) THEN <<>> ELSE staged[j]]
          /\ Go(j, "scan") /\ UNCHANGED <<staged, result>>
    /\ UNCHANGED <<cache, tmp, events, cancelled, abandoned>>

(* The engine's callback, on goroutines that share its counters without a  *)
(* lock: an increment may be lost.  Events without a usable name and those *)
(* of a host found unresponsive are skipped; a finding is sent or, if the  *)
(* context has ended, may be dropped; and where the handler panics the     *)
(* event is dropped and not counted, whatever the context.                 *)
Outcomes == {"sent", "unusable", "dropped", "panicked"}
Counted(counter, j) == \E n \in 1..(counter[j] + 1) : counter' = [counter EXCEPT ![j] = n]

Event(j) ==
    /\ pc[j] = "scan"
    /\ found[j] + skipped[j] + Cardinality(had[j] \ {"sent", "unusable"}) < MaxEvents
    /\ \E how \in Outcomes :
           /\ how = "dropped" => cancelled[j]
           /\ had' = [had EXCEPT ![j] = @ \cup {how}]
           /\ IF how = "sent" THEN Counted(found, j) ELSE UNCHANGED found
           /\ IF how = "unusable" THEN Counted(skipped, j) ELSE UNCHANGED skipped
    /\ UNCHANGED <<files, pc, loaded, result, cancelled, abandoned>>

(* The end of the scan.  The engine may fail, and may panic on the         *)
(* goroutine of Execute, which recovers.                                   *)
Verdict_CountsNothing(j) == "ok"
Verdict(j) == IF found[j] = 0 /\ skipped[j] > 0 THEN "error" ELSE "ok"

ScanEnds(j) ==
    /\ pc[j] = "scan"
    /\ \E how \in {"error", Verdict(j)} : Return(j, how)
    /\ UNCHANGED <<cache, tmp, loaded, events, cancelled, abandoned>>

-----------------------------------------------------------------------------
JobStep(j) == \/ Start(j) \/ Lookup(j) \/ Download(j) \/ StagingFails(j)
              \/ SaveBegins(j) \/ Fill(j) \/ Rename(j) \/ WriteStaged(j) \/ StagingEnds(j)
              \/ EngineStarts(j) \/ Event(j) \/ ScanEnds(j)
AllEnded == (\A j \in Jobs : pc[j] = "ended") /\ UNCHANGED vars

Next == (\E j \in Jobs : JobStep(j) \/ Cancel(j) \/ Abandon(j)) \/ AllEnded

Spec == Init /\ [][Next]_vars
-----------------------------------------------------------------------------
(* Properties.                                                             *)

Steps == {"idle", "stage", "download", "save", "fill", "rename", "write",
          "engine", "scan", "ended"}
Files == [template : Keys \cup Plain \cup {Baked}, part : {None, "part", "whole"}]

TypeOK ==
    /\ cache \in [Keys -> {None, "part", "whole"}]
    /\ tmp \in [Jobs -> {None, "part", "whole"}]
    /\ pc \in [Jobs -> Steps]
    /\ staged \in [Jobs -> Seq(Files)] /\ loaded \in [Jobs -> Seq(Files)]
    /\ found \in [Jobs -> Nat] /\ skipped \in [Jobs -> Nat] /\ had \in [Jobs -> SUBSET Outcomes]
    /\ result \in [Jobs -> {None, "ok", "error"}]
    /\ cancelled \in [Jobs -> BOOLEAN] /\ abandoned \in [Jobs -> BOOLEAN]

(* The engine runs the templates its own job brought, all of them and in   *)
(* whole, or the baked collection: whatever other jobs of the container    *)
(* have left in the cache or are writing there at this moment, whichever   *)
(* of their saves failed, and whatever filters the profile sets.           *)
OwnTemplatesOnly ==
    \A j \in Jobs : pc[j] = "scan" =>
        loaded[j] = IF Custom(j) = <<>> THEN <<Whole(Baked)>>
                    ELSE [i \in DOMAIN Custom(j) |-> Whole(Custom(j)[i])]

(* A success with a live context has sent every finding of the scan, but   *)
(* those whose handler panicked: a panic is the one thing that drops a     *)
(* finding silently.  And a success that sent nothing has skipped nothing: *)
(* it is not the empty scan of a host that did not respond, whichever      *)
(* increments of the counters were lost.                                   *)
SuccessIsHonest ==
    \A j \in Jobs : result[j] = "ok" /\ ~cancelled[j] =>
        \/ "sent" \in had[j] /\ "dropped" \notin had[j]
        \/ had[j] \subseteq {"panicked"}
=============================================================================
