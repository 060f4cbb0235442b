------------------------------- MODULE Sidecar -------------------------------
(* The life of the aggregation sidecar: ensure_aggregations at start, the     *)
(* pool opened afterwards, the check before a reload, and crashes between any *)
(* two statements.  Two things are on disk and survive a crash: the rollup    *)
(* tables and the stamp row of agg_meta.  The data file is replaced by newer  *)
(* versions only, and a version stands for its stamp (size and second).       *)
EXTENDS Naturals, Sequences

CONSTANTS Agg,          \* the rollups that design_aggregations designs
          Design,       \* the order in which they are built
          Table,        \* the tables of the sidecar
          TableOf,      \* the table a rollup is built in
          Valid,        \* Valid[t][v]: the sums of t, built from v, are the fact's
          MaxVersion    \* bound: versions of the data file

ASSUME DesignAssumption == Design \in Seq(Agg)
ASSUME TableAssumption == TableOf \in [Agg -> Table]
ASSUME VersionAssumption == MaxVersion \in Nat
ASSUME ValidAssumption == Valid \in [Table -> [1..MaxVersion -> BOOLEAN]]

VARIABLES source,       \* the version of the data file at its path
          tables,       \* the version a table was built from, 0 when it is missing
          meta,         \* the stamp in agg_meta, 0 when there is none
          pc,           \* where the process is
          stamp,        \* local: source_stamp, taken before the sidecar is opened
          from,         \* local: the version attached as src
          next,         \* local: the rollup being built
          routing,      \* AGGREGATIONS is not empty
          pool,         \* the version the pool reads, 0 before it is opened
          moved         \* history: the file was replaced between stamp and pool

disk == <<tables, meta>>
local == <<stamp, from, next>>
vars == <<source, disk, pc, local, routing, pool, moved>>

Steps == 1..Len(Design)
TableAt(i) == TableOf[Design[i]]
Used == {TableAt(i) : i \in Steps}

Building == {"dropping", "creating", "validating", "clearing", "stamping"}
Starting == Building \union {"started", "ready"}
Serves == {"serving", "reloading"}

TypeOK == /\ source \in 1..MaxVersion
          /\ tables \in [Table -> 0..MaxVersion]
          /\ meta \in 0..MaxVersion
          /\ pc \in {"down"} \union Starting \union Serves
          /\ stamp \in 0..MaxVersion
          /\ from \in 0..MaxVersion
          /\ next \in Nat
          /\ routing \in BOOLEAN
          /\ pool \in 0..MaxVersion
          /\ moved \in BOOLEAN

Init == /\ source \in 1..MaxVersion
        /\ tables = [t \in Table |-> 0]
        /\ meta = 0
        /\ pc = "down"
        /\ stamp = 0 /\ from = 0 /\ next = 1
        /\ routing = FALSE
        /\ pool = 0
        /\ moved = FALSE

------------------------------------------------------------------------------
(* The data file and the process.                                             *)

Replace == /\ source < MaxVersion
           /\ source' = source + 1
           /\ moved' = IF pc \in Starting \union {"reloading"} THEN TRUE ELSE moved
           /\ UNCHANGED <<disk, pc, local, routing, pool>>

\* The process dies; the statements that DuckDB committed stay.
Crash == /\ pc # "down"
         /\ pc' = "down"
         /\ routing' = FALSE
         /\ pool' = 0
         /\ moved' = FALSE
         /\ stamp' = 0 /\ from' = 0 /\ next' = 1
         /\ UNCHANGED <<source, disk>>

------------------------------------------------------------------------------
(* ensure_aggregations.                                                       *)

sidecar_current(s) == meta = s
table_exists(t) == tables[t] # 0

\* Mutant: the second of the modification time is rounded up.
StartRoundingUp ==
    /\ pc = "down"
    /\ pc' = "started"
    /\ stamp' = source + 1
    /\ UNCHANGED <<source, disk, from, next, routing, pool, moved>>

\* The stamp is taken before anything is opened.
Start == /\ pc = "down"
         /\ pc' = "started"
         /\ stamp' = source
         /\ UNCHANGED <<source, disk, from, next, routing, pool, moved>>

Reuse == /\ pc = "started"
         /\ sidecar_current(stamp) /\ \A t \in Used : table_exists(t)
         /\ routing' = (Design # <<>>)
         /\ pc' = "ready"
         /\ UNCHANGED <<source, disk, local, pool, moved>>

Attach == /\ pc = "started"
          /\ ~(sidecar_current(stamp) /\ \A t \in Used : table_exists(t))
          /\ from' = source
          /\ next' = 1
          /\ pc' = IF Design = <<>> THEN "validating" ELSE "dropping"
          /\ UNCHANGED <<source, disk, stamp, routing, pool, moved>>

DropTable == /\ pc = "dropping"
             /\ tables' = [tables EXCEPT ![TableAt(next)] = 0]
             /\ pc' = "creating"
             /\ UNCHANGED <<source, meta, local, routing, pool, moved>>

CreateTable == /\ pc = "creating"
               /\ tables' = [tables EXCEPT ![TableAt(next)] = from]
               /\ next' = next + 1
               /\ pc' = IF next = Len(Design) THEN "validating" ELSE "dropping"
               /\ UNCHANGED <<source, meta, stamp, from, routing, pool, moved>>

validate_rollups == /\ pc = "validating"
                    /\ \A t \in Used : Valid[t][from]
                    /\ pc' = "clearing"
                    /\ UNCHANGED <<source, disk, local, routing, pool, moved>>

\* Mutant: the stamp is taken when it is written.
WriteStampLate == /\ pc = "stamping"
                  /\ meta' = source
                  /\ routing' = (Design # <<>>)
                  /\ pc' = "ready"
                  /\ UNCHANGED <<source, tables, local, pool, moved>>

\* write_stamp deletes the old row and inserts the new one, each committed
\* by itself; the rollups are enabled once the row is there.
ClearStamp == /\ pc = "clearing"
              /\ meta' = 0
              /\ pc' = "stamping"
              /\ UNCHANGED <<source, tables, local, routing, pool, moved>>

WriteStamp == /\ pc = "stamping"
              /\ meta' = stamp
              /\ routing' = (Design # <<>>)
              /\ pc' = "ready"
              /\ UNCHANGED <<source, tables, local, pool, moved>>

\* Any error (a statement that fails, sums that differ): serve without.
BuildFails == /\ pc \in Building \union {"started"}
              /\ pc' = "ready"
              /\ UNCHANGED <<source, disk, local, routing, pool, moved>>

OpenPool == /\ pc = "ready"
            /\ pool' = source
            /\ pc' = "serving"
            /\ UNCHANGED <<source, disk, local, routing, moved>>

------------------------------------------------------------------------------
(* reload_data: the sidecar is compared first, the pool is opened second.     *)

\* Mutant: a sidecar that has its tables passes for current.
disable_missing_aggregations ==
    /\ pc = "serving"
    /\ \/ (\A t \in Used : table_exists(t)) /\ UNCHANGED routing
       \/ routing' = FALSE
    /\ moved' = FALSE
    /\ pc' = "reloading"
    /\ UNCHANGED <<source, disk, local, pool>>

\* Routing stays on only for a current sidecar; one that cannot be opened or
\* read counts as stale.
disable_stale_aggregations ==
    /\ pc = "serving"
    /\ \/ sidecar_current(source) /\ UNCHANGED routing
       \/ routing' = FALSE
    /\ moved' = FALSE
    /\ pc' = "reloading"
    /\ UNCHANGED <<source, disk, local, pool>>

ReopenPool == /\ pc = "reloading"
              /\ pool' = source
              /\ pc' = "serving"
              /\ UNCHANGED <<source, disk, local, routing, moved>>

ReopenFails == /\ pc = "reloading"
               /\ pc' = "serving"
               /\ UNCHANGED <<source, disk, local, routing, pool, moved>>

ensure_aggregations == \/ Start \/ Reuse \/ Attach \/ DropTable \/ CreateTable
                       \/ validate_rollups \/ ClearStamp \/ WriteStamp \/ BuildFails

reload_data == disable_stale_aggregations \/ ReopenPool \/ ReopenFails

Next == Replace \/ Crash \/ ensure_aggregations \/ OpenPool \/ reload_data

Spec == Init /\ [][Next]_vars

------------------------------------------------------------------------------
(* Properties.                                                                *)

\* A sidecar whose stamp is that of the data file holds every rollup, built
\* from that file: a crash or an error between two statements of a build, at
\* any time and any number of times, never leaves one that merely looks so.
\* Reuse skips the build on the strength of it (aggregate.rs:163).
CurrentSidecarIsWhole ==
    meta = source => \A t \in Used : tables[t] = source

\* Unless the file was replaced between the stamp and the pool, a plan that is
\* routed to a rollup reads the version that the pool reads (main.rs:95-101,
\* "if the data changed, disable them").
RollupIsCurrent ==
    (pc \in Serves /\ routing /\ ~moved) => \A t \in Used : tables[t] = pool
=============================================================================
