---------------------------- MODULE TableAddition ----------------------------
(***************************************************************************)
(* Bringing one Postgres table under replication, and bringing it back     *)
(* after a restart (pg_replicate.rs: PostgresConnection::new, add_table,   *)
(* perform_initial_copy), while the source keeps writing.  A transaction   *)
(* is one row, named by its LSN: its place in the source's log; a table is *)
(* a bag of rows.  The copy itself is InitialCopy, the loop EventLoop, the *)
(* table TableHandler.                                                     *)
(*                                                                         *)
(* Postgres is external: a row is decoded into the stream if the table was *)
(* in the publication when the row was written; a repeatable read          *)
(* transaction sees what was committed before its first statement began.   *)
(***************************************************************************)
EXTENDS Integers, Sequences, Bags, FiniteSetsExt

CONSTANTS
  MaxLsn,         \* the source stops writing here
  AddScenarios    \* see MCReplication

VARIABLES
  addScenario,    \* rows the table has at first, and how often what happens
  pg,             \* the source: its log, publication and slot
  add,            \* add_table
  link,           \* the stream: its position, and whether the loop knows the table
  copied,         \* the table
  addLeft,
  blame           \* the windows a row was written in (history)

ASSUME AddAssumption == AddScenarios \subseteq [rows : Nat, crash : Nat, fail : Nat]

addVars == <<addScenario, pg, add, link, copied, addLeft, blame>>
-----------------------------------------------------------------------------
NoSlot == -1

FreshTable == [special |-> "Normal", buffer |-> EmptyBag, rows |-> EmptyBag, cut |-> 0,
               durable |-> EmptyBag, lsn |-> 0]

AddInit ==
  /\ addScenario \in AddScenarios
  /\ pg = [log |-> [i \in 1 .. addScenario.rows |-> FALSE], pub |-> FALSE, slot |-> NoSlot]
  /\ add = [pc |-> "start", recovery |-> FALSE, count |-> 0, snapshot |-> 0, lsn |-> 0]
  /\ link = [state |-> "down", sent |-> 0, registered |-> FALSE]
  /\ copied = FreshTable
  /\ addLeft = [crash |-> addScenario.crash, fail |-> addScenario.fail]
  /\ blame = {}

WalLsn == Len(pg.log)

(* Where a row written now gets lost: counted as absent and not yet          *)
(* published; invisible to the copy and yet not after its LSN; written       *)
(* between two lives of the publication                                      *)
Window ==
  (IF add.pc = "counted" /\ ~add.recovery /\ add.count = 0 THEN {"not counted"} ELSE {})
    \cup (IF add.pc = "snapshot" THEN {"before its LSN"} ELSE {})
    \cup (IF add.recovery /\ ~pg.pub THEN {"unpublished"} ELSE {})

Write ==
  /\ WalLsn < MaxLsn
  /\ pg' = [pg EXCEPT !.log = Append(@, pg.pub)]
  /\ blame' = blame \cup Window
  /\ UNCHANGED <<addScenario, add, link, copied, addLeft>>
-----------------------------------------------------------------------------
Step(from, to) == add.pc = from /\ add' = [add EXCEPT !.pc = to]

(* PostgresConnection::new: the publication is dropped and created empty,   *)
(* then the slot found or created; start_replication starts the loop        *)
NewPublication ==
  /\ Step("start", "publication")
  /\ pg' = [pg EXCEPT !.pub = FALSE]
  /\ UNCHANGED <<addScenario, link, copied, addLeft, blame>>

StartReplication ==
  LET slot == IF pg.slot = NoSlot THEN WalLsn ELSE pg.slot
  IN  /\ Step("publication", "started")
      /\ pg' = [pg EXCEPT !.slot = slot]
      /\ link' = [state |-> "up", sent |-> slot, registered |-> FALSE]
      /\ UNCHANGED <<addScenario, copied, addLeft, blame>>

(* add_table up to the answer of the loop: the table is built, from what it *)
(* made durable if it is recovered, and registered.  The log is replayed    *)
(* with the recovery below; both are what is durable here                   *)
Register ==
  /\ Step("started", "registered")
  /\ copied' = IF add.recovery
               THEN [copied EXCEPT !.special = "Normal", !.buffer = EmptyBag,
                                   !.rows = copied.durable, !.cut = copied.lsn]
               ELSE FreshTable
  /\ link' = [link EXCEPT !.registered = TRUE]
  /\ UNCHANGED <<addScenario, pg, addLeft, blame>>

(* get_row_count; the table starts to hold events back *)
Count ==
  /\ add.pc = "registered"
  /\ add' = [add EXCEPT !.pc = "counted", !.count = WalLsn]
  /\ copied' = IF ~add.recovery /\ WalLsn > 0 THEN [copied EXCEPT !.special = "InitialCopy"] ELSE copied
  /\ UNCHANGED <<addScenario, pg, link, addLeft, blame>>

(* add_table_to_publication; without rows to copy that is all *)
Publish ==
  /\ Step("counted", IF ~add.recovery /\ add.count > 0 THEN "published" ELSE "done")
  /\ pg' = [pg EXCEPT !.pub = TRUE]
  /\ UNCHANGED <<addScenario, link, copied, addLeft, blame>>

(* export_snapshot_and_lsn: the transaction sees what was committed when    *)
(* the query for the LSN began, the query answers when it is run            *)
TakeSnapshot ==
  /\ add.pc = "published"
  /\ add' = [add EXCEPT !.pc = "snapshot", !.snapshot = WalLsn]
  /\ UNCHANGED <<addScenario, pg, link, copied, addLeft, blame>>

(* Mutant: the copy is said to hold everything the slot has not confirmed *)
ReadLsnOfSlot ==
  /\ add.pc = "snapshot"
  /\ add' = [add EXCEPT !.pc = "copying", !.lsn = pg.slot]
  /\ UNCHANGED <<addScenario, pg, link, copied, addLeft, blame>>

ReadLsn ==
  /\ add.pc = "snapshot"
  /\ add' = [add EXCEPT !.pc = "copying", !.lsn = WalLsn]
  /\ UNCHANGED <<addScenario, pg, link, copied, addLeft, blame>>

(* LoadFiles *)
Load ==
  /\ Step("copying", "loaded")
  /\ copied' = [copied EXCEPT !.rows = @ (+) SetToBag(1 .. add.snapshot)]
  /\ UNCHANGED <<addScenario, pg, link, addLeft, blame>>

(* The copy fails: the task that adds the table panics *)
CopyFails ==
  /\ add.pc = "copying"
  /\ addLeft.fail > 0
  /\ addLeft' = [addLeft EXCEPT !.fail = @ - 1]
  /\ add' = [add EXCEPT !.pc = "panicked"]
  /\ UNCHANGED <<addScenario, pg, link, copied, blame>>

After(tb, rows) == [r \in {x \in DOMAIN rows : x > tb.cut} |-> rows[r]]

(* FinishInitialCopy: what the stream held back and the copy has is dropped *)
Finish ==
  LET tb == [copied EXCEPT !.special = "Normal", !.cut = add.lsn, !.buffer = EmptyBag]
  IN  /\ Step("loaded", "done")
      /\ copied' = [tb EXCEPT !.rows = @ (+) After(tb, copied.buffer)]
      /\ UNCHANGED <<addScenario, pg, link, addLeft, blame>>
-----------------------------------------------------------------------------
(* The next row of the stream.  The loop passes over rows of a table it     *)
(* does not know                                                            *)
Stream ==
  LET r == link.sent + 1
      given == pg.log[r] /\ link.registered
  IN  /\ link.state = "up"
      /\ r <= WalLsn
      /\ link' = [link EXCEPT !.sent = r]
      /\ copied' = IF ~given THEN copied
                   ELSE IF copied.special = "InitialCopy" THEN [copied EXCEPT !.buffer = @ (+) SetToBag({r})]
                   ELSE [copied EXCEPT !.rows = @ (+) After(copied, SetToBag({r}))]
      /\ blame' = IF pg.log[r] /\ ~link.registered THEN blame \cup {"not known"} ELSE blame
      /\ UNCHANGED <<addScenario, pg, add, addLeft>>

(* What was committed becomes durable, and the slot follows *)
LastLsn == Max({copied.cut, copied.lsn} \cup BagToSet(copied.rows))

Persist ==
  /\ link.registered
  /\ copied.special = "Normal"
  /\ copied.lsn < LastLsn
  /\ copied' = [copied EXCEPT !.durable = copied.rows, !.lsn = LastLsn]
  /\ UNCHANGED <<addScenario, pg, add, link, addLeft, blame>>

Confirm ==
  /\ link.state = "up" /\ link.registered
  /\ pg.slot < copied.lsn
  /\ pg' = [pg EXCEPT !.slot = copied.lsn]
  /\ UNCHANGED <<addScenario, add, link, copied, addLeft, blame>>

(* The process dies after the table was added, and is started again *)
CrashAdded ==
  /\ addLeft.crash > 0
  /\ add.pc = "done" \/ add.recovery
  /\ addLeft' = [addLeft EXCEPT !.crash = @ - 1]
  /\ add' = [add EXCEPT !.pc = "start", !.recovery = TRUE]
  /\ link' = [state |-> "down", sent |-> 0, registered |-> FALSE]
  /\ blame' = IF add.snapshot > copied.lsn THEN blame \cup {"not durable"} ELSE blame
  /\ UNCHANGED <<addScenario, pg, copied>>

AddProgress ==
  \/ NewPublication \/ StartReplication \/ Register \/ Count \/ Publish
  \/ TakeSnapshot \/ ReadLsn \/ Load \/ Finish
  \/ Stream \/ Persist \/ Confirm

AddNext == AddProgress \/ Write \/ CopyFails \/ CrashAdded

AddSpec == AddInit /\ [][AddNext]_addVars
-----------------------------------------------------------------------------
Settled == add.pc = "done" /\ link.sent = WalLsn

Whole == BagToSet(copied.rows) = 1 .. WalLsn

(* The copy and the stream meet: no row is in the table twice, and once the  *)
(* table is added and has read the stream it holds every row of the source,  *)
(* after a restart as well, except rows written in one of four windows: the  *)
(* table was counted empty and not published yet, the copy's snapshot was    *)
(* taken and its LSN not read yet, the publication was created again and the *)
(* table not yet put back, or the loop streamed before it knew the table;    *)
(* and copied rows if the process died before Iceberg had them               *)
(* (perform_initial_copy, finish_initial_copy, PostgresConnection::new).     *)
CopyMeetsStream ==
  /\ \A r \in BagToSet(copied.rows) : copied.rows[r] = 1
  /\ Settled /\ blame = {} => Whole

(* What the comment in perform_initial_copy says: the table is published     *)
(* first, so no change between the copy and the stream is missed.            *)
PublishedFirst == Settled /\ blame \subseteq {"not counted"} => Whole

(* The same of the LSN of the copy's snapshot.                               *)
SnapshotHasItsLsn == Settled /\ blame \subseteq {"before its LSN"} => Whole

(* "which allows for recovery from the PostgreSQL replication slot": nothing *)
(* is lost over a restart.                                                   *)
SlotRecovers == Settled /\ blame \subseteq {"unpublished", "not known"} => Whole

(* And the copied rows: the table is not copied again.                       *)
CopySurvives == Settled /\ blame \subseteq {"not durable"} => Whole

(* Adding a table ends, if only by a panic, and the table then reads all the *)
(* source writes (process_blocked_events).                                   *)
AdditionEnds ==
  <>[](\/ add.pc = "panicked"
       \/ Settled /\ copied.special = "Normal" /\ (blame = {} => Whole))
=============================================================================
