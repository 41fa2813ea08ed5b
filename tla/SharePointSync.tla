---------------------------- MODULE SharePointSync ----------------------------
(***************************************************************************)
(* core/sharepoint_sync.py: runs of _sync_drive for one drive of a         *)
(* project.  A run reads the drive's cursor, fetches what changed since,   *)
(* and in one transaction writes each item and then the new cursor; the    *)
(* DOCUMENT_INGESTED events are committed one by one meanwhile.  Runs may  *)
(* overlap: it is a helper and a command.  The drives of a project are     *)
(* synced one after the other, each with its own cursor and transaction,   *)
(* so that for one drive a failure in an earlier one is a run that does    *)
(* not start.                                                              *)
(*                                                                         *)
(* An item's content is represented by its version, the number of changes  *)
(* on the drive by then; a delta link by the number of changes it covers.  *)
(*                                                                         *)
(* External: SharePoint behind Microsoft Graph, whose delta query names    *)
(* each item changed since a link with its latest state; PostgreSQL's row  *)
(* locks, of which it breaks a cycle by failing one transaction.           *)
(***************************************************************************)
EXTENDS Integers

CONSTANTS
  Files, NoFile,
  Syncs,           \* processes that run the sync
  Skippable,       \* bound: files that may exceed a run's limit or lack a download URL
  MaxVersion,      \* bound: changes on the drive
  MaxSyncFaults    \* bound: failures of any kind

ASSUME SharePointConstants ==
  NoFile \notin Files /\ MaxVersion \in Nat /\ MaxSyncFaults \in Nat

VARIABLES
  changes,     \* number of changes on the drive so far
  drive,       \* the items there
  cache,       \* version of each item's document_cache row, 0 without a row
  cursor,      \* the cursor row's delta link, 0 without one
  ingested,    \* DOCUMENT_INGESTED events: item and version
  sync,        \* the runs
  passed,      \* version of each item that a run skipped and its cursor passed: history
  stale,       \* a run committed over what another had since committed: history
  syncFaults

syncVars == << changes, drive, cache, cursor, ingested, sync, passed, stale, syncFaults >>

Version  == 0..MaxVersion
NotKnown == -1

\* "other" is a folder or another item that is no file.
DriveItem == [kind : {"absent", "file", "other", "deleted"}, version : Version]

\* An item as the delta query lists it.
Listed == [file : Files, kind : {"file", "other", "deleted"}, version : Version]

\* "staged" holds the rows the open transaction has written, and so locked;
\* "skipped" the versions of the files it has left unwritten; "overtaken" tells that
\* another run has committed since this one started.
Sync ==
  [ at : {"idle", "started", "processing", "writing", "waiting"}, resume : Version,
    items : SUBSET Listed, link : Version \cup {NotKnown},
    file : Files \cup {NoFile}, content : Version,
    staged : [Files -> Version \cup {NotKnown}], skipped : [Files -> Version],
    overtaken : BOOLEAN ]

IdleSync ==
  [ at |-> "idle", resume |-> 0, items |-> {}, link |-> NotKnown, file |-> NoFile,
    content |-> 0, staged |-> [f \in Files |-> NotKnown],
    skipped |-> [f \in Files |-> 0], overtaken |-> FALSE ]

SharePointTypeOK ==
  /\ changes \in Version
  /\ drive \in [Files -> DriveItem]
  /\ cache \in [Files -> Version]
  /\ cursor \in Version
  /\ ingested \subseteq Files \X Version
  /\ sync \in [Syncs -> Sync]
  /\ passed \in [Files -> Version]
  /\ stale \in BOOLEAN
  /\ syncFaults \in 0..MaxSyncFaults

SharePointInit ==
  /\ changes = 0
  /\ drive = [f \in Files |-> [kind |-> "absent", version |-> 0]]
  /\ cache = [f \in Files |-> 0]
  /\ cursor = 0
  /\ ingested = {}
  /\ sync = [x \in Syncs |-> IdleSync]
  /\ passed = [f \in Files |-> 0]
  /\ stale = FALSE
  /\ syncFaults = 0

\* A folder does not become a file.
ItemChanges(f) ==
  /\ changes < MaxVersion
  /\ \E kind \in {"file", "other", "deleted"} :
       /\ drive[f].kind \in IF kind = "deleted" THEN {"file", "other"}
                            ELSE {"absent", "deleted", kind}
       /\ drive' = [drive EXCEPT ![f] = [kind |-> kind, version |-> changes + 1]]
  /\ changes' = changes + 1
  /\ UNCHANGED << cache, cursor, ingested, sync, passed, stale, syncFaults >>

SyncFault == syncFaults < MaxSyncFaults /\ syncFaults' = syncFaults + 1

-----------------------------------------------------------------------------
(* _sync_drive.                                                             *)

ReadCursor(x) ==
  /\ sync[x].at = "idle"
  /\ sync' = [sync EXCEPT ![x].at = "started", ![x].resume = cursor]
  /\ UNCHANGED << changes, drive, cache, cursor, ingested, passed, stale, syncFaults >>

ChangedSince(link) ==
  {[file |-> f, kind |-> drive[f].kind, version |-> drive[f].version]
     : f \in {g \in Files : drive[g].version > link}}

\* All pages.  Graph may end them without a delta link, which is logged.
_fetch_all_delta_items(x) ==
  /\ sync[x].at = "started"
  /\ \E link \in {changes, NotKnown} :
       /\ sync' = [sync EXCEPT ![x].at = "processing", ![x].link = link,
                               ![x].items = ChangedSince(sync[x].resume)]
       /\ IF link = NotKnown THEN SyncFault ELSE UNCHANGED syncFaults
  /\ UNCHANGED << changes, drive, cache, cursor, ingested, passed, stale >>

\* A download may return a newer content than the one that was listed.
_download_and_classify(item) ==
  {item.version} \cup
  (IF drive[item.file].kind = "file" THEN {drive[item.file].version} ELSE {})

\* An item that is no file is left alone, and a file that is above this run's
\* max_file_bytes or comes without a download URL this time.
Skip(x, item) ==
  /\ item.kind = "other" \/ (item.kind = "file" /\ item.file \in Skippable)
  /\ sync' = [sync EXCEPT ![x].items = @ \ {item},
                          ![x].skipped[item.file] = IF item.kind = "file" THEN item.version ELSE @]

\* A row is to be deleted, or the content is downloaded and to be written.
Treat(x, item) ==
  /\ item.kind # "other"
  /\ \E content \in IF item.kind = "deleted" THEN {0} ELSE _download_and_classify(item) :
       sync' = [sync EXCEPT ![x].items = @ \ {item}, ![x].at = "writing",
                            ![x].file = item.file, ![x].content = content]

\* The next item.
TakeItem(x) ==
  /\ sync[x].at = "processing"
  /\ \E item \in sync[x].items : Skip(x, item) \/ Treat(x, item)
  /\ UNCHANGED << changes, drive, cache, cursor, ingested, passed, stale, syncFaults >>

Holds(y, f) == sync[y].staged[f] # NotKnown

Free(f) == \A y \in Syncs : ~Holds(y, f)

\* A DELETE sees committed rows only: where there is none it waits for nobody,
\* locks nothing and does nothing.
NothingToDelete(x) == sync[x].content = 0 /\ cache[sync[x].file] = 0

\* Another run's open transaction has written the row.
WaitForRow(x) ==
  /\ sync[x].at = "writing"
  /\ ~Free(sync[x].file) /\ ~NothingToDelete(x)
  /\ sync' = [sync EXCEPT ![x].at = "waiting"]
  /\ UNCHANGED << changes, drive, cache, cursor, ingested, passed, stale, syncFaults >>

\* The row is free, and those who waited for it come first.
MayWrite(x) ==
  /\ Free(sync[x].file)
  /\ \A y \in Syncs :
       sync[y].at = "waiting" /\ sync[y].file = sync[x].file => sync[x].at = "waiting"

ItemWritten(x, staged) ==
  sync' = [sync EXCEPT ![x].at = "processing", ![x].staged = staged,
                       ![x].file = NoFile, ![x].content = 0]

\* _upsert_document_cache and the event, which may be lost: the False is not read.
UpsertItem(x) ==
  /\ sync[x].at \in {"writing", "waiting"}
  /\ sync[x].content # 0
  /\ MayWrite(x)
  /\ ItemWritten(x, [sync[x].staged EXCEPT ![sync[x].file] = sync[x].content])
  /\ \/ /\ ingested' = ingested \cup {<< sync[x].file, sync[x].content >>}
        /\ UNCHANGED syncFaults
     \/ SyncFault /\ UNCHANGED ingested
  /\ UNCHANGED << changes, drive, cache, cursor, passed, stale >>

\* _delete_document_cache_row; no event.
DeleteItem(x) ==
  /\ sync[x].at \in {"writing", "waiting"}
  /\ sync[x].content = 0
  /\ \/ NothingToDelete(x) /\ ItemWritten(x, sync[x].staged)
     \/ /\ ~NothingToDelete(x)
        /\ MayWrite(x)
        /\ ItemWritten(x, [sync[x].staged EXCEPT ![sync[x].file] = 0])
  /\ UNCHANGED << changes, drive, cache, cursor, ingested, passed, stale, syncFaults >>

\* The drive's delta link after the run; none leaves the old one.
HeadOfDrive(x) == IF sync[x].link = NotKnown THEN cursor ELSE changes
cursor_row(x)  == IF sync[x].link = NotKnown THEN cursor ELSE sync[x].link

\* The cursor row, in the items' transaction, and its commit.
CommitSync(x) ==
  /\ sync[x].at = "processing"
  /\ sync[x].items = {}
  /\ cache' = [f \in Files |-> IF Holds(x, f) THEN sync[x].staged[f] ELSE cache[f]]
  /\ cursor' = cursor_row(x)
  /\ passed' = [f \in Files |->
       IF sync[x].link # NotKnown /\ sync[x].skipped[f] # 0
       THEN sync[x].skipped[f] ELSE passed[f]]
  /\ stale' = (stale \/ sync[x].overtaken)
  /\ sync' = [y \in Syncs |->
       IF y = x THEN IdleSync
       ELSE IF sync[y].at = "idle" THEN sync[y] ELSE [sync[y] EXCEPT !.overtaken = TRUE]]
  /\ UNCHANGED << changes, drive, ingested, syncFaults >>

\* The transaction is rolled back, the cursor row with it; events stay.
CursorOnItsOwn(x) == IF sync[x].link = NotKnown THEN cursor ELSE sync[x].link
CursorRolledBack(x) == cursor

RollBack(x) ==
  /\ cursor' = CursorRolledBack(x)
  /\ sync' = [sync EXCEPT ![x] = IdleSync]
  /\ UNCHANGED << changes, drive, cache, ingested, passed, stale >>

\* A call to Graph, a download or the database raises, or the process stops.
SyncFails(x) == sync[x].at # "idle" /\ SyncFault /\ RollBack(x)

WaitsFor(x, y) == sync[x].at = "waiting" /\ Holds(y, sync[x].file)

\* PostgreSQL fails one of two transactions that wait for each other.
DeadlockVictim(x) ==
  /\ \E y \in Syncs : WaitsFor(x, y) /\ WaitsFor(y, x)
  /\ RollBack(x)
  /\ UNCHANGED syncFaults

RunSync(x) ==
  \/ ReadCursor(x) \/ _fetch_all_delta_items(x) \/ TakeItem(x) \/ WaitForRow(x)
  \/ UpsertItem(x) \/ DeleteItem(x) \/ CommitSync(x) \/ DeadlockVictim(x)

SharePointNext ==
  \/ \E f \in Files : ItemChanges(f)
  \/ \E x \in Syncs : RunSync(x) \/ SyncFails(x)

SharePointSpec == SharePointInit /\ [][SharePointNext]_syncVars

\* Syncs are started again and again.
SharePointFairness == \A x \in Syncs : WF_syncVars(RunSync(x))
-----------------------------------------------------------------------------
(* Correctness.                                                             *)

\* The cursor never passes a change that the cache does not show, but for a file
\* that the run which passed it has skipped: through failed downloads, crashes,
\* missing links and changes during a run, unless a run commits an older listing
\* over the newer one of a run it overlapped.
Shows(f) ==
  CASE drive[f].kind = "file"    -> cache[f] = drive[f].version
    [] drive[f].kind = "deleted" -> cache[f] = 0
    [] OTHER                     -> TRUE

Skipped(f) == drive[f].kind = "file" /\ passed[f] = drive[f].version

CursorIsHonest ==
  ~stale => \A f \in Files : drive[f].version <= cursor => Shows(f) \/ Skipped(f)

\* An event of a run that was rolled back is not false for ever: a later run
\* writes the announced content or a newer one, or skips it, or the item is no
\* longer a file to be cached.
EventsComeTrue ==
  \A f \in Files, v \in 1..MaxVersion :
    << f, v >> \in ingested ~>
      stale \/ cache[f] >= v \/ passed[f] >= v \/ drive[f].kind # "file"
=============================================================================
