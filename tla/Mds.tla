--------------------------------- MODULE Mds ---------------------------------
(***************************************************************************)
(* The metadata store (nvwal_mds.c).  The flusher records one entry per    *)
(* durable epoch.  Entries of the newest page stay in a buffer on NVDIMM;  *)
(* a full page is appended to the page file before the buffer takes the    *)
(* next page.  Iterators read without a lock: from the buffer, checking    *)
(* its page number before and after, or else from the file.                *)
(*                                                                         *)
(* There is one page file, as kNvwalMdsMaxPagefiles says.  An entry is its *)
(* epoch_id_ and the rest of the cache line; the rest is named by the      *)
(* epoch it was written for.  The buffer's content, the page file and the  *)
(* two epochs of the control block survive a crash; page_no_, dirty_ and   *)
(* latest_epoch_ do not.                                                   *)
(***************************************************************************)
EXTENDS Integers, Sequences

CONSTANTS
  EpochsPerPage,      \* max_epochs_per_page
  kNvwalMdsReadPrefetch,
  Iterators,          \* epoch iterators of the readers
  MaxEpoch,           \* bound: the last epoch written
  MaxRange,           \* bound: epochs an iterator ranges over
  MaxCrashes,         \* bound: crashes and restarts
  TornCopies,         \* which copies of a cache line take several loads: "none", those
                      \* of an iterator that holds no entry ("first"), or "any"
  FsyncMayFail,       \* may fsync() of the page file fail?
  RollbackAllowed,    \* is mds_rollback_to_epoch called?
  CrashWhilePaging    \* may a crash happen while a page is in two places?

ASSUME MdsAssumption ==
  /\ EpochsPerPage \in Nat \ {0} /\ kNvwalMdsReadPrefetch \in Nat \ {0}
  /\ MaxEpoch \in Nat /\ MaxRange \in Nat \ {0} /\ MaxCrashes \in Nat
  /\ TornCopies \in {"none", "first", "any"} /\ FsyncMayFail \in BOOLEAN
  /\ RollbackAllowed \in BOOLEAN /\ CrashWhilePaging \in BOOLEAN

kNvwalInvalidPage == 0

VARIABLES
  \* durable: the buffer's slots, the page file (entry by entry) with the
  \* length that survives a crash, and the control block
  slots, file, synced, durable_epoch, paged_mds_epoch,
  \* volatile: the buffer's descriptor and the latest epoch
  page_no, dirty, latest_epoch,
  \* the thread that writes epochs: the flusher, or the one in nvwal_init
  pc, total_written, crashes,
  \* the iterators: where they are, the current and the end epoch, the
  \* entries they hold, num_entries_, and which of them is current
  ipc, cur_epoch_id, end_epoch_id, buffer, num_entries, current

durableVars  == <<slots, file, synced, durable_epoch, paged_mds_epoch>>
bufmgrVars   == <<page_no, dirty>>
iteratorVars == <<ipc, cur_epoch_id, end_epoch_id, buffer, num_entries, current>>
vars == <<durableVars, bufmgrVars, latest_epoch, pc, total_written, crashes,
          iteratorVars>>

Offsets  == 0..(EpochsPerPage - 1)
Entry(e) == [epoch_id |-> e, rest |-> e]
Entries  == [epoch_id : 0..MaxEpoch, rest : 0..MaxEpoch]

epoch_id_to_page_no(e) ==
  IF e = 0 THEN kNvwalInvalidPage ELSE 1 + (e - 1) \div EpochsPerPage
epoch_id_to_page_offset(e) == (e - 1) % EpochsPerPage
PageEnd(p) == p * EpochsPerPage      \* the last epoch of page p

Init ==
  /\ slots = [o \in Offsets |-> Entry(0)]
  /\ file = <<>> /\ synced = 0
  /\ durable_epoch = 0 /\ paged_mds_epoch = 0
  /\ page_no = kNvwalInvalidPage /\ dirty = FALSE /\ latest_epoch = 0
  /\ pc = "idle" /\ total_written = 0 /\ crashes = 0
  /\ ipc = [i \in Iterators |-> "closed"]
  /\ cur_epoch_id = [i \in Iterators |-> 0]
  /\ end_epoch_id = [i \in Iterators |-> 0]
  /\ buffer = [i \in Iterators |-> <<Entry(0)>>]
  /\ num_entries = [i \in Iterators |-> 0]
  /\ current = [i \in Iterators |-> 1]

----------------------------------------------------------------------------
(* mds_write_epoch, for the epoch after the durable one.                   *)

Epoch == durable_epoch + 1

Goto(from, to) == pc = from /\ pc' = to

\* mds_bufmgr_alloc_page takes a free buffer, keeps the page it holds, and
\* moves to the next page if the one it holds is clean.
CanAllocate(page) == \/ page_no \in {kNvwalInvalidPage, page}
                     \/ page = page_no + 1 /\ ~dirty
AllocPage(page) == page_no' = page /\ dirty' = TRUE

WriteAllocates ==
  /\ Epoch <= MaxEpoch
  /\ CanAllocate(epoch_id_to_page_no(Epoch))
  /\ AllocPage(epoch_id_to_page_no(Epoch))
  /\ Goto("idle", "store")
  /\ UNCHANGED <<durableVars, latest_epoch, total_written, crashes, iteratorVars>>

\* ENOBUFS: the page is appended to the file, with as many write()s as it
\* takes.  What is written is in the file but survives a crash only by luck.
WriteNeedsPaging ==
  /\ Epoch <= MaxEpoch
  /\ ~CanAllocate(epoch_id_to_page_no(Epoch))
  /\ Goto("idle", "append")
  /\ total_written' = 0
  /\ UNCHANGED <<durableVars, bufmgrVars, latest_epoch, crashes, iteratorVars>>

AppendSome ==
  /\ pc = "append"
  /\ file' = Append(file, slots[total_written])
  /\ total_written' = total_written + 1
  /\ pc' = IF total_written' = EpochsPerPage THEN "sync" ELSE "append"
  /\ UNCHANGED <<slots, synced, durable_epoch, paged_mds_epoch, bufmgrVars,
                 latest_epoch, crashes, iteratorVars>>

\* write() fails: mds_write_epoch returns and the flusher ends with the error.
AppendFails ==
  /\ Goto("append", "failed")
  /\ UNCHANGED <<durableVars, bufmgrVars, latest_epoch, total_written, crashes, iteratorVars>>

AppendSync ==
  /\ Goto("sync", "paged")
  /\ synced' \in {Len(file)} \cup (IF FsyncMayFail THEN {synced} ELSE {})
  /\ dirty' = FALSE
  /\ UNCHANGED <<slots, file, durable_epoch, paged_mds_epoch, page_no,
                 latest_epoch, total_written, crashes, iteratorVars>>

\* Variant: the epoch being written counts as paged out already.
UpdatePagedEpochEarly ==
  /\ Goto("paged", "retry")
  /\ paged_mds_epoch' = Epoch
  /\ UNCHANGED <<slots, file, synced, durable_epoch, bufmgrVars, latest_epoch,
                 total_written, crashes, iteratorVars>>

UpdatePagedEpoch ==
  /\ Goto("paged", "retry")
  /\ paged_mds_epoch' = durable_epoch
  /\ UNCHANGED <<slots, file, synced, durable_epoch, bufmgrVars, latest_epoch,
                 total_written, crashes, iteratorVars>>

WriteRetries ==
  /\ Goto("retry", "store")
  /\ AllocPage(epoch_id_to_page_no(Epoch))
  /\ UNCHANGED <<durableVars, latest_epoch, total_written, crashes, iteratorVars>>

StoreEntry ==
  /\ Goto("store", "latest")
  /\ slots' = [slots EXCEPT ![epoch_id_to_page_offset(Epoch)] = Entry(Epoch)]
  /\ UNCHANGED <<file, synced, durable_epoch, paged_mds_epoch, bufmgrVars,
                 latest_epoch, total_written, crashes, iteratorVars>>

CountLatest ==
  /\ Goto("latest", "durable")
  /\ latest_epoch' = latest_epoch + 1
  /\ UNCHANGED <<durableVars, bufmgrVars, total_written, crashes, iteratorVars>>

UpdateDurableEpoch ==
  /\ Goto("durable", "idle")
  /\ durable_epoch' = Epoch
  /\ UNCHANGED <<slots, file, synced, paged_mds_epoch, bufmgrVars, latest_epoch,
                 total_written, crashes, iteratorVars>>

----------------------------------------------------------------------------
(* mds_rollback_to_epoch: no iterator may be open meanwhile.  mds_recover  *)
(* calls it to complete one that a crash interrupted.                      *)

RollbackPage == epoch_id_to_page_no(durable_epoch)

Rollback(epoch) ==
  /\ RollbackAllowed
  /\ \A i \in Iterators : ipc[i] = "closed"
  /\ durable_epoch' = epoch
  /\ IF epoch < paged_mds_epoch
     THEN Goto("idle", "read_page") /\ UNCHANGED latest_epoch
     ELSE Goto("idle", "idle") /\ latest_epoch' = epoch
  /\ UNCHANGED <<slots, file, synced, paged_mds_epoch, bufmgrVars,
                 total_written, crashes, iteratorVars>>

\* mds_bufmgr_read_page.  At the end of the file pread() returns 0, and
\* mds_io_pread calls it again, for ever.
RollbackReadsPage ==
  /\ IF PageEnd(RollbackPage) <= Len(file)
     THEN /\ Goto("read_page", "truncate")
          /\ slots' = [o \in Offsets |->
                         file[PageEnd(RollbackPage - 1) + o + 1]]
          /\ AllocPage(RollbackPage)
     ELSE Goto("read_page", "hung") /\ UNCHANGED <<slots, bufmgrVars>>
  /\ UNCHANGED <<file, synced, durable_epoch, paged_mds_epoch, latest_epoch,
                 total_written, crashes, iteratorVars>>

RollbackTruncates ==
  /\ Goto("truncate", "set_paged")
  /\ file' = SubSeq(file, 1, PageEnd(RollbackPage - 1))
  /\ synced' = Len(file')
  /\ UNCHANGED <<slots, durable_epoch, paged_mds_epoch, bufmgrVars,
                 latest_epoch, total_written, crashes, iteratorVars>>

RollbackSetsPagedEpoch ==
  /\ Goto("set_paged", "idle")
  /\ paged_mds_epoch' = PageEnd(RollbackPage - 1)
  /\ latest_epoch' = durable_epoch
  /\ UNCHANGED <<slots, file, synced, durable_epoch, bufmgrVars,
                 total_written, crashes, iteratorVars>>

----------------------------------------------------------------------------
(* Crash, or uninitialisation, and restart.                                *)

\* The page below the buffer's is both in the buffer and in the file, or
\* only partly in the file.
PagingUnderWay ==
  \/ Len(file) # paged_mds_epoch
  \/ paged_mds_epoch = durable_epoch /\ durable_epoch > 0

\* Everything volatile is lost, and with it what fsync() did not make durable.
Crash ==
  /\ crashes < MaxCrashes
  /\ pc \notin {"down", "hung"}
  /\ CrashWhilePaging \/ ~PagingUnderWay
  /\ pc' = "down" /\ crashes' = crashes + 1
  /\ \E n \in synced..Len(file) : file' = SubSeq(file, 1, n) /\ synced' = n
  /\ page_no' = kNvwalInvalidPage /\ dirty' = FALSE
  /\ latest_epoch' = 0 /\ total_written' = 0
  /\ ipc' = [i \in Iterators |-> "closed"]
  /\ UNCHANGED <<slots, durable_epoch, paged_mds_epoch, cur_epoch_id,
                 end_epoch_id, buffer, num_entries, current>>

\* Variant: the restart takes the page after the durable epoch for the one
\* in the buffer.
RecoverNextPage ==
  /\ Goto("down", "idle")
  /\ AllocPage(epoch_id_to_page_no(Epoch))
  /\ latest_epoch' = durable_epoch
  /\ UNCHANGED <<durableVars, total_written, crashes, iteratorVars>>

\* mds_init and mds_recover.
Recover ==
  /\ IF durable_epoch < paged_mds_epoch
     THEN Goto("down", "read_page") /\ UNCHANGED <<bufmgrVars, latest_epoch>>
     ELSE /\ Goto("down", "idle")
          /\ latest_epoch' = durable_epoch
          /\ IF durable_epoch # 0
             THEN AllocPage(epoch_id_to_page_no(durable_epoch))
             ELSE UNCHANGED bufmgrVars
  /\ UNCHANGED <<durableVars, total_written, crashes, iteratorVars>>

----------------------------------------------------------------------------
(* Epoch iterators.                                                        *)

Min(a, b) == IF a < b THEN a ELSE b

ITurn(i, from, to) == ipc[i] = from /\ ipc' = [ipc EXCEPT ![i] = to]

\* Steps of an iterator leave the store alone.
StoreUnchanged == UNCHANGED <<durableVars, bufmgrVars, latest_epoch, pc,
                              total_written, crashes>>

\* mds_epoch_iterator_init.  A cursor asks for durable epochs only.
IteratorInit(i, begin, end) ==
  /\ pc \notin {"down", "hung", "read_page", "truncate", "set_paged"}
  /\ ITurn(i, "closed", "prefetch")
  /\ cur_epoch_id' = [cur_epoch_id EXCEPT ![i] = begin]
  /\ end_epoch_id' = [end_epoch_id EXCEPT ![i] = end]
  /\ buffer' = [buffer EXCEPT ![i] = <<Entry(0)>>]
  /\ num_entries' = [num_entries EXCEPT ![i] = 0]
  /\ current' = [current EXCEPT ![i] = 1]
  /\ StoreUnchanged

\* mds_epoch_iterator_prefetch: the first load of page_no_.
PrefetchLooks(i) ==
  /\ IF page_no = epoch_id_to_page_no(cur_epoch_id[i])
     THEN ITurn(i, "prefetch", "copy")
     ELSE ITurn(i, "prefetch", "fall_back")
  /\ UNCHANGED <<cur_epoch_id, end_epoch_id, buffer, num_entries, current>>
  /\ StoreUnchanged

BufferedEntry(i) == slots[epoch_id_to_page_offset(cur_epoch_id[i])]

MayTear(i) ==
  TornCopies = "any" \/ (TornCopies = "first" /\ num_entries[i] = 0)

\* The optimistic memcpy into the iterator's first entry; when it tears,
\* epoch_id_ comes first and the rest with CopyRest.
PrefetchCopies(i) ==
  /\ ITurn(i, "copy", IF MayTear(i) THEN "copy_rest" ELSE "verify")
  /\ buffer' = [buffer EXCEPT ![i][1] =
                  IF MayTear(i) THEN [@ EXCEPT !.epoch_id = BufferedEntry(i).epoch_id]
                                ELSE BufferedEntry(i)]
  /\ UNCHANGED <<cur_epoch_id, end_epoch_id, num_entries, current>>
  /\ StoreUnchanged

CopyRest(i) ==
  /\ ITurn(i, "copy_rest", "verify")
  /\ buffer' = [buffer EXCEPT ![i][1].rest = BufferedEntry(i).rest]
  /\ UNCHANGED <<cur_epoch_id, end_epoch_id, num_entries, current>>
  /\ StoreUnchanged

\* Variant: the page number is not looked at again.
PrefetchTrusts(i) ==
  /\ ITurn(i, "verify", "ready")
  /\ num_entries' = [num_entries EXCEPT ![i] = 1]
  /\ current' = [current EXCEPT ![i] = 1]
  /\ UNCHANGED <<cur_epoch_id, end_epoch_id, buffer>>
  /\ StoreUnchanged

\* The second load of page_no_.
PrefetchVerifies(i) ==
  /\ IF page_no = epoch_id_to_page_no(cur_epoch_id[i])
     THEN /\ ITurn(i, "verify", "ready")
          /\ num_entries' = [num_entries EXCEPT ![i] = 1]
          /\ current' = [current EXCEPT ![i] = 1]
     ELSE ITurn(i, "verify", "fall_back") /\ UNCHANGED <<num_entries, current>>
  /\ UNCHANGED <<cur_epoch_id, end_epoch_id, buffer>>
  /\ StoreUnchanged

Holds(i) ==
  /\ num_entries[i] > 0
  /\ cur_epoch_id[i] >= buffer[i][1].epoch_id
  /\ cur_epoch_id[i] <= buffer[i][num_entries[i]].epoch_id

PrefetchedAlready(i) ==
  /\ Holds(i)
  /\ ITurn(i, "fall_back", "ready")
  /\ current' = [current EXCEPT ![i] =
                   cur_epoch_id[i] - buffer[i][1].epoch_id + 1]
  /\ UNCHANGED <<cur_epoch_id, end_epoch_id, buffer, num_entries>>
  /\ StoreUnchanged

\* Variant: the prefetch goes past the end of the page.
UpperEpochAnyPage(i) ==
  Min(cur_epoch_id[i] + kNvwalMdsReadPrefetch - 1, end_epoch_id[i])

\* The last epoch to prefetch: not past end_epoch_id_, nor past the page.
UpperEpoch(i) ==
  Min(Min(cur_epoch_id[i] + kNvwalMdsReadPrefetch - 1, end_epoch_id[i]),
      PageEnd(epoch_id_to_page_no(cur_epoch_id[i])))

PrefetchReadsFile(i) ==
  /\ ~Holds(i)
  /\ IF UpperEpoch(i) <= Len(file)
     THEN /\ ITurn(i, "fall_back", "ready")
          /\ buffer' = [buffer EXCEPT ![i] =
                          SubSeq(file, cur_epoch_id[i], UpperEpoch(i))]
          /\ num_entries' = [num_entries EXCEPT ![i] =
                               UpperEpoch(i) - cur_epoch_id[i] + 1]
          /\ current' = [current EXCEPT ![i] = 1]
     ELSE /\ ITurn(i, "fall_back", "hung")
          /\ UNCHANGED <<buffer, num_entries, current>>
  /\ UNCHANGED <<cur_epoch_id, end_epoch_id>>
  /\ StoreUnchanged

\* mds_epoch_iterator_next, and mds_epoch_iterator_destroy at the end.
IteratorNext(i) ==
  /\ IF cur_epoch_id[i] + 1 < end_epoch_id[i]
     THEN /\ ITurn(i, "ready", "prefetch")
          /\ cur_epoch_id' = [cur_epoch_id EXCEPT ![i] = @ + 1]
          /\ UNCHANGED <<end_epoch_id, buffer, num_entries, current>>
     ELSE /\ ITurn(i, "ready", "closed")
          /\ UNCHANGED <<cur_epoch_id, end_epoch_id, buffer, num_entries, current>>
  /\ StoreUnchanged

----------------------------------------------------------------------------
WriteEpoch ==
  \/ WriteAllocates \/ WriteNeedsPaging \/ AppendSome \/ AppendFails
  \/ AppendSync \/ UpdatePagedEpoch \/ WriteRetries \/ StoreEntry
  \/ CountLatest \/ UpdateDurableEpoch

RollbackToEpoch ==
  \/ \E e \in 1..durable_epoch : Rollback(e)
  \/ RollbackReadsPage \/ RollbackTruncates \/ RollbackSetsPagedEpoch

Iterate(i) ==
  \/ \E b \in 1..durable_epoch : \E n \in 1..MaxRange :
       b + n <= durable_epoch + 1 /\ IteratorInit(i, b, b + n)
  \/ PrefetchLooks(i) \/ PrefetchCopies(i) \/ CopyRest(i)
  \/ PrefetchVerifies(i) \/ PrefetchedAlready(i) \/ PrefetchReadsFile(i)
  \/ IteratorNext(i)

Next == \/ WriteEpoch \/ RollbackToEpoch \/ Crash \/ Recover
        \/ \E i \in Iterators : Iterate(i)

Spec == Init /\ [][Next]_vars

----------------------------------------------------------------------------

\* What mds_read_one_epoch returns when nothing else runs: the buffer's entry
\* if the buffer holds the page, else the file's.
Lookup(e) ==
  IF page_no = epoch_id_to_page_no(e) THEN slots[epoch_id_to_page_offset(e)]
  ELSE IF e <= Len(file) THEN file[e] ELSE Entry(0)

\* The epochs readers may ask for: queries search up to mds_latest_epoch, which
\* runs ahead of the durable epoch for a moment; a rollback has no readers.
Searchable ==
  IF pc \in {"truncate", "set_paged"} THEN durable_epoch ELSE latest_epoch

\* As long as the store is up, the metadata of every durable epoch, and of the
\* latest one, can be read: between the stores of mds_write_epoch, after
\* mds_rollback_to_epoch and after mds_recover.
EveryDurableEpochIsReadable ==
  pc \notin {"down", "read_page", "hung"} =>
    /\ durable_epoch <= Searchable
    /\ \A e \in 1..Searchable : Lookup(e) = Entry(e)

\* An iterator that has an epoch has that epoch's metadata, however many
\* pages the flusher wrote and recycled while the iterator looked for it.
IteratorGetsItsEpoch ==
  \A i \in Iterators : ipc[i] = "ready" =>
    buffer[i][current[i]] = Entry(cur_epoch_id[i])

\* paged_mds_epoch_ of the control block says how much of the page file can
\* be relied on: those epochs are there, each at its place, durably.
PagedIsOnDisk ==
  pc \notin {"down", "set_paged", "hung"} =>
    /\ paged_mds_epoch <= synced
    /\ \A e \in 1..paged_mds_epoch : file[e] = Entry(e)

\* mds_io_pread is never asked for something past the end of the page file,
\* where it would loop for ever.
NobodyReadsPastTheEnd ==
  pc # "hung" /\ \A i \in Iterators : ipc[i] # "hung"
=============================================================================
