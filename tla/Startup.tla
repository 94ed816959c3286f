-------------------------------- MODULE Startup --------------------------------
(***************************************************************************)
(* nvwal_init and nvwal_uninit (nvwal_impl_init.c, the first half of       *)
(* nvwal_mds.c, nvwal_util.c): the files of a WAL instance, the            *)
(* descriptors and mappings a process holds of them, and the thread that   *)
(* works on them, through several starts, failures and crashes.            *)
(*                                                                         *)
(* The module composes ThreadState, the word that lets the thread in and   *)
(* out, with the steps that open and release what the thread works on.     *)
(* One file name stands for each kind of file but the NV segments; of a    *)
(* file's content the model keeps its size and whose data it holds.  What  *)
(* a restart reads from the content is the modules Restart and Mds.        *)
(***************************************************************************)
EXTENDS ThreadState, Naturals, FiniteSets

CONSTANTS
  Configs,          \* configurations the client may give
  MaxSegments,      \* bound: NV segments of the largest of them
  RepeatsTruncate,  \* the client repeats a CreateTruncate that did not succeed
  MaxInits,         \* bound: calls of nvwal_init
  MaxFailures,      \* bound: system calls that fail
  MaxCrashes        \* bound: crashes

\* What nvwal_init looks at: both folders as one, and resuming_epoch_ is in Restart.
NvwalConfig == {"folders_valid", "writer_count", "writer_buffer_size", "segment_size",
                "nv_quota", "mds_page_size"}

ASSUME StartupAssumption ==
  /\ MaxSegments \in Nat /\ RepeatsTruncate \in BOOLEAN
  /\ MaxInits \in Nat /\ MaxFailures \in Nat /\ MaxCrashes \in Nat
  /\ \A c \in Configs : DOMAIN c = NvwalConfig

kNvwalMaxWorkers         == 64
kNvwalMaxActiveSegments  == 1024
kNvwalDefaultSegmentSize == 2^25
kNvwalMdsPageSize        == 2^20
NvwalInitMode == {"Restart", "CreateIfNotExists", "CreateTruncate"}
\* The NvwalConfig of a control block that was just zeroed.
NoConfig == [folders_valid |-> FALSE]

Segs      == 0..(MaxSegments - 1)
Cf        == <<"nvwal.cf", 0>>
Buffer    == <<"mds_nvram_buf", 0>>
Page      == <<"mds_pagefile", 0>>
DiskSeg   == <<"nvwal_ds", 1>>
NvSeg(s)  == <<"nv_segment", s>>
NvFiles   == {Cf, Buffer} \cup {NvSeg(s) : s \in Segs}
DiskFiles == {Page, DiskSeg}
Files     == NvFiles \cup DiskFiles

Absent     == [size |-> "absent", of |-> {}]
Empty      == [size |-> "empty", of |-> {}]
Whole(of)  == [size |-> "whole", of |-> of]
\* NvwalControlBlock: config_, and whether durable_epoch_ and last_synced_dsid_ have
\* left 0.  given is the configuration as the client gave it, once it was persisted
\* to the last byte, kept for the properties.
ControlBlock(id) == [size |-> "whole", of |-> {id}, config |-> NoConfig,
                     given |-> NoConfig, epochs |-> FALSE, synced |-> FALSE]

VARIABLES
  files,            \* the files as processes see them
  durable,          \* what a crash leaves of them at least
  mode, config,     \* the arguments of nvwal_init
  ipc,              \* where the host is: in nvwal_init, serving, or off
  held,             \* descriptors and mappings the context remembers
  open,             \* descriptors and mappings the process really has
  reason,           \* why the last nvwal_init failed
  truncating,       \* a CreateTruncate has begun and not succeeded yet
  inits, failures, crashes

fileVars  == <<files, durable>>
boundVars == <<inits, failures, crashes>>
svars == <<vars, fileVars, mode, config, ipc, held, open, reason, truncating, boundVars>>

StartupInit ==
  /\ thread_state = "BeingInitialized" /\ wpc = [t \in Workers |-> "idle"] /\ hpc = "down"
  /\ files = [f \in Files |-> Absent] /\ durable = [f \in Files |-> Absent]
  /\ mode = "Restart" /\ config = NoConfig /\ ipc = "off"
  /\ held = {} /\ open = {} /\ reason = "none" /\ truncating = FALSE
  /\ inits = 0 /\ failures = 0 /\ crashes = 0

Exists(f) == files[f].size # "absent"

Step(from, to) == ipc = from /\ ipc' = to

\* An error for which nobody but the arguments and the files is to blame ...
Refuse(from, why) ==
  /\ Step(from, "failed")
  /\ reason' = why
  /\ UNCHANGED <<vars, mode, config, truncating, boundVars>>

\* ... and one that the system call reports.
IoFails(from) ==
  /\ failures < MaxFailures
  /\ Step(from, "failed")
  /\ failures' = failures + 1 /\ reason' = "io"
  /\ UNCHANGED <<vars, mode, config, truncating, inits, crashes>>

Succeed(from, to) ==
  /\ Step(from, to)
  /\ UNCHANGED <<vars, mode, config, reason, truncating, boundVars>>

Hold(resources) == held' = held \cup resources /\ open' = open \cup resources
\* A descriptor the function opened and returns an error without closing.
Leak(resources) == held' = held /\ open' = open \cup resources

----------------------------------------------------------------------------
(* The configuration.                                                      *)

\* What sanity_check_config of nvwal_impl_init.c demands and fills in.
AdjustedSize(c) == IF c.segment_size = 0 THEN kNvwalDefaultSegmentSize ELSE c.segment_size
IsSane(c) ==
  /\ c.folders_valid
  /\ c.writer_count \in 1..kNvwalMaxWorkers
  /\ c.writer_buffer_size % 512 = 0 /\ c.writer_buffer_size # 0
  /\ c.segment_size % 512 = 0
  /\ c.nv_quota % AdjustedSize(c) = 0
  /\ c.nv_quota \div AdjustedSize(c) \in 2..kNvwalMaxActiveSegments

\* What that of nvwal_mds.c demands and fills in.
IsSaneForMds(c) == c.mds_page_size % 512 = 0
Adjusted(c) ==
  [c EXCEPT !.segment_size = AdjustedSize(c),
            !.mds_page_size = IF c.mds_page_size = 0 THEN kNvwalMdsPageSize ELSE @]

SegmentCount == config.nv_quota \div AdjustedSize(config)

\* Variant: the default page size is not tolerated.
SamePageSizeStrict(prev) == prev.mds_page_size = config.mds_page_size

\* The page size is compared before mds_init fills in its default.
SamePageSize(prev) ==
  \/ prev.mds_page_size = config.mds_page_size
  \/ config.mds_page_size = 0 /\ prev.mds_page_size = kNvwalMdsPageSize

SameConfig(prev) ==
  /\ SamePageSize(prev)
  /\ prev.nv_quota = config.nv_quota
  /\ prev.segment_size = AdjustedSize(config)
  /\ prev.writer_buffer_size = config.writer_buffer_size
  /\ prev.writer_count = config.writer_count

----------------------------------------------------------------------------
(* nvwal_init.                                                             *)

\* nvwal_impl_init clears the context; new threads may come.
nvwal_init(m, c) ==
  /\ ipc = "off" /\ inits < MaxInits
  /\ truncating /\ RepeatsTruncate => m = "CreateTruncate"
  /\ mode' = m /\ config' = c /\ ipc' = "sanity" /\ reason' = "none"
  /\ hpc' = "init" /\ thread_state' = "BeingInitialized"
  /\ wpc' = [t \in Workers |-> "idle"]
  /\ held' = {} /\ inits' = inits + 1
  /\ UNCHANGED <<fileVars, open, truncating, failures, crashes>>

nvwal_is_nonempty_dir(directory) == \E f \in directory : Exists(f)

\* A restart wants files in both folders.
sanity_check_config ==
  LET nothing == ~nvwal_is_nonempty_dir(NvFiles) \/ ~nvwal_is_nonempty_dir(DiskFiles)
  IN  /\ \/ ~IsSane(config) /\ Refuse("sanity", "config")
         \/ IsSane(config) /\ mode = "Restart" /\ nothing /\ Refuse("sanity", "files")
         \/ IsSane(config) /\ mode = "Restart" /\ ~nothing /\ Succeed("sanity", "open_cf")
         \/ IsSane(config) /\ mode = "CreateIfNotExists" /\ Succeed("sanity", "open_cf")
         \/ IsSane(config) /\ mode = "CreateTruncate" /\ Succeed("sanity", "remove")
      /\ UNCHANGED <<fileVars, held, open>>

\* Variant: only nv_root is emptied.
RemovableNvOnly == {f \in NvFiles : Exists(f)}

\* nvwal_remove_all_under(nv_root), then (disk_root), in the order of readdir.
Removable ==
  LET nv == {f \in NvFiles : Exists(f)}
  IN  IF nv # {} THEN nv ELSE {f \in DiskFiles : Exists(f)}

RemoveOne ==
  /\ ipc = "remove"
  /\ \E f \in Removable : files' = [files EXCEPT ![f] = Absent]
  /\ truncating' = TRUE
  /\ UNCHANGED <<vars, durable, mode, config, ipc, held, open, reason, boundVars>>

RemoveDone ==
  /\ \/ Removable = {} /\ Succeed("remove", "open_cf")
     \/ Removable # {} /\ IoFails("remove")
  /\ UNCHANGED <<fileVars, held, open>>

\* Variant: the control file is opened with O_TRUNC.
OpenControlFileTruncates ==
  /\ ipc = "open_cf" /\ (mode = "Restart" => Exists(Cf))
  /\ Succeed("open_cf", "map_cf") /\ Hold({<<"cf_fd", 0>>})
  /\ files' = [files EXCEPT ![Cf] = Empty]
  /\ UNCHANGED durable

\* open_control_file: only a restart demands that the file exists ...
OpenControlFile ==
  \/ /\ \/ mode = "Restart" /\ ~Exists(Cf) /\ Refuse("open_cf", "files")
        \/ IoFails("open_cf")
     /\ UNCHANGED <<fileVars, held, open>>
  \/ /\ mode = "Restart" => Exists(Cf)
     /\ Succeed("open_cf", "map_cf") /\ Hold({<<"cf_fd", 0>>})
     /\ files' = IF Exists(Cf) THEN files ELSE [files EXCEPT ![Cf] = Empty]
     /\ UNCHANGED durable

\* ... and one that has not its size yet is allocated and zeroed.
MapControlFile ==
  LET allocated == IF files[Cf].size = "whole" THEN files
                   ELSE [files EXCEPT ![Cf] = ControlBlock(inits)]
  IN  /\ \/ Succeed("map_cf", "prev_config") /\ Hold({<<"cf_map", 0>>}) /\ files' = allocated
         \/ IoFails("map_cf") /\ files' \in {files, allocated} /\ UNCHANGED <<held, open>>
      /\ UNCHANGED durable

\* check_adjust_on_prev_config: no configuration in the file means a fresh start.
check_adjust_on_prev_config ==
  LET cf == files[Cf]
      lost == cf.synced /\ files[DiskSeg].size # "whole"
  IN  /\ ipc = "prev_config"
      /\ \/ cf.config = NoConfig /\ Succeed("prev_config", "mds_io")
         \/ cf.config # NoConfig /\ ~SameConfig(cf.config) /\ Refuse("prev_config", "config")
         \/ cf.config # NoConfig /\ SameConfig(cf.config) /\ lost /\ Refuse("prev_config", "files")
         \/ cf.config # NoConfig /\ SameConfig(cf.config) /\ ~lost
            /\ Succeed("prev_config", "mds_io")
      /\ UNCHANGED <<fileVars, held, open>>

\* fsync of a directory: its entries are durable, the sizes of its files are not.
DirectorySynced(directory, now) ==
  [f \in Files |-> IF f \notin directory \/ now[f] = durable[f] THEN durable[f]
                   ELSE IF f \in DiskFiles \/ now[f] = Absent THEN now[f] ELSE Empty]

mds_io_open_file ==
  /\ \/ Succeed("mds_io", "mds_bufmgr") /\ Hold({<<"page_fd", 0>>})
     \/ IoFails("mds_io") /\ UNCHANGED <<held, open>>
  /\ UNCHANGED fileVars

\* A new page file is made durable with its folder; if that fails it stays open.
mds_io_create_file ==
  LET created == [files EXCEPT ![Page] = Whole({})]
  IN  \/ IoFails("mds_io") /\ UNCHANGED <<fileVars, held, open>>
      \/ /\ files' = created
         /\ \/ /\ Succeed("mds_io", "mds_bufmgr") /\ Hold({<<"page_fd", 0>>})
               /\ durable' = DirectorySynced(DiskFiles, created)
            \/ IoFails("mds_io") /\ Leak({<<"lost_page_fd", 0>>}) /\ UNCHANGED durable

\* The beginning of mds_init, and mds_io_init.
mds_io_init ==
  /\ ipc = "mds_io"
  /\ \/ ~IsSaneForMds(config) /\ Refuse("mds_io", "config") /\ UNCHANGED <<fileVars, held, open>>
     \/ IsSaneForMds(config) /\ Exists(Page) /\ mds_io_open_file
     \/ IsSaneForMds(config) /\ ~Exists(Page) /\ mode # "Restart" /\ mds_io_create_file
     \/ /\ IsSaneForMds(config) /\ ~Exists(Page) /\ mode = "Restart"
        /\ Refuse("mds_io", "files") /\ UNCHANGED <<fileVars, held, open>>

\* Variant: a page file closed after an error stays marked as active.
MdsErrorKeepsActive(leaked) ==
  held' = held /\ open' = (open \ {<<"page_fd", 0>>}) \cup leaked

\* mds_init closes the page file after an error of the buffer manager.
MdsError(leaked) ==
  held' = held \ {<<"page_fd", 0>>} /\ open' = (open \ {<<"page_fd", 0>>}) \cup leaked

\* mds_bufmgr_init on a buffer that exists: mds_bufmgr_map_nvram_buffer ...
MapBuffer ==
  /\ Exists(Buffer)
  /\ \/ Succeed("mds_bufmgr", "segments") /\ Hold({<<"buf_map", 0>>})
     \/ \E leaked \in {{}, {<<"lost_buf_fd", 0>>}} : IoFails("mds_bufmgr") /\ MdsError(leaked)
  /\ UNCHANGED fileVars

\* ... and on one that does not: mds_bufmgr_create_nvram_buffer creates, allocates,
\* zeroes and fsyncs the file and its folder, and maps it.
CreateBuffer ==
  LET empty   == [files EXCEPT ![Buffer] = Empty]
      whole   == [files EXCEPT ![Buffer] = Whole({})]
      fsynced == [durable EXCEPT ![Buffer] = whole[Buffer]]
      synced  == [DirectorySynced(NvFiles, whole) EXCEPT ![Buffer] = whole[Buffer]]
  IN  /\ mode # "Restart" /\ ~Exists(Buffer)
      /\ \/ /\ Succeed("mds_bufmgr", "segments") /\ Hold({<<"buf_map", 0>>})
            /\ files' = whole /\ durable' = synced
         \/ \E r \in {<<files, durable, {}>>,                \* open
                      <<empty, durable, {<<"lost_buf_fd", 0>>}>>,        \* posix_fallocate
                      <<whole, durable, {<<"lost_buf_fd", 0>>}>>,        \* the first mmap
                      <<whole, fsynced, {}>>,                \* fsync of the folder
                      <<whole, synced, {}>>,                 \* the second open
                      <<whole, synced, {<<"lost_buf_fd", 0>>}>>} :       \* the second mmap
              /\ IoFails("mds_bufmgr") /\ MdsError(r[3])
              /\ files' = r[1] /\ durable' = r[2]

NoBuffer ==
  /\ mode = "Restart" /\ ~Exists(Buffer)
  /\ Refuse("mds_bufmgr", "files") /\ MdsError({})
  /\ UNCHANGED fileVars

----------------------------------------------------------------------------
(* The NV segments, one after the other.                                   *)

NextSeg == Cardinality({s \in Segs : <<"nv_map", s>> \in held})
Fd(s)   == {<<"nv_fd", s>>}
Maps(s) == {<<"nv_fd", s>>, <<"nv_map", s>>}

\* The loop of impl_init_no_error_handling goes on or ends.
SegmentDone(s) == Succeed("segments", IF s + 1 = SegmentCount THEN "sync" ELSE "segments")

\* init_fresh_nvram_segment, when no epoch is durable.
init_fresh_nvram_segment ==
  LET f == NvSeg(NextSeg)
      opened == IF Exists(f) THEN files ELSE [files EXCEPT ![f] = Empty]
      sized  == IF files[f].size = "whole" THEN files ELSE [files EXCEPT ![f] = Whole({})]
  IN  /\ ipc = "segments" /\ ~files[Cf].epochs
      /\ \/ /\ SegmentDone(NextSeg) /\ Hold(Maps(NextSeg))
            /\ files' = [files EXCEPT ![f] = Whole({})]
         \/ IoFails("segments") /\ UNCHANGED <<files, held, open>>
         \/ IoFails("segments") /\ Hold(Fd(NextSeg)) /\ files' \in {opened, sized}
      /\ UNCHANGED durable

\* init_existing_nvram_segment takes a file of the right size only.
init_existing_nvram_segment ==
  LET f == NvSeg(NextSeg)
  IN  /\ ipc = "segments" /\ files[Cf].epochs
      /\ \/ files[f].size = "whole" /\ SegmentDone(NextSeg) /\ Hold(Maps(NextSeg))
         \/ IoFails("segments") /\ UNCHANGED <<held, open>>
         \/ Exists(f) /\ IoFails("segments") /\ Hold(Fd(NextSeg))
         \/ files[f].size = "empty" /\ Refuse("segments", "files") /\ Hold(Fd(NextSeg))
         \/ ~Exists(f) /\ Refuse("segments", "files") /\ UNCHANGED <<held, open>>
      /\ UNCHANGED fileVars

\* nvwal_open_and_syncfs of both folders; each sync() takes all file systems.
SyncFiles ==
  /\ \/ Succeed("sync", "persist_config") /\ durable' = files
     \/ IoFails("sync") /\ durable' \in {durable, files}
  /\ UNCHANGED <<files, held, open>>

\* pmem_memcpy_persist of the configuration, when nothing can fail any more: it is
\* copied to the control block, over several cache lines ...
PersistConfig ==
  /\ Succeed("persist_config", "drain")
  /\ files' = [files EXCEPT ![Cf].config = Adjusted(config)]
  /\ UNCHANGED <<durable, held, open>>

\* ... which are all durable when the function returns.
ConfigPersisted ==
  /\ Succeed("drain", "ready")
  /\ files' = [files EXCEPT ![Cf].given = config]
  /\ durable' = [durable EXCEPT ![Cf] = files'[Cf]]
  /\ UNCHANGED <<held, open>>

\* What a crash in between leaves: each cache line as it was (0 in a new control block)
\* or as it is now.  With libnvwal_version_ still 0 nobody looks at the other fields;
\* the numbers and sizes share a line, and one that is missing is as bad as all four.
ConfigLines == {{"writer_count", "writer_buffer_size", "segment_size", "nv_quota"},
                {"mds_page_size"}}
TornConfigs ==
  LET old == durable[Cf].config
      new == files[Cf].config
  IN  {old} \cup
      {[f \in NvwalConfig |-> IF f \in {"folders_valid"} \cup UNION kept THEN new[f]
                              ELSE IF old = NoConfig THEN 0 ELSE old[f]] :
         kept \in SUBSET ConfigLines}

\* nvwal_init returns: the thread may start, or everything is released again.
Ready ==
  /\ GetReady /\ Step("ready", "serving")
  /\ truncating' = FALSE
  /\ UNCHANGED <<fileVars, mode, config, held, open, reason, boundVars>>

GiveUp ==
  /\ InitFails /\ Step("failed", "failed")
  /\ UNCHANGED <<fileVars, mode, config, held, open, reason, truncating, boundVars>>

InitStep ==
  \/ sanity_check_config \/ RemoveOne \/ RemoveDone \/ OpenControlFile \/ MapControlFile
  \/ check_adjust_on_prev_config \/ mds_io_init \/ MapBuffer \/ CreateBuffer \/ NoBuffer
  \/ init_fresh_nvram_segment \/ init_existing_nvram_segment \/ SyncFiles
  \/ PersistConfig \/ ConfigPersisted \/ Ready \/ GiveUp

----------------------------------------------------------------------------
(* Serving, nvwal_uninit and crashes.                                      *)

startupVars == <<fileVars, mode, config, ipc, held, open, reason, truncating, boundVars>>

\* nvwal_flusher_main, nvwal_wait_for_flusher_start and the first half of nvwal_uninit.
\* Threads are launched after nvwal_init, as its documentation says.
ThreadStep ==
  /\ \/ ipc = "serving" /\ \E t \in Workers : WorkerStep(t)
     \/ WaitForStart \/ SeeStart \/ Uninit \/ StopStep
  /\ UNCHANGED startupVars

\* The thread makes an epoch durable and may have a segment on disk: control block,
\* metadata and logs are persisted.  (A buffer without its size would end the process.)
Work(t) ==
  LET id == files[Cf].of
      written == {Page, Buffer} \cup {NvSeg(s) : s \in 0..(SegmentCount - 1)}
  IN  /\ wpc[t] = "running" /\ files[Buffer].size = "whole"
      /\ \E synced \in {files[Cf].synced, TRUE} :
           files' = [f \in Files |->
             IF f = Cf THEN [files[f] EXCEPT !.epochs = TRUE, !.synced = synced]
             ELSE IF f \in written THEN Whole(files[f].of \cup id)
             ELSE IF f = DiskSeg /\ synced THEN Whole(id) ELSE files[f]]
      /\ durable' = files'
      /\ UNCHANGED <<vars, mode, config, ipc, held, open, reason, truncating, boundVars>>

\* The second half of nvwal_impl_uninit: what the metadata store holds ...
mds_bufmgr_uninit == held \cap {<<"buf_map", 0>>}
mds_io_uninit     == held \cap {<<"page_fd", 0>>}
\* ... each NV segment, and the control block, as far as the context remembers them.
uninit_log_segment(s) == held \cap Maps(s)
ControlBlockHeld == held \cap {<<"cf_map", 0>>, <<"cf_fd", 0>>}

Release ==
  /\ hpc = "down" /\ ipc \in {"serving", "failed"} /\ ipc' = "off"
  /\ open' = open \ (mds_bufmgr_uninit \cup mds_io_uninit \cup ControlBlockHeld
                     \cup UNION {uninit_log_segment(s) : s \in 0..(SegmentCount - 1)})
  /\ held' = {}
  /\ UNCHANGED <<vars, fileVars, mode, config, reason, truncating, boundVars>>

\* The process ends.  A file that is not durable as it is may come back as it was, or
\* without its content; a page file has no size to lose.  The configuration may come
\* back in part.
Crash ==
  LET unsure == {f \in Files : files[f] # durable[f]}
      sized  == {f \in unsure \cap NvFiles : files[f].size = "whole"}
  IN  /\ crashes < MaxCrashes /\ crashes' = crashes + 1
      /\ ipc # "off"
      /\ \/ /\ ipc # "drain"
            /\ \E back \in SUBSET unsure : \E cut \in SUBSET (sized \ back) :
                 files' = [f \in Files |-> IF f \in back THEN durable[f]
                                           ELSE IF f \in cut THEN Empty ELSE files[f]]
         \/ /\ ipc = "drain"
            /\ \E torn \in TornConfigs : files' = [durable EXCEPT ![Cf].config = torn]
      /\ durable' = files'
      /\ ipc' = "off" /\ held' = {} /\ open' = {} /\ reason' = "none"
      /\ hpc' = "down" /\ thread_state' = "BeingInitialized"
      /\ wpc' = [t \in Workers |-> "idle"]
      /\ mode' = "Restart" /\ config' = NoConfig
      /\ UNCHANGED <<truncating, inits, failures>>

StartupNext ==
  \/ \E m \in NvwalInitMode, c \in Configs : nvwal_init(m, c)
  \/ InitStep \/ ThreadStep \/ Release \/ Crash
  \/ \E t \in Workers : Work(t)

StartupSpec == StartupInit /\ [][StartupNext]_svars

\* As in ThreadState: who has entered a function goes on in it.
StartupFairSpec ==
  /\ StartupSpec
  /\ \A t \in Workers : WF_svars((SeeStopRequest(t) \/ Stopped(t)) /\ UNCHANGED startupVars)
  /\ WF_svars(StopStep /\ UNCHANGED startupVars)

----------------------------------------------------------------------------
(* Properties.                                                             *)

Everything ==
  {<<"cf_fd", 0>>, <<"cf_map", 0>>, <<"page_fd", 0>>, <<"buf_map", 0>>}
    \cup UNION {Maps(s) : s \in 0..(SegmentCount - 1)}

\* Whoever works as the flusher has all files mapped: nvwal_init lets the thread in
\* last, and nvwal_uninit releases nothing before the thread has left.
WorkersHaveTheirMemory == Working # {} => Everything \subseteq held \cap open

\* "Releases all resources this WAL instance had", and after a failed nvwal_init "you
\* don't have to call nvwal_uninit()" (nvwal_api.h): nothing is released twice, and
\* nothing stays but the descriptors that mds_io_create_file, create_nvram_buffer_file
\* and map_nvram_buffer_file drop when one of their later steps fails.
NothingStaysOpen ==
  /\ held \subseteq open
  /\ ipc = "off" => open \subseteq {<<"lost_page_fd", 0>>, <<"lost_buf_fd", 0>>}

\* The creation of the instance came to its end, the last persist included.
Complete == files[Cf].size = "whole" /\ files[Cf].given # NoConfig

\* An instance that was created once starts again after every crash and failure, with
\* the configuration it was created with: nvwal_init refuses only an instance whose
\* creation never ended (a restart for lack of files, any start if the crash left part
\* of the configuration), or a different configuration.
CompleteInstanceStarts ==
  /\ reason = "files" => mode = "Restart" /\ ~Complete
  /\ reason = "config" /\ Complete /\ IsSane(config) /\ IsSaneForMds(config) =>
       config # files[Cf].given

\* Only CreateTruncate gives up an instance: no crash, failed start or start with
\* other arguments replaces its control file or forgets its epochs ("this is a
\* non-destructive option for create", NvwalInitMode).
InstanceIsKept ==
  [][Complete /\ ~truncating' =>
       /\ Complete' /\ files'[Cf].of = files[Cf].of
       /\ files[Cf].epochs => files'[Cf].epochs]_svars

\* An instance that serves has all of its own data and nobody else's, in particular
\* nothing of an instance that CreateTruncate deleted.
OwnData ==
  ipc = "serving" =>
    /\ \A f \in {Page, Buffer} \cup {NvSeg(s) : s \in 0..(SegmentCount - 1)} :
         files[f].of = IF files[Cf].epochs THEN files[Cf].of ELSE {}
    /\ files[DiskSeg].of = IF files[Cf].synced THEN files[Cf].of ELSE {}

=============================================================================
