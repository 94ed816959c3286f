------------------------------- MODULE MCStartup -------------------------------
(* An instance of Startup: configurations that differ where nvwal_init looks.  *)
EXTENDS Startup

SmallSegments ==
  [folders_valid |-> TRUE, writer_count |-> 1, writer_buffer_size |-> 512,
   segment_size |-> 512, nv_quota |-> 1024, mds_page_size |-> 512]
\* The sizes that are not given, and more writers.
Defaults ==
  [folders_valid |-> TRUE, writer_count |-> 2, writer_buffer_size |-> 512,
   segment_size |-> 0, nv_quota |-> 2 * kNvwalDefaultSegmentSize, mds_page_size |-> 0]
OddPages == [SmallSegments EXCEPT !.mds_page_size = 100]
OneSegment == [SmallSegments EXCEPT !.nv_quota = 512]

MCConfigs   == {SmallSegments, Defaults, OddPages, OneSegment}
=============================================================================
