------------------------------- MODULE MCData -------------------------------
(***************************************************************************)
(* The data structures, buffers, files and texts, for TLC. They do not     *)
(* interact: a behaviour is one of a single component, `which', and the    *)
(* variables of the others stay as they were initialised. (The ring buffer *)
(* is the module extended.)                                                *)
(***************************************************************************)
EXTENDS RingBuf, FiniteSets, TLC

CONSTANTS kA, kB, kC, d1, c1, c2, pA, pB

VARIABLES which,
          ht_hash, ht_buckets, ht_mask, ht_size, ht_free_list, ht_recs,
          th_hash, th_buckets, th_mask, th_size, th_recs,
          lh_hash, lh_tbl, lh_hsize, lh_fin, lh_open, lh_torn, lh_reported, lh_crashes,
          hv_hash, hv_ins, hv_buckets, hv_mask, hv_size, hv_ebuf, hv_ewloc, hv_vwloc,
          hv_isopen, hv_opens,
          hp_ofs, hp_key, hp_val, hp_num_items, hp_max_size, hp_indexed, hp_kept,
          hp_misled,
          ma_memchunks, ma_csize, ma_blocks, ma_cur, ma_capacity, ma_avail, ma_refcount,
          ma_foreign, ma_allocs, ma_lost,
          vb_buf, vb_open, vb_clean,
          rf_main, rf_temp, rf_pc, rf_target, rf_mode, rf_hist, rf_before, rf_crashes,
          rf_torn,
          ds_file, ds_fw, ds_table, ds_rows, ds_pc, ds_stray,
          mh_stmt, mh_open, mh_buf, mh_time_buf, mh_num_fields, mh_is_str, mh_bound,
          mh_length, mh_wrote, mh_unbound, mh_failed,
          md_pc, md_col, md_row, md_bad, md_file, md_stuck, md_ofs, md_err, md_served,
          fs_clock, fs_orig, fs_gz, fs_req, fs_client, fs_last, fs_edits, fs_reqs,
          fs_faults, fs_late,
          js_n, js_sax, js_event, js_dom, js_nodes, js_ok, js_ref, js_member, js_leaves,
          js_result,
          co_codec, co_text

htvars == <<ht_hash, ht_buckets, ht_mask, ht_size, ht_free_list, ht_recs>>

thvars == <<th_hash, th_buckets, th_mask, th_size, th_recs>>

lhvars == <<lh_hash, lh_tbl, lh_hsize, lh_fin, lh_open, lh_torn, lh_reported, lh_crashes>>

hvvars == <<hv_hash, hv_ins, hv_buckets, hv_mask, hv_size, hv_ebuf, hv_ewloc, hv_vwloc,
            hv_isopen, hv_opens>>

hpvars == <<hp_ofs, hp_key, hp_val, hp_num_items, hp_max_size, hp_indexed, hp_kept,
            hp_misled>>

mavars == <<ma_memchunks, ma_csize, ma_blocks, ma_cur, ma_capacity, ma_avail, ma_refcount,
            ma_foreign, ma_allocs, ma_lost>>

vbvars == <<vb_buf, vb_open, vb_clean>>

rfvars == <<rf_main, rf_temp, rf_pc, rf_target, rf_mode, rf_hist, rf_before, rf_crashes,
            rf_torn>>

dsvars == <<ds_file, ds_fw, ds_table, ds_rows, ds_pc, ds_stray>>

mhvars == <<mh_stmt, mh_open, mh_buf, mh_time_buf, mh_num_fields, mh_is_str, mh_bound,
            mh_length, mh_wrote, mh_unbound, mh_failed>>

mdvars == <<md_pc, md_col, md_row, md_bad, md_file, md_stuck, md_ofs, md_err, md_served>>

fsvars == <<fs_clock, fs_orig, fs_gz, fs_req, fs_client, fs_last, fs_edits, fs_reqs,
            fs_faults, fs_late>>

jsvars == <<js_n, js_sax, js_event, js_dom, js_nodes, js_ok, js_ref, js_member, js_leaves,
            js_result>>

covars == <<co_codec, co_text>>

mcvars == <<which, vars, htvars, thvars, lhvars, hvvars, hpvars, mavars, vbvars, rfvars, dsvars, mhvars, mdvars, fsvars, jsvars, covars>>

HT == INSTANCE HashTable WITH
    Keys <- {kA, kB}, Hashes <- {3, 6, 7}, InitialSize <- 4, LongKeys <- {kB}, MaxRecs <- 4,
    hash <- ht_hash, buckets <- ht_buckets, mask <- ht_mask, size <- ht_size,
    free_list <- ht_free_list, recs <- ht_recs

TH == INSTANCE THashTable WITH
    Keys <- {kA, kB, kC}, Hashes <- {3, 7}, InitialSize <- 4, MaxRecs <- 4, hash <- th_hash,
    buckets <- th_buckets, mask <- th_mask, size <- th_size, recs <- th_recs

LH == INSTANCE LHashTable WITH
    Keys <- {kA, kB}, SubTables <- {0}, Hashes <- {3, 7}, InitialSize <- 4, BlockSize <- 2,
    Data <- {d1}, MaxBlocks <- 2, MaxCrashes <- 1, hash <- lh_hash, tbl <- lh_tbl,
    hsize <- lh_hsize, fin <- lh_fin, open <- lh_open, torn <- lh_torn,
    reported <- lh_reported, crashes <- lh_crashes

HV == INSTANCE HashTableVect WITH
    Keys <- {"a", "b"}, Hashes <- {2, 3, 7}, KeyLen <- 1, InitialSize <- 2, MaxInserts <- 4,
    MaxOpens <- 1, hash <- hv_hash, ins <- hv_ins, buckets <- hv_buckets, mask <- hv_mask,
    size <- hv_size, ebuf <- hv_ebuf, ewloc <- hv_ewloc, vwloc <- hv_vwloc,
    isopen <- hv_isopen, opens <- hv_opens

HP == INSTANCE Heap WITH
    Values <- {1, 2}, InitialSize <- 2, MaxSize <- 4, ofs <- hp_ofs, key <- hp_key,
    val <- hp_val, num_items <- hp_num_items, max_size <- hp_max_size, indexed <- hp_indexed,
    kept <- hp_kept, misled <- hp_misled

MA == INSTANCE MemAlloc WITH
    Ctxs <- {c1, c2}, InitialBlock <- 4, MaxBlock <- 8, Lengths <- {2}, MaxChunks <- 3,
    MaxAllocs <- 2, memchunks <- ma_memchunks, csize <- ma_csize, blocks <- ma_blocks,
    cur <- ma_cur, capacity <- ma_capacity, avail <- ma_avail, refcount <- ma_refcount,
    foreign <- ma_foreign, allocs <- ma_allocs, lost <- ma_lost

VB == INSTANCE VmBuf WITH
    Page <- 8, Header <- 2, Align <- 2, Kinds <- {"anon", "fixed", "file", "allocator"},
    Lengths <- {3, 13}, MaxCapacity <- 32, buf <- vb_buf, open <- vb_open, clean <- vb_clean

RF == INSTANCE RingFile WITH
    Capacities <- {2, 3}, Values <- {1, 2}, Reserved <- {1}, MaxCrashes <- 1,
    main <- rf_main, temp <- rf_temp, pc <- rf_pc, target <- rf_target, mode <- rf_mode,
    hist <- rf_hist, before <- rf_before, crashes <- rf_crashes, torn <- rf_torn

DS == INSTANCE DsVarField WITH
    Buffer <- 8, Word <- 2, Lengths <- {0, 3, 5}, MaxRows <- 3, file <- ds_file,
    fw <- ds_fw, table <- ds_table, rows <- ds_rows, pc <- ds_pc, stray <- ds_stray

MH == INSTANCE MysqlHelper WITH
    Word <- 4, Page <- 16, Columns <- {<<>>, <<4>>, <<4, 8>>, <<0, 4>>}, TimeCap <- 2,
    Stamps <- {0, 1, 2}, MaxPos <- 40, stmt <- mh_stmt, open <- mh_open, buf <- mh_buf,
    time_buf <- mh_time_buf, num_fields <- mh_num_fields, is_str <- mh_is_str,
    bound <- mh_bound, length <- mh_length, wrote <- mh_wrote, unbound <- mh_unbound,
    failed <- mh_failed

MD == INSTANCE MysqlDumper WITH
    Cols <- 2, VarCols <- {2}, MaxRows <- 3, pc <- md_pc, col <- md_col, row <- md_row,
    bad <- md_bad, file <- md_file, stuck <- md_stuck, ofs <- md_ofs, err <- md_err, served <- md_served

FS == INSTANCE HttpFileServer WITH
    Procs <- {pA, pB}, MaxClock <- 2, MaxEdits <- 1, MaxReqs <- 3, MaxFaults <- 1,
    clock <- fs_clock, orig <- fs_orig, gz <- fs_gz, req <- fs_req, client <- fs_client,
    last <- fs_last, edits <- fs_edits, reqs <- fs_reqs, faults <- fs_faults,
    late <- fs_late

JS == INSTANCE Json WITH
    Names <- {"a", "b"}, MaxTokens <- 9, MaxLoose <- 4, MaxLevel <- 3, n <- js_n,
    sax <- js_sax, event <- js_event, dom <- js_dom, nodes <- js_nodes, ok <- js_ok,
    ref <- js_ref, member <- js_member, leaves <- js_leaves, result <- js_result

CO == INSTANCE Codecs WITH
    Base64Bytes <- {0, 3, 77, 252, 255}, UriBytes <- {1, 32, 43, 46, 65, 200},
    QueryBytes <- {37, 38, 61, 97, 52}, JsonBytes <- {10, 34, 92, 97, 98}, MaxLen <- 5,
    codec <- co_codec, text <- co_text
-----------------------------------------------------------------------------
(* The fibers of MemAlloc are interchangeable. *)
Symmetry == Permutations({c1, c2})

(* A component that is not the one looked at has one initial state.        *)
MCInit ==
    /\ which \in {"ringbuf", "hashtable", "thashtable", "lhashtable", "hashtable_vect",
                  "heap", "memalloc", "vmbuf", "ringfile", "ds_var_field", "mysql_helper",
                  "mysql_dumper", "http_file_server", "json", "codecs"}
    /\ Init /\ (which # "ringbuf" => mem = [u \in 0..(Capacity - 1) |-> 1])
    /\ HT!Init /\ (which # "hashtable" => \A k \in {kA, kB} : ht_hash[k] = 3)
    /\ TH!Init /\ (which # "thashtable" => \A k \in {kA, kB, kC} : th_hash[k] = 3)
    /\ LH!Init /\ (which # "lhashtable" => \A k \in {kA, kB} : lh_hash[k].hc = 3)
    /\ HV!Init /\ (which # "hashtable_vect" => \A k \in {"a", "b"} : hv_hash[k] = 2)
    /\ HP!Init
    /\ MA!Init
    /\ VB!Init /\ (which # "vmbuf" => vb_buf.kind = "anon")
    /\ RF!Init
    /\ DS!Init
    /\ MH!Init
    /\ MD!Init
    /\ FS!Init
    /\ JS!Init
    /\ CO!Init /\ (which # "codecs" => co_codec = "base64")

(* All but the component looked at stay as they are.                       *)
Others(x) ==
    /\ x # "ringbuf" => UNCHANGED vars
    /\ x # "hashtable" => UNCHANGED htvars
    /\ x # "thashtable" => UNCHANGED thvars
    /\ x # "lhashtable" => UNCHANGED lhvars
    /\ x # "hashtable_vect" => UNCHANGED hvvars
    /\ x # "heap" => UNCHANGED hpvars
    /\ x # "memalloc" => UNCHANGED mavars
    /\ x # "vmbuf" => UNCHANGED vbvars
    /\ x # "ringfile" => UNCHANGED rfvars
    /\ x # "ds_var_field" => UNCHANGED dsvars
    /\ x # "mysql_helper" => UNCHANGED mhvars
    /\ x # "mysql_dumper" => UNCHANGED mdvars
    /\ x # "http_file_server" => UNCHANGED fsvars
    /\ x # "json" => UNCHANGED jsvars
    /\ x # "codecs" => UNCHANGED covars

MCNext ==
    /\ UNCHANGED which
    /\ Others(which)
    /\ \/ which = "ringbuf" /\ Next
       \/ which = "hashtable" /\ HT!Next
       \/ which = "thashtable" /\ TH!Next
       \/ which = "lhashtable" /\ LH!Next
       \/ which = "hashtable_vect" /\ HV!Next
       \/ which = "heap" /\ HP!Next
       \/ which = "memalloc" /\ MA!Next
       \/ which = "vmbuf" /\ VB!Next
       \/ which = "ringfile" /\ RF!Next
       \/ which = "ds_var_field" /\ DS!Next
       \/ which = "mysql_helper" /\ MH!Next
       \/ which = "mysql_dumper" /\ MD!Next
       \/ which = "http_file_server" /\ FS!Next
       \/ which = "json" /\ JS!Next
       \/ which = "codecs" /\ CO!Next

MCSpec == MCInit /\ [][MCNext]_mcvars
-----------------------------------------------------------------------------
(* hashtable.c, thashtable.c, lhashtable.c: a probe ends, and finds every  *)
(* record that was inserted and not removed, through growing and through   *)
(* the repair of chains; and no two records, in use or on a free list,     *)
(* share memory.  hashtable_vect.c: the same up to the size the table was  *)
(* created for, and until something is inserted after reopening it.        *)
TablesReachRecords ==
    /\ which = "hashtable" => HT!NeverFull /\ HT!EveryRecordReached /\ HT!RecordsExclusive
    /\ which = "thashtable" => TH!OneRecordPerKey
    /\ which = "lhashtable" => LH!EveryKeyReached /\ LH!RecordsApart
    /\ which = "hashtable_vect" => HV!FoundWhileSized

(* hashtable.c implements a multimap, thashtable.c and lhashtable.c a map: *)
(* an operation on a key leaves what every other key finds, and the order  *)
(* it is found in, as it was.                                              *)
TablesAreMaps ==
    /\ which = "hashtable" => HT!Abstract!Init
    /\ which = "thashtable" => TH!Abstract!Init
    /\ which = "lhashtable" => LH!Abstract!Init
    /\ [][/\ which = "hashtable" => HT!Abstract!Step
          /\ which = "thashtable" => TH!Abstract!Step
          /\ which = "lhashtable" => LH!Abstract!Step]_mcvars

(* heap.c: the items are those inserted and not removed, at every size,    *)
(* until heap_remove has removed another than it was given; no location is *)
(* lost or used twice; and the top is the greatest as long as nothing was  *)
(* removed from the middle.                                                *)
HeapKeepsItems == which = "heap" => HP!LocationsOnce /\ HP!ItemsKept /\ HP!TopIsGreatest

(* mempool.c, memalloc.c, ribify.c: allocations in use do not overlap and  *)
(* their chunk is neither free nor another fiber's, whichever fibers ended *)
(* and whatever libraries keep; except memory that a library keeps from a  *)
(* fiber in which it freed another fiber's.                                *)
MemoryKept == which = "memalloc" => MA!ChunksOnce /\ MA!AllocationsApart /\ MA!UsedMemoryKept

(* vmbuf, vmfile, vmallocator: nothing is stored outside the mapping,      *)
(* whether or not it could grow, but by the operations that do not look    *)
(* whether it did (memcpy, memset, alloczero); all of the mapping has file *)
(* behind it; and success leaves room for one byte more.                   *)
BuffersInside == which = "vmbuf" => VB!StoresInside /\ VB!FileBacksMapping /\ VB!RoomLeft

(* ringfile, ds_var_field, lhashtable, hashtable_vect, vmallocator: a file *)
(* opened again has what was stored, through resizes and crashes, a crash  *)
(* between two stores of an operation included, with the exceptions named  *)
(* there: a ring file has the newest records in order, a column all rows   *)
(* or none, a vector its values where they were, a mapped file its length; *)
(* and an lhashtable torn by a killed process is reported.                 *)
FilesSurvive ==
    /\ [](which = "ringfile" => RF!FileFifo /\ RF!ResizeKeepsNewest)
    /\ [](which = "ds_var_field" => DS!StoresInWindow /\ DS!AllRowsOrNone /\ DS!ClosedLoads)
    /\ [](which = "lhashtable" => LH!TornReported)
    /\ [](which = "hashtable_vect" => HV!ValuesInOrder)
    /\ RF!ReservedKept
    /\ VB!DataFoundAgain

(* mysql_helper, mysql_dumper: results go where they belong, whatever      *)
(* failed before: one statement is open, bindings point into the buffer as *)
(* it is now, terminators stay in their column, timestamps are bound; the  *)
(* column files hold the same rows, and success means all of them, unless  *)
(* a file could not be made longer, which is not reported.                 *)
ResultsInPlace ==
    /\ which = "mysql_helper" => /\ MH!OneStatement /\ MH!BindingsCurrent
                                 /\ MH!TerminatorsApart /\ MH!StampsBound
    /\ which = "mysql_dumper" => MD!ColumnsInStep /\ MD!SuccessIsComplete

(* http_file_server: a body is the file as it is now, and a client keeps   *)
(* its copy only if that is; unless the file was edited in the second of a *)
(* copy or during a request, or the handler found a compressed file that   *)
(* another process was still making.  A handler that has answered has      *)
(* closed what it opened.                                                  *)
FileServesCurrent == FS!ServesCurrent /\ [](which = "http_file_server" => FS!DescriptorsClosed)

(* json, json_dom: callbacks name the member they report; legal documents  *)
(* but a bare primitive are accepted and cut ones refused (by json_parse); *)
(* the links of the tree agree, whatever the input; and the index finds    *)
(* the leaves.                                                             *)
JsonUnderstood ==
    which = "json" => JS!MemberNamed /\ JS!Verdicts /\ JS!TreeLinked /\ JS!IndexFindsLeaves

(* base64, uri, json: decoding gives back what was encoded and stays       *)
(* inside its string; a query is split into its parameters and left as it  *)
(* was.                                                                    *)
TextRoundTrips ==
    which = "codecs" => /\ CO!Base64RoundTrip /\ CO!UriRoundTrip
                        /\ CO!QueryIntact /\ CO!QueryParams
                        /\ CO!JsonRoundTrip /\ CO!UnescapeStaysInside
=============================================================================
