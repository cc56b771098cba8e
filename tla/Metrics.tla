------------------------------- MODULE Metrics -------------------------------
(***************************************************************************)
(* The tables of the metrics conversion: the converters and the paths of   *)
(* prometheus.py and the keys that hosts before 7.0 do not report, of      *)
(* vsanPrometheusStats.py.  They are the values of the constants of module *)
(* Conversion.                                                             *)
(*                                                                         *)
(* A key that the code composes of words is the tuple of these words.      *)
(* Nodes have short names, metrics are named without "vmware_".  A label   *)
(* is a pair.  The name of an entity is the tuple of the parts the         *)
(* converters take it apart into; its first part, the host, is left out,   *)
(* as are the labels that follow from others of the same sample.           *)
(***************************************************************************)
EXTENDS Naturals, Sequences, SequencesExt

Row(does, metric, keys, labels) ==
    [does |-> does, metric |-> metric, from |-> keys, labels |-> labels]

Rec(metric, key, labels)    == Row("rec", metric, {key}, labels)
RecOr0(metric, key, labels) == Row("recOr0", metric, {key}, labels)
Read(key)                   == Row("read", "", {key}, {})
Check                       == Row("check", "", {}, {})

(* A loop of a converter: the rows of one round after those of the other.  *)
Each(words, F(_)) == FlattenSeq([i \in DOMAIN words |-> F(words[i])])

Io(k) == {<<"io_type", k>>}

Cap == [write |-> "Write", read |-> "Read", unmap |-> "Unmap",
        recoveryWrite |-> "RecoveryWrite", recoveryUnmap |-> "RecoveryUnmap"]

Written == [Write |-> "Written", Read |-> "Read"]

-----------------------------------------------------------------------------
(* The kinds of worlds differ in the labels taken from the name.           *)
VcpuMetrics ==
    << Check,
       Row("rec", "esx_world_uptime_seconds_total", {<<"upTime">>, <<"runTime">>}, {}),
       Rec("esx_world_usedtime_seconds_total", <<"usedTime">>, {}),
       Rec("esx_world_readytime_seconds_total", <<"readyTime">>, {}) >>

Worlds == {"LsomWorld", "DomWorld", "NicWorld", "NetworkWorld", "CmmdsWorld"}

(* A world's name is a tuple of words, and its id, which that of a disk may *)
(* lack.  The id is a label, or the world is known by its words alone.     *)
OfDisk(words) == words[1] \in {"PLOG", "LLOG", "DDP"}

Storage == {"vmx", "PVSCSI", "NVMeComplWorld", "Cmpl-vmhba", "CmdCompl"}

ByName(n, words) ==
    \/ n = "NicWorld"
    \/ n = "NetworkWorld" /\ words[1] \notin Storage
    \/ n = "LsomWorld" /\ ~OfDisk(words)

(* Mutant: the worlds of the storage stack without their id, as the others *)
(* of the network.                                                         *)
WorldIdsButStorage(n, name) ==
    IF ByName(n, name[1]) \/ Len(name) = 1 \/ n = "NetworkWorld"
    THEN {} ELSE {<<"world_id", name[2]>>}

WorldId(n, name) ==
    IF ByName(n, name[1]) \/ Len(name) = 1 THEN {} ELSE {<<"world_id", name[2]>>}

WorldLabels(n, words) ==
    CASE n = "DomWorld"   -> {<<"subsystem", "DOM">>, <<"role", words[3]>>}
      [] n = "CmmdsWorld" -> {<<"subsystem", "CMMDS">>,
                              <<"role", words[IF Len(words) = 1 THEN 1 ELSE 3]>>}
      [] n = "LsomWorld" /\ OfDisk(words) ->
             {<<"subsystem", words[1]>>, <<"disk_uuid", words[2]>>, <<"name", <<words[3]>>>>}
      [] n = "LsomWorld" /\ ~OfDisk(words) -> {<<"subsystem", words[3]>>, <<"name", words>>}
      [] OTHER ->
             {<<"subsystem", IF ByName(n, words) THEN "Network" ELSE "Storage">>, <<"name", words>>}

HeapMetrics == << Check, Rec("esx_heap_usage_ratio", <<"heapUtil">>, {}) >>

HeapParts == <<"heap_name", "heap_id">>

(* Mutant: the leaves under the role of the owner itself.                  *)
LeafRoleOmitted == "owner"

(* Only an owner tells apart its leaves, under a role of their own.        *)
LeafRole == "ownerLeaf"

DomRoleState(role) ==
    LET of(k, r) == Io(k) \cup {<<"role", r>>}
        round(k) == << Rec("vsan_dom_io_total", <<k, "Count">>, of(k, role)),
                       Rec("vsan_dom_io_bytes_total", <<k, "Bytes">>, of(k, role)),
                       Rec("vsan_dom_io_duration_seconds_total", <<k, "LatencySumUs">>, of(k, role)),
                       RecOr0("vsan_dom_io_durationsquare_seconds_total", <<k, "LatencySqSumUs">>, of(k, role)),
                       Rec("vsan_dom_congestion_total", <<k, "CongestionSum">>, of(k, role)) >>
        leaf(k)  == << Rec("vsan_dom_io_total", <<k, "LeafOwnerCount">>, of(k, LeafRole)),
                       Rec("vsan_dom_io_duration_seconds_total", <<k, "LeafOwnerLatencySumUs">>, of(k, LeafRole)) >>
        keys     == << "write", "read", "unmap" >>
                    \o IF role = "client" THEN <<>> ELSE << "recoveryWrite", "resyncRead" >>
        leafKeys == IF role # "owner" THEN <<>>
                    ELSE << "write", "read", "unmap", "recoveryWrite", "recoveryUnmap" >>
    IN  Each(keys, round) \o Each(leafKeys, leaf)
            \o << Rec("vsan_dom_numoio_total", <<"numOIOSum">>, {<<"role", role>>}) >>

DomDgState ==
    LET round(k) == << Rec("vsan_domdg_io_total", <<k, "Count">>, Io(k)),
                       Rec("vsan_domdg_io_bytes_total", <<k, "Bytes">>, Io(k)),
                       Rec("vsan_domdg_io_duration_seconds_total", <<k, "LatencySumUs">>, Io(k)),
                       Rec("vsan_domdg_numoio_total", <<"numOIOSum", Cap[k]>>, Io(k)) >>
    IN  Each(<< "write", "read", "unmap", "recoveryWrite", "recoveryUnmap" >>, round)

DomClientCacheStats ==
    << Rec("vsan_dom_clientcache_readio_count", <<"lookups">>, {}),
       Rec("vsan_dom_clientcache_readhit_count", <<"hits">>, {}) >>

DomOriginStats(resync) ==
    LET l == {<<"resync_type", resync>>}
        round(k) == << Rec("vsan_domdg_resync_io_total", <<k, "Count">>, l \cup Io(k)),
                       Rec("vsan_domdg_resync_io_bytes_total", <<k, "Bytes">>, l \cup Io(k)),
                       Rec("vsan_domdg_resync_io_duration_seconds_total", <<k, "LatencyUs">>, l \cup Io(k)) >>
    IN  Each(<< "read", "recWrite" >>, round)
            \o << Rec("vsan_domdg_resync_tosync_bytes_total", <<"sumBytesToSync">>, l) >>

-----------------------------------------------------------------------------
(* Converters that know an entity by the UUID of a disk or disk group.      *)
DiskParts == <<"disk_uuid">>

(* The sum of what was drained is checked before anything is recorded.     *)
PlogDevicesStats ==
    << Read(<<"totalBytesDrained">>), Read(<<"ssd", "BytesDrained">>), Read(<<"zero", "BytesDrained">>), Check,
       Rec("vsan_disk_drain_bytes_total", <<"ssd", "BytesDrained">>, {<<"drain_type", "data">>}),
       Rec("vsan_disk_drain_bytes_total", <<"zero", "BytesDrained">>, {<<"drain_type", "zero">>}) >>

PlogDevicesElevStats ==
    LET bytes(k)  == << Rec("vsan_plog_elev_bytes_total", <<"total", k, "Bytes">>, Io(k)) >>
        readBy(k) == << Rec("vsan_plog_elev_bytes_total", <<"totalBytesReadBy", k>>, Io(k)) >>
        ratio(k)  == << Rec("vsan_plog_elev_thresholds_ratio", <<k, "P">>, {<<"threshold_type", k>>}) >>
    IN  Each(<< "CS", "FS", "Zero", "FSUnmap", "Del", "CF" >>, bytes)
            \o Each(<< "RC", "VMFS" >>, readBy)
            \o Each(<< "mem", "data", "ssd", "max", "zero", "log" >>, ratio)

PlogDevicesDedupStats ==
    LET seconds(k) == << Rec("vsan_plog_dedup_seconds_total", <<k, "Time">>, Io(k)) >>
        bytes(k)   == << Rec("vsan_plog_dedup_bytes_total", <<k, "Bytes">>, Io(k)) >>
        ios(k)     == << Rec("vsan_plog_dedup_io_total", <<k>>, Io(k)) >>
        events(k)  == << Rec("vsan_plog_dedup_events_total", <<k>>, Io(k)) >>
    IN  Each(<< "txnReplayHashmap", "txnBuild", "hashCalc", "txnReplay", "compression",
                "txnReplayBitmap", "dataWrite", "txnReplayXmap", "txnWrite" >>, seconds)
            \o Each(<< "deduped", "compressed", "total", "free", "hashed" >>, bytes)
            \o Each(<< "txnReplayBgWriteIOs", "txnReplayFgWriteIOs", "numHashmapReads", "numBitmapWrites",
                       "numXMapReads", "numBitmapReads", "numHashmapWrites", "numXMapWrites", "txnWrites" >>, ios)
            \o Each(<< "cacheMissesBmap", "cacheMissesXmap", "cacheMissesHmap", "cacheHitsBmap", "cacheHitsXmap",
                       "cacheHitsHmap", "pendingTxnReplayYields", "txnReplayReadIOHits" >>, events)

PlogDevicesRecoveryStats ==
    << Rec("vsan_plog_recovery_seconds_total", <<"totalRecoveryTime">>, Io("total")),
       Rec("vsan_plog_recovery_seconds_total", <<"recoveryProcessTime">>, Io("process")),
       Rec("vsan_plog_recovery_seconds_total", <<"recoveryReadTime">>, Io("read")),
       Rec("vsan_plog_recovery_io_total", <<"numRecoveryReads">>, Io("read")) >>

LsomDisks ==
    LET congestion(k) == << Rec("vsan_disk_congestion_total", <<k, "Congestion">>, {<<"congestion_type", k>>}) >>
        space(k)      == << Rec("vsan_disk_writebuffer_usage_bytes", <<k, "Space">>, {<<"consumer_type", k>>}) >>
    IN  Each(<< "ssd", "mem", "iops", "slab", "log", "comp" >>, congestion)
            \o << RecOr0("vsan_disk_congestion_bytespersecond", <<"oobLogCongestionIOPS">>, {<<"congestion_type", "log">>}) >>
            \o Each(<< "plogLog", "plogData", "llogLog", "llogData" >>, space)
            \o << Rec("vsan_disk_writebuffer_size_bytes", <<"wbSize">>, {}),
                  Rec("vsan_disk_capacity_bytes", <<"capacity">>, {}),
                  Rec("vsan_disk_capacity_used_bytes", <<"capacityUsed">>, {}),
                  Rec("vsan_disk_capacity_reserved_bytes", <<"capacityReserved">>, {}),
                  Rec("vsan_disk_phys_capacity_bytes", <<"physDiskCapacity">>, {}),
                  Rec("vsan_disk_phys_capacity_used_bytes", <<"physDiskCapacityUsed">>, {}),
                  Rec("vsan_disk_phys_capacity_reserved_bytes", <<"physCapacityReserved">>, {}),
                  Rec("vsan_disk_phys_capacity_pending_bytes", <<"physCapacityPending">>, {}),
                  Rec("vsan_disk_phys_capacity_unreservedused_bytes", <<"physCapacityUnreservedUsed">>, {}) >>

LsomDisksBlkattrStats ==
    << Rec("vsan_disk_blkattrcache_size_bytes", <<"cacheSize">>, {}),
       Rec("vsan_disk_blkattrcache_hits_count", <<"cacheHits">>, {}),
       Rec("vsan_disk_blkattrcache_misses_count", <<"cacheMisses">>, {}) >>

PlogPsaStats ==
    LET round(k) == << Rec("vsan_disks_dev_io_total", <<k, "Ops">>, Io(k)),
                       Rec("vsan_disks_dev_bytes_total", <<"blocks", Written[k]>>, Io(k)),
                       Rec("vsan_disks_dev_duration_seconds_total", <<"totalTime", k, "s">>, Io(k)) >>
        span(k)  == << Rec("vsan_disks_dev_duration_breakdown_seconds_total", <<k, "Time">>, {<<"span", k>>}) >>
    IN  << Read(<<"capacity/blockSize">>) >>
            \o Each(<< "Write", "Read" >>, round)
            \o Each(<< "issue", "layer", "queue", "total" >>, span)

-----------------------------------------------------------------------------
(* One node, two types of entities, told apart by the key "type".          *)
NetStats(type) ==
    LET nic(k, k2) == << Rec("esx_vmknic_tcppkt_total", <<"tcp", k, "pkts">>, Io(k)),
                         Rec("esx_vmknic_tcppkt_bytes_total", <<k2, "byte">>, Io(k)) >>
        pnic(k)    == << Rec("esx_pnic_pkt_total", <<k, "pkt">>, Io(k)),
                         Rec("esx_pnic_pkt_bytes_total", <<k, "bytes">>, Io(k)),
                         Rec("esx_pnic_pkt_err_total", <<k, "toterr">>, Io(k)) >>
    IN  << Read(<<"type">>), Check >>
            \o IF type = "vnic"
               THEN nic("rx", "rcv") \o nic("tx", "snd")
                    \o << Rec("esx_vmknic_tcppkt_rcvduppack_total", <<"rcvduppack">>, {}),
                          Rec("esx_vmknic_tcppkt_rcvdupack_total", <<"rcvdupack">>, {}),
                          Rec("esx_vmknic_tcppkt_sack_rcv_blocks_total", <<"sack_rcv_blocks">>, {}),
                          Rec("esx_vmknic_tcppkt_sack_send_blocks_total", <<"sack_send_blocks">>, {}),
                          Rec("esx_vmknic_tcppkt_sack_rexmits_total", <<"sack_rexmits">>, {}),
                          Rec("esx_vmknic_tcppkt_sndrexmitpack_total", <<"rexmits">>, {}),
                          Rec("esx_vmknic_tcppkt_rcvoopack_total", <<"rcvoopack">>, {}) >>
               ELSE Each(<< "rx", "tx" >>, pnic)

NetParts(type) == IF type = "vnic" THEN <<"stack", "vmknic">> ELSE <<"vmnic">>

VsanSlabStats ==
    << Check,
       Rec("esx_slab_alloc_count", <<"allocCount">>, {}),
       Rec("esx_slab_max_count", <<"maxObjs">>, {}) >>

SlabParts == <<"slab">>

HostCpuStats ==
    LET round(k) == << Rec("host_cpu_seconds_total", <<k>>, {<<"type", k>>}) >>
    IN  Each(<< "coreUtilTime", "elapsedTime", "usedTime", "utilTime" >>, round)

VirtualSCSIStats ==
    LET round(k) == << Rec("vsan_vscsi_io_total", <<"num", k, "s">>, Io(k)),
                       Rec("vsan_vscsi_io_bytes_total", <<"bytes", k>>, Io(k)),
                       Rec("vsan_vscsi_io_duration_seconds_total", <<"latency", k, "s">>, Io(k)) >>
    IN  << Check >> \o Each(<< "Read", "Write" >>, round)

VscsiParts == <<"vm_instance_uuid", "vscsi_name">>

VirtualDiskStats ==
    LET round(k) == << Rec("vsan_vdisk_normalizedio_total", <<"normalized", k, "Count">>, Io(k)) >>
    IN  Each(<< "Read", "ReadDelay", "Write", "WriteDelay" >>, round)
            \o << Rec("vsan_vdisk_iopslimit", <<"objIopsLimit">>, {}) >>

VdiskParts == <<"objpath">>

-----------------------------------------------------------------------------
Resyncs == << "OriginStatsPolicyChange", "OriginStatsDecom", "OriginStatsRebalance", "OriginStatsFixCompliance" >>

TablePaths ==
    << << "LsomWorld", "DomWorld", "NicWorld", "NetworkWorld", "CmmdsWorld" >>,
       << "clientStats", "ownerStats", "compmgrStats" >>,
       << "compSchedulers" >>, << "clientCacheStats" >>, << "lsomInfo" >>, << "blkattrInfo" >>,
       << "plogStats" >>, << "elevStats" >>, << "dedupStats" >>, << "recoveryInfo" >>, << "heaps" >>,
       << "psaStats" >>, << "slabs" >>, << "nics" >>, Resyncs, << "pcpus" >>, << "ioStats" >>, << "topclients" >> >>

(* Of a node and the name of an entity, which for a nic has its type ahead. *)
TableRows(n, name) ==
    CASE n \in Worlds        -> VcpuMetrics
      [] n = "clientStats"  -> DomRoleState("client")
      [] n = "ownerStats"   -> DomRoleState("owner")
      [] n = "compmgrStats" -> DomRoleState("compmgr")
      [] n = "compSchedulers"   -> DomDgState
      [] n = "clientCacheStats" -> DomClientCacheStats
      [] n = "lsomInfo"     -> LsomDisks
      [] n = "blkattrInfo"  -> LsomDisksBlkattrStats
      [] n = "plogStats"    -> PlogDevicesStats
      [] n = "elevStats"    -> PlogDevicesElevStats
      [] n = "dedupStats"   -> PlogDevicesDedupStats
      [] n = "recoveryInfo" -> PlogDevicesRecoveryStats
      [] n = "heaps"        -> HeapMetrics
      [] n = "psaStats"     -> PlogPsaStats
      [] n = "slabs"        -> VsanSlabStats
      [] n = "nics"         -> NetStats(name[1])
      [] n = "pcpus"        -> HostCpuStats
      [] n = "ioStats"      -> VirtualSCSIStats
      [] n = "topclients"   -> VirtualDiskStats
      [] OTHER              -> DomOriginStats(n)

(* The labels a converter takes from the parts of an entity's name; those  *)
(* about the host itself take none but the host.                           *)
Labelled(keys, parts) == {<<keys[i], parts[i]>> : i \in DOMAIN keys}

HostNodes == {"clientStats", "ownerStats", "compmgrStats", "clientCacheStats", "pcpus"}

TableNameLabels(n, name) ==
    CASE n \in Worlds    -> WorldLabels(n, name[1]) \cup WorldId(n, name)
      [] n \in HostNodes -> {}
      [] n = "heaps"     -> Labelled(HeapParts, name)
      [] n = "slabs"     -> Labelled(SlabParts, name)
      [] n = "nics"      -> Labelled(NetParts(name[1]), Tail(name))
      [] n = "ioStats"   -> Labelled(VscsiParts, name)
      [] n = "topclients" -> Labelled(VdiskParts, name)
      [] OTHER           -> Labelled(DiskParts, name)

(* What the page is to tell an entity from others by: all of its name, but *)
(* for worlds that are reported without their id.                          *)
TableIdentity(n, name) ==
    IF n \in Worlds /\ ByName(n, name[1]) THEN <<n, <<name[1]>>>> ELSE <<n, name>>

(* What a host before 7.0 does not report.                                 *)
Unmap == {"unmap"} \X {"Count", "Bytes", "LatencySumUs", "CongestionSum"}

DomDgIos == {"write", "read", "unmap", "recoveryWrite", "recoveryUnmap"}

Pre70MissingMetrics(n) ==
    CASE n = "clientStats"  -> Unmap
      [] n = "ownerStats"   -> Unmap \cup DomDgIos \X {"LeafOwnerCount", "LeafOwnerLatencySumUs"}
      [] n = "compmgrStats" -> Unmap \cup {<<"recoveryWrite", "Bytes">>}
      [] n = "compSchedulers" -> DomDgIos \X {"Count", "Bytes", "LatencySumUs"}
                                     \cup {<<"numOIOSum", Cap[k]>> : k \in DomDgIos}
      [] n \in Range(Resyncs) -> {<<"sumBytesToSync">>}
      [] n = "elevStats"    -> {"mem", "data", "ssd", "max", "zero", "log"} \X {"P"}
      [] n = "dedupStats"   ->
             {"txnReplayHashmap", "txnReplayBitmap", "txnReplayXmap"} \X {"Time"}
             \cup {<<k>> : k \in {"txnReplayBgWriteIOs", "txnReplayFgWriteIOs", "txnWrites",
                                  "cacheMissesBmap", "cacheMissesXmap", "cacheMissesHmap",
                                  "cacheHitsBmap", "cacheHitsXmap", "cacheHitsHmap",
                                  "pendingTxnReplayYields", "txnReplayReadIOHits"}}
      [] n = "nics"         ->
             {<<"rcv", "byte">>, <<"snd", "byte">>, <<"rcvduppack">>, <<"rcvdupack">>, <<"sack_rcv_blocks">>,
              <<"sack_send_blocks">>, <<"sack_rexmits">>, <<"rcvoopack">>}
      [] OTHER              -> {}

(* The nodes whose converter takes a prefix off every key.                 *)
StripNodes == {"plogStats", "elevStats", "dedupStats", "recoveryInfo", "lsomInfo", "blkattrInfo", "psaStats"}

=============================================================================
