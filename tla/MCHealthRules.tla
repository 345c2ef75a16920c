---------------------------- MODULE MCHealthRules ----------------------------
(* HealthRules against what its parts promise each other, for every input    *)
(* out of small sets.                                                        *)
EXTENDS HealthRules, Functions, TLC

Times == 0..3

SomeCameras ==
  [camera_id : {1}, is_active : {TRUE}, is_enabled : BOOLEAN, last_heartbeat_at : Optional(Times),
   connection_status : ConnectionStatus, ai_status : AIStatus, applied_config_version : {1},
   measured_fps : {None, 9}, error_code : {None, "RTSP_OPEN_FAILED"}]

SomeStreams ==
  [consecutive_failures : 0..3, connection_status : ConnectionStatus, ai_status : AIStatus,
   is_paused : BOOLEAN, inference_fps : {None, 9, 12}, applied_config_version : {1, 2},
   error_code : {None, "RTSP_OPEN_FAILED"}, processing_error : {None, "INFERENCE_FAILED"}]

Gpu(index, temp) == [index |-> index, usage |-> 50, temp |-> temp, mem_pct |-> None]

SomeSamples ==
  [gpus : {{}, {Gpu(0, 80), Gpu(1, None)}, {Gpu(0, 80), Gpu(1, 90)}}, ram : {None, 80, 95},
   disk : {None, 84, 85, 95}, configured_camera_count : 0..1, sample_camera_count : 0..1,
   collected_at : {0}, cpu : {None, 5}, cpu_temp : {None}]

\* What the screen shows of a camera is what its filters in SQL select it by:
\* presented_statuses and the two expressions are one rule written twice.
ASSUME FiltersSelectWhatIsShown ==
  \A c \in SomeCameras, now \in Times :
    <<presented_connection_status_expr(c, now), presented_ai_status_expr(c, now)>>
      = presented_statuses(c, now)

\* A camera never counts as reporting in the averages and as silent on its
\* card (core/monitor.py: never "reporting" in one place and "silent" in the
\* other), and its own Unresponsive is the one way to differ.
ASSUME ReportingIsNotSilent ==
  \A c \in SomeCameras, now \in Times :
    /\ c \in FreshCameras({c}, now) => presented_statuses(c, now) = <<c.connection_status, c.ai_status>>
    /\ c.is_enabled /\ c \notin FreshCameras({c}, now)
         => presented_statuses(c, now)[1] \in {"Reconnecting", "Unresponsive"}

\* A heartbeat leaves the rows of other cameras alone, so that they go stale, and
\* one that is repeated broadcasts nothing; the answer has no deleted camera.
ASSUME HeartbeatsTouchTheirCameras ==
  \A c \in {camera \in SomeCameras : camera.last_heartbeat_at \in {None, 0} /\ camera.ai_status = "Active"},
     d \in {camera \in SomeCameras : camera.last_heartbeat_at = 2 /\ camera.measured_fps = None
                                     /\ camera.ai_status = "Active"},
     r \in {observed_state(s) : s \in {t \in SomeStreams : t.applied_config_version = 1}} :
    LET other  == [d EXCEPT !.camera_id = 2, !.is_active = FALSE]
        first  == receive_heartbeat({c, other}, (1 :> r) @@ (3 :> r), 3)
        second == receive_heartbeat(first.cameras, (1 :> r), 3)
    IN  /\ other \in first.cameras /\ Cardinality(first.cameras) = 2
        /\ second.broadcast = {} /\ second.cameras = first.cameras
        /\ first.snapshot = first.cameras \ {other} /\ first.broadcast \subseteq first.snapshot

SomeLists ==
  {{[c EXCEPT !.is_active = on] @@ [created_at |-> 1], [d EXCEPT !.camera_id = 2] @@ [created_at |-> at]} :
     c \in {camera \in SomeCameras : camera.measured_fps = 9 /\ camera.error_code = None},
     d \in {camera \in SomeCameras : camera.measured_fps = 9 /\ camera.error_code = None
                                     /\ camera.ai_status = "Active" /\ camera.last_heartbeat_at = 1},
     on \in BOOLEAN, at \in {2}}

Query == [is_active |-> "omitted", connection |-> {}, ai |-> {}, enabled |-> None]

\* The list shows what its filter selects, the selections of the four statuses
\* divide the list and agree with the figures above it, and its pages follow one
\* another (as no two cameras are of one time).
ASSUME ListsAgreeWithTheirFigures ==
  \A cameras \in SomeLists, now \in {1, 3} :
    LET list(q, offset, limit) == CHOOSE a \in get_all_cameras(cameras, now, q, offset, limit) : TRUE
        of(status) == list([Query EXCEPT !.connection = {status}], 0, 5)
        all        == list(Query, 0, 5)
    IN  /\ \A status \in ConnectionStatus :
             /\ of(status).kpis = all.kpis
             /\ of(status).total_filtered = all.kpis.connection[status]
             /\ \A i \in DOMAIN of(status).cameras : of(status).cameras[i].connection_status = status
        /\ all.total_filtered = all.kpis.total /\ Len(all.cameras) = all.kpis.total
        /\ list(Query, 0, 1).cameras \o list(Query, 1, 1).cameras = all.cameras

\* The KPIs count a camera once in each breakdown.
ASSUME BreakdownsCountAll ==
  \A c, d \in {camera \in SomeCameras : camera.measured_fps = 9 /\ camera.error_code = None} :
    LET kpis == compute_kpis_and_breakdowns({c, [d EXCEPT !.camera_id = 2]}, 2)
        SumOf(breakdown) == FoldFunction(+, 0, breakdown)
    IN  /\ SumOf(kpis.connection) = kpis.total /\ SumOf(kpis.ai) = kpis.total
        /\ kpis.network_connected <= kpis.total /\ kpis.enabled <= kpis.total

\* A report that changes nothing is not broadcast a second time, and one that
\* does is, whatever the time.
ASSUME ReportsAreBroadcastOnce ==
  \A s \in SomeStreams, c \in {d \in SomeCameras : d.connection_status = "Connected"} :
    LET report == observed_state(s)
    IN  ~changed(apply_observed(c, report, 1), report, 2)

\* A stream that reports a rate is connected, active and not paused, and one
\* that failed often enough says so until it succeeds.
ASSUME RateOnlyWhileActive ==
  \A s \in SomeStreams :
    /\ observed_state(s).measured_fps # None
         => s.connection_status = "Connected" /\ s.ai_status = "Active" /\ ~s.is_paused
    /\ LET failed == record_failure(s, "RTSP_READ_FAILED")
       IN  /\ observed_state(failed).error_code = "RTSP_READ_FAILED" /\ observed_state(failed).measured_fps = None
           /\ failed.connection_status = "Unresponsive" <=> failed.consecutive_failures >= UNRESPONSIVE_AFTER_FAILURES
           /\ observed_state(record_success(failed)).error_code \notin {"RTSP_READ_FAILED"}

\* A measurement that gets worse never makes the state better.
ASSUME WorseIsNeverHealthier ==
  LET rank(sample) == CASE compute_state(build_warnings(sample)) = "Healthy" -> 0
                        [] compute_state(build_warnings(sample)) = "Degraded" -> 1
                        [] OTHER -> 2
  IN  \A s \in SomeSamples, ram \in {80, 95}, disk \in {84, 85, 95} :
        /\ AtMost(s.ram, ram) => rank(s) <= rank([s EXCEPT !.ram = ram])
        /\ AtMost(s.disk, disk) => rank(s) <= rank([s EXCEPT !.disk = disk])

RawRows == {[created_at |-> t, cpu |-> t, ram |-> 2, cpu_temp |-> None, gpu_temp_max |-> t] : t \in {59, 60, 119, 120}}

\* Every raw row belongs to one hour, a second rollup of an hour changes
\* nothing, and a retention of two hours spares the hour that is rolled up next.
ASSUME HoursAreRolledUpOnce ==
  \A raw \in SUBSET RawRows, now \in {120, 121, 179, 180} :
    LET start == previous_hour_start(now)
        once  == rollup_hour({}, raw, start)
    IN  /\ \A r \in raw : \A h \in {0, 60, 120} : r \in RowsOf(raw, h) <=> h = hour_start(r.created_at)
        /\ rollup_hour(once, raw, start) = once
        /\ Cardinality(once) <= 1
        /\ \A h \in once : h.avg_cpu_usage[2] = h.sample_count /\ h.peak_cpu_temp = None
                             /\ \A r \in RowsOf(raw, start) : r.gpu_temp_max <= h.peak_gpu_temp
        /\ RowsOf(prune_raw(raw, now, 2 * Hour), start) = RowsOf(raw, start)

\* A raw row is never made of a sample that is missing, stale or incomplete.
ASSUME NothingIsFabricated ==
  \A s \in SomeSamples \cup {None}, now \in 0..2 :
    /\ persist_raw_sample({}, s, now, 2) # {} => s # None /\ now < 2 /\ s.cpu # None /\ s.ram # None
    /\ live_response(s, now, 2).state = "Healthy" => s # None
=============================================================================
