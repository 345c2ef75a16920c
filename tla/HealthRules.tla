----------------------------- MODULE HealthRules -----------------------------
(***************************************************************************)
(* What the system says of its own health, from the reader thread of a     *)
(* camera to the dashboard: what a stream reports of itself, what a        *)
(* heartbeat writes to the camera's row, how a row is presented and how    *)
(* the same rule is written a second time in SQL, the KPIs, the live       *)
(* sample with its warnings, and the history of raw rows and hours.        *)
(*                                                                         *)
(* All of it is functions of what was read, so that there are no actions   *)
(* here.  Times are in minutes where hours matter and otherwise in any     *)
(* unit.  A value that may be missing is None.                             *)
(***************************************************************************)
EXTENDS Lists

CONSTANTS
  None,
  HEARTBEAT_STALE_SECONDS,
  UNRESPONSIVE_AFTER_FAILURES,
  FPS_BAND_MIN,
  GPU_TEMP_CRITICAL_C, RAM_CRITICAL_PCT, DISK_WARNING_PCT, DISK_CRITICAL_PCT

ASSUME ThresholdsAreNumbers ==
  {HEARTBEAT_STALE_SECONDS, UNRESPONSIVE_AFTER_FAILURES, FPS_BAND_MIN,
   GPU_TEMP_CRITICAL_C, RAM_CRITICAL_PCT, DISK_WARNING_PCT, DISK_CRITICAL_PCT} \subseteq Int

ASSUME NoneIsNoNumber == None \notin Int /\ None \notin STRING

ConnectionStatus == {"Connected", "Disconnected", "Reconnecting", "Unresponsive"}
AIStatus         == {"Active", "Paused", "Inactive", "Unresponsive"}

Optional(S) == S \cup {None}

-----------------------------------------------------------------------------
(* A stream reports of itself: camera.py, and gpu_camera.py alike *)

\* _record_failure.
record_failure(s, code) ==
  [s EXCEPT !.consecutive_failures = @ + 1,
            !.error_code = code,
            !.connection_status = IF s.consecutive_failures + 1 >= UNRESPONSIVE_AFTER_FAILURES
                                  THEN "Unresponsive" ELSE "Reconnecting",
            !.ai_status = "Inactive"]

\* _record_success, and what the connect or the frame before it sets.
record_success(s) ==
  [s EXCEPT !.consecutive_failures = 0, !.error_code = None, !.connection_status = "Connected"]

\* observed_state: the error of the connection comes before that of inference,
\* and that before a rate that is too low.  The rate is measured while the
\* camera is active only, and not before a window of it is over.
observed_state(s) ==
  LET active == /\ s.connection_status = "Connected"
                /\ s.ai_status = "Active"
                /\ ~s.is_paused
      fps    == IF active THEN s.inference_fps ELSE None
      slow   == fps # None /\ fps < FPS_BAND_MIN
  IN  [connection_status      |-> s.connection_status,
       ai_status              |-> s.ai_status,
       applied_config_version |-> s.applied_config_version,
       measured_fps           |-> fps,
       error_code |-> CASE s.error_code # None -> s.error_code
                        [] s.error_code = None /\ s.processing_error # None -> s.processing_error
                        [] OTHER -> IF slow THEN "INFERENCE_FPS_BELOW_MIN" ELSE None]

-----------------------------------------------------------------------------
(* A heartbeat writes it to the row, and the row is presented: services/cameras.py *)

Observed(camera) ==
  <<camera.connection_status, camera.ai_status, camera.applied_config_version,
    camera.measured_fps, camera.error_code>>

\* apply_observed: the row afterwards.
apply_observed(camera, report, now) ==
  [camera EXCEPT !.connection_status = report.connection_status,
                 !.ai_status = report.ai_status,
                 !.applied_config_version = report.applied_config_version,
                 !.measured_fps = report.measured_fps,
                 !.error_code = report.error_code,
                 !.last_heartbeat_at = now]

\* And whether it is broadcast.
changed(camera, report, now) ==
  Observed(camera) # Observed(apply_observed(camera, report, now))

\* receive_heartbeat: the rows afterwards, those that are broadcast and those of
\* the answer.  reports has one report for each camera the engine runs; one of a
\* camera that is not known is ignored, one of a deleted camera is written, and
\* the answer has every camera that is not deleted.
receive_heartbeat(cameras, reports, now) ==
  LET reported == {c \in cameras : c.camera_id \in DOMAIN reports}
      after(c) == IF c \in reported THEN apply_observed(c, reports[c.camera_id], now) ELSE c
  IN  [cameras   |-> {after(c) : c \in cameras},
       broadcast |-> {after(c) : c \in {d \in reported : changed(d, reports[d.camera_id], now)}},
       snapshot  |-> {after(c) : c \in {d \in cameras : d.is_active}}]

\* presented_statuses: <<connection, ai>>.
presented_statuses(camera, now) ==
  IF ~camera.is_enabled
  THEN <<camera.connection_status, camera.ai_status>>
  ELSE IF camera.last_heartbeat_at = None
  THEN <<"Reconnecting", camera.ai_status>>
  ELSE IF now - camera.last_heartbeat_at >= HEARTBEAT_STALE_SECONDS
  THEN <<"Unresponsive", "Unresponsive">>
  ELSE <<camera.connection_status, camera.ai_status>>

\* In SQL, a comparison with NULL is not true.
AtMost(a, b) == a # None /\ b # None /\ a <= b

stale_cutoff(now) == now - HEARTBEAT_STALE_SECONDS

\* presented_connection_status_expr.
presented_connection_status_expr(camera, now) ==
  CASE ~camera.is_enabled -> camera.connection_status
    [] camera.is_enabled /\ camera.last_heartbeat_at = None -> "Reconnecting"
    [] camera.is_enabled /\ AtMost(camera.last_heartbeat_at, stale_cutoff(now)) -> "Unresponsive"
    [] OTHER -> camera.connection_status

\* presented_ai_status_expr.
presented_ai_status_expr(camera, now) ==
  CASE ~camera.is_enabled -> camera.ai_status
    [] camera.is_enabled /\ camera.last_heartbeat_at = None -> camera.ai_status
    [] camera.is_enabled /\ AtMost(camera.last_heartbeat_at, stale_cutoff(now)) -> "Unresponsive"
    [] OTHER -> camera.ai_status

\* _apply_camera_filters; an empty selection does not filter.
apply_camera_filters(cameras, now, connection, ai, enabled) ==
  {c \in cameras :
     /\ connection # {} => presented_connection_status_expr(c, now) \in connection
     /\ ai # {} => presented_ai_status_expr(c, now) \in ai
     /\ enabled # None => c.is_enabled = enabled}

\* compute_kpis_and_breakdowns, of the rows that are not deleted.
compute_kpis_and_breakdowns(cameras, now) ==
  LET live == {c \in cameras : c.is_active}
      connection(status) == Cardinality({c \in live : presented_statuses(c, now)[1] = status})
      ai(status)         == Cardinality({c \in live : presented_statuses(c, now)[2] = status})
  IN  [total             |-> Cardinality(live),
       enabled           |-> Cardinality({c \in live : c.is_enabled}),
       network_connected |-> connection("Connected"),
       active_detection  |-> ai("Active"),
       connection        |-> [status \in ConnectionStatus |-> connection(status)],
       ai                |-> [status \in AIStatus |-> ai(status)]]

\* _to_camera_read: a row as it is shown.
to_camera_read(camera, now) ==
  [camera EXCEPT !.connection_status = presented_statuses(camera, now)[1],
                 !.ai_status = presented_statuses(camera, now)[2]]

\* get_all_cameras: the answers that there may be.  The figures above the list
\* are of all cameras that are not deleted, whatever is filtered.
get_all_cameras(cameras, now, q, offset, limit) ==
  LET selected == parse_is_active_filter(q.is_active)
      found    == apply_camera_filters({c \in cameras : c.is_active \in selected}, now,
                                       q.connection, q.ai, q.enabled)
      shown(rows) == [i \in DOMAIN rows |-> to_camera_read(rows[i], now)]
  IN  IF selected = {} THEN {[status |-> 422]}
      ELSE {[status         |-> 200,
             kpis           |-> compute_kpis_and_breakdowns(cameras, now),
             total_filtered |-> Cardinality(found),
             cameras        |-> shown(Page(rows, offset, limit))] : rows \in NewestFirst(found)}

-----------------------------------------------------------------------------
(* The live sample: core/monitor.py, routes/system_health.py *)

\* is_stale.
is_stale(collected_at, now, interval) == now - collected_at >= interval

\* collect_ai_metrics: the cameras that the averages are taken of, and the
\* counts.
FreshCameras(cameras, now) ==
  {c \in cameras : /\ c.is_active /\ c.is_enabled
                   /\ c.last_heartbeat_at # None
                   /\ now - c.last_heartbeat_at < HEARTBEAT_STALE_SECONDS}

collect_ai_metrics(cameras, now) ==
  [sample_camera_count     |-> Cardinality(FreshCameras(cameras, now)),
   configured_camera_count |-> Cardinality({c \in cameras : c.is_active /\ c.is_enabled}),
   fps                     |-> {c.measured_fps : c \in FreshCameras(cameras, now)} \ {None}]

\* The readers of services/hardware.py: a sensor that fails has no value, a
\* driver that fails no devices.
read_gpus(driver, devices) ==
  IF ~driver THEN {}
  ELSE {[index |-> d.index, usage |-> d.usage, temp |-> d.temp,
         mem_pct |-> IF d.mem_total \in {None, 0} THEN None ELSE (d.mem_used * 100) \div d.mem_total] :
          d \in {dev \in devices : dev.readable}}

\* The highest of the values that there are, and their sum and number, of
\* which the mean is the ratio.
Highest(values) == IF values \ {None} = {} THEN None ELSE Max(values \ {None})

MeanOf(value(_), rows) ==
  LET measured == {r \in rows : value(r) # None}
  IN  IF measured = {} THEN None
      ELSE <<MapThenSumSet(value, measured), Cardinality(measured)>>

\* _gpu_aggregates: the mean utilization, but the highest temperature and
\* memory pressure.
gpu_aggregates(gpus) ==
  [usage   |-> MeanOf(LAMBDA g : g.usage, gpus),
   temp    |-> Highest({g.temp : g \in gpus}),
   mem_pct |-> Highest({g.mem_pct : g \in gpus})]

\* collect_live_sample.  The three readings are None where they fail; a
\* temperature of the CPU is not available on every platform.
collect_live_sample(host, cameras, now) ==
  LET metrics == collect_ai_metrics(cameras, now)
  IN  [collected_at |-> now, cpu |-> host.cpu, cpu_temp |-> IF host.cpu = None THEN None ELSE host.cpu_temp,
       ram |-> host.ram, disk |-> host.disk,
       gpus |-> read_gpus(host.driver, host.devices),
       sample_camera_count |-> metrics.sample_camera_count,
       configured_camera_count |-> metrics.configured_camera_count]

Reaches(measurement, threshold) == measurement # None /\ measurement >= threshold

\* _build_warnings.  ram and disk are None where a sensor is not available.
build_warnings(sample) ==
  {code \in {"GPU_TEMP_CRITICAL", "RAM_CRITICAL", "DISK_CRITICAL", "DISK_WARNING",
             "AI_HEARTBEAT_STALE"} :
     \/ code = "GPU_TEMP_CRITICAL" /\ Reaches(gpu_aggregates(sample.gpus).temp, GPU_TEMP_CRITICAL_C)
     \/ code = "RAM_CRITICAL" /\ Reaches(sample.ram, RAM_CRITICAL_PCT)
     \/ code = "DISK_CRITICAL" /\ Reaches(sample.disk, DISK_CRITICAL_PCT)
     \/ /\ code = "DISK_WARNING" /\ Reaches(sample.disk, DISK_WARNING_PCT)
        /\ ~Reaches(sample.disk, DISK_CRITICAL_PCT)
     \/ /\ code = "AI_HEARTBEAT_STALE"
        /\ sample.configured_camera_count > 0 /\ sample.sample_camera_count = 0}

Critical == {"GPU_TEMP_CRITICAL", "RAM_CRITICAL", "DISK_CRITICAL"}

\* _compute_state.
compute_state(warnings) ==
  IF warnings \cap Critical # {} THEN "Critical"
  ELSE IF warnings # {} THEN "Degraded" ELSE "Healthy"

\* _live_response.
live_response(sample, now, interval) ==
  IF sample = None
  THEN [stale |-> FALSE, warnings |-> {}, state |-> "Degraded"]
  ELSE [stale    |-> is_stale(sample.collected_at, now, interval),
        warnings |-> build_warnings(sample),
        state    |-> compute_state(build_warnings(sample))]

-----------------------------------------------------------------------------
(* The history, in minutes: a raw row is dated by its sample *)

Hour == 60

\* persist_raw_sample: the raw rows afterwards.
persist_raw_sample(raw, sample, now, interval) ==
  IF \/ sample = None
     \/ is_stale(sample.collected_at, now, interval)
     \/ sample.cpu = None \/ sample.ram = None
  THEN raw
  ELSE LET gpu == gpu_aggregates(sample.gpus)
       IN  raw \cup {[created_at |-> sample.collected_at, cpu |-> sample.cpu, ram |-> sample.ram,
                      cpu_temp |-> sample.cpu_temp, gpu_temp_max |-> gpu.temp]}

hour_start(t) == t - (t % Hour)

\* previous_hour_start.
previous_hour_start(now) == hour_start(now) - Hour

\* The rows that rollup_hour aggregates.
RowsOf(raw, start) == {r \in raw : r.created_at >= start /\ r.created_at < start + Hour}

\* rollup_hour: the hourly rows afterwards.  An hour has one row at most, and
\* none without a raw row.
rollup_hour(hourly, raw, start) ==
  LET rows == RowsOf(raw, start)
  IN  IF rows = {} THEN hourly
      ELSE {h \in hourly : h.hour_start # start}
           \cup {[hour_start    |-> start, sample_count |-> Cardinality(rows),
                  avg_cpu_usage |-> MeanOf(LAMBDA r : r.cpu, rows),
                  avg_ram_usage |-> MeanOf(LAMBDA r : r.ram, rows),
                  peak_cpu_temp |-> Highest({r.cpu_temp : r \in rows}),
                  peak_gpu_temp |-> Highest({r.gpu_temp_max : r \in rows})]}

\* prune_raw, and prune_hourly alike: what is as old as the retention goes.
prune_raw(raw, now, retention) == {r \in raw : r.created_at > now - retention}

prune_hourly(hourly, now, retention) == {h \in hourly : h.hour_start > now - retention}

\* get_health_history, of the raw rows: the points of a range, one for a row and
\* none for a time without one.
get_health_history(raw, now, retention) ==
  {[timestamp |-> r.created_at, cpu_usage |-> r.cpu, cpu_temp_avg |-> r.cpu_temp,
    cpu_temp_peak |-> r.cpu_temp, sample_count |-> 1] : r \in {row \in raw : row.created_at >= now - retention}}
=============================================================================
