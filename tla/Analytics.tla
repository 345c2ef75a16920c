------------------------------ MODULE Analytics ------------------------------
(***************************************************************************)
(* The figures of the Dashboard and of AI Performance: counts by status,   *)
(* the window before the one asked for, frequency by location and by hour, *)
(* the cache, the figures per camera and their averages, and the exports   *)
(* of both (routes/analytics.py).                                          *)
(*                                                                         *)
(* A ratio is a pair <<dividend, divisor>>, so that nothing is rounded.    *)
(* A time is a number of units, Hour of them an hour; a confidence is a    *)
(* whole number.                                                           *)
(***************************************************************************)
EXTENDS Reports

CONSTANTS
  Hour,
  DASHBOARD_CACHE_TTL_SECONDS,
  MaxCached      \* how many answers the cache keeps: 32

ASSUME CacheAssumption ==
  Hour \in Nat \ {0} /\ DASHBOARD_CACHE_TTL_SECONDS \in Nat /\ MaxCached \in Nat \ {0}

ACCIDENT_STATUSES  == {"Ongoing", "Cleared"}
DISMISSED_STATUSES == {"Dismissed"}

\* The filters of a dashboard or a performance request.
IncidentFilters(start_date, end_date, camera_ids, statuses) ==
  [start_date |-> start_date, end_date |-> end_date, camera_ids |-> camera_ids, statuses |-> statuses,
   user_ids |-> {}, search |-> None]

\* A ratio, or None of nothing.
Ratio(dividend, divisor) == IF divisor = 0 THEN None ELSE <<dividend, divisor>>

\* _compute_precision.
compute_precision(confirmed, dismissed) == Ratio(confirmed, confirmed + dismissed)

-----------------------------------------------------------------------------
(* The dashboard *)

\* The accidents of a window.
Accidents(logs, cameras, start_date, end_date, camera_ids) ==
  apply_incident_filters(logs, cameras, IncidentFilters(start_date, end_date, camera_ids, ACCIDENT_STATUSES))

\* _compute_dashboard_kpi_counts.
compute_dashboard_kpi_counts(accidents) ==
  LET count(status) == Cardinality({log \in accidents : log.detection_status = status})
  IN  [ongoing |-> count("Ongoing"), total_accidents |-> count("Ongoing") + count("Cleared"),
       total_cleared |-> count("Cleared")]

\* _previous_window: both ends of a window belong to it, so that the one before
\* ends a unit before it starts.
previous_window(start_date, end_date) ==
  IF start_date = None \/ end_date = None THEN None
  ELSE <<start_date - 1 - (end_date - start_date), start_date - 1>>

\* _delta_pct: no growth from nothing.
delta_pct(current, previous) == Ratio((current - previous) * 100, previous)

\* The accidents per camera, the most frequent location first.
frequency_by_location(accidents, cameras) ==
  LET count(c)  == Cardinality({log \in accidents : log.camera_id = c.camera_id})
      Before(c, d) == \/ count(c) > count(d)
                      \/ /\ count(c) = count(d)
                         /\ c.name < d.name \/ (c.name = d.name /\ c.camera_id < d.camera_id)
      places == SetToSortSeq({c \in cameras : count(c) > 0}, Before)
  IN  [i \in DOMAIN places |-> [camera_id |-> places[i].camera_id, accident_count |-> count(places[i])]]

\* The accidents per hour of the day, all 24 of them.
peak_accident_times(accidents) ==
  [hour \in 0..23 |-> Cardinality({log \in accidents : (log.detected_at \div Hour) % 24 = hour})]

\* _compute_dashboard_data.
compute_dashboard_data(logs, cameras, start_date, end_date, camera_ids) ==
  LET accidents == Accidents(logs, cameras, start_date, end_date, camera_ids)
      current   == compute_dashboard_kpi_counts(accidents)
      window    == previous_window(start_date, end_date)
      previous  == compute_dashboard_kpi_counts(Accidents(logs, cameras, window[1], window[2], camera_ids))
  IN  [kpis                  |-> current,
       delta_pct             |-> [kpi \in DOMAIN current |->
                                    IF window = None THEN None ELSE delta_pct(current[kpi], previous[kpi])],
       frequency_by_location |-> frequency_by_location(accidents, cameras),
       peak_accident_times   |-> peak_accident_times(accidents)]

\* get_dashboard_analytics: the answer and the cache afterwards.  An answer is
\* kept under its filters with the time at which it was ready; the oldest goes
\* when there are too many.
get_dashboard_analytics(cache, key, data, now, ready) ==
  LET hits == {e \in cache : e.key = key /\ now - e.at < DASHBOARD_CACHE_TTL_SECONDS}
      more == {e \in cache : e.key # key} \cup {[key |-> key, at |-> ready, data |-> data]}
      oldest == CHOOSE e \in more : \A other \in more : e.at <= other.at
  IN  IF hits # {}
      THEN [answer |-> (CHOOSE e \in hits : TRUE).data, cache |-> cache]
      ELSE [answer |-> data, cache |-> IF Cardinality(more) > MaxCached THEN more \ {oldest} ELSE more]

\* export_dashboard.  A CSV has the accidents themselves, a PDF the figures;
\* the rows that are counted are the accidents either way.  The code gives no
\* order to accidents of the same instant; here the later number is first.
export_dashboard(counted, streamed, cameras, start_date, end_date, camera_ids, format) ==
  LET rows == apply_sort(Accidents(streamed, cameras, start_date, end_date, camera_ids),
                         [sort_by |-> "detected_at", sort_order |-> "desc"], "log_id")
      data == compute_dashboard_data(streamed, cameras, start_date, end_date, camera_ids)
  IN  IF ~validate_common_filters(IncidentFilters(start_date, end_date, camera_ids, {})) THEN NotExported
      ELSE Exported(Cardinality(Accidents(counted, cameras, start_date, end_date, camera_ids)), TRUE,
                    IF format = "pdf" THEN data.frequency_by_location ELSE rows, format)

\* _generate_dashboard: the rows of a job's file and the number recorded for
\* them, which for a PDF is that of its locations.
generate_dashboard(logs, cameras, p, format) ==
  LET start_date == p.start_date
      end_date   == p.end_date
      camera_ids == OrEmpty(p.camera_id)
      rows == apply_sort(Accidents(logs, cameras, start_date, end_date, camera_ids),
                         [sort_by |-> "detected_at", sort_order |-> "desc"], "log_id")
      data == compute_dashboard_data(logs, cameras, start_date, end_date, camera_ids)
  IN  File(TRUE, IF format = "pdf" THEN data.frequency_by_location ELSE rows)

-----------------------------------------------------------------------------
(* AI Performance *)

\* _fetch_per_camera_stats: of each camera with a row its rows and the sum of
\* their confidences; the average is sum / count.
fetch_per_camera_stats(logs, cameras, f) ==
  LET rows  == apply_incident_filters(logs, cameras, f)
      of(c) == {log \in rows : log.camera_id = c}
  IN  [c \in {log.camera_id : log \in rows} |->
         [count |-> Cardinality(of(c)),
          sum   |-> MapThenSumSet(LAMBDA log : log.confidence_score, of(c))]]

\* _performance_camera_population: a camera that is quiet is listed, and one
\* that is deleted is while it has rows.
performance_camera_population(cameras, camera_ids, search, with_history) ==
  {c \in cameras : /\ c.is_active \/ c.camera_id \in with_history
                   /\ Selects(camera_ids, c.camera_id)
                   /\ search # None => search.word \in c.words}

\* _weighted_avg: count * average is the sum again.
weighted_avg(stats) ==
  Ratio(MapThenSumSet(LAMBDA c : stats[c].sum, DOMAIN stats),
        MapThenSumSet(LAMBDA c : stats[c].count, DOMAIN stats))

Total(stats) == MapThenSumSet(LAMBDA c : stats[c].count, DOMAIN stats)

\* A camera without a row.
Stat(stats, c) == IF c \in DOMAIN stats THEN stats[c] ELSE [count |-> 0, sum |-> 0]

\* One row of the table.
PerformanceRow(confirmed, dismissed, c) ==
  LET yes == Stat(confirmed, c.camera_id)
      no  == Stat(dismissed, c.camera_id)
  IN  [camera_id |-> c.camera_id, name |-> c.name,
       total_accidents |-> yes.count, total_dismissed |-> no.count,
       precision_score |-> compute_precision(yes.count, no.count),
       avg_accident_confidence |-> Ratio(yes.sum, yes.count),
       avg_dismissed_confidence |-> Ratio(no.sum, no.count)]

\* _compute_performance_data; search narrows the table only.
compute_performance_data(logs, cameras, start_date, end_date, camera_ids, search) ==
  LET stats(statuses) ==
        fetch_per_camera_stats(logs, cameras, IncidentFilters(start_date, end_date, camera_ids, statuses))
      confirmed == stats(ACCIDENT_STATUSES)
      dismissed == stats(DISMISSED_STATUSES)
      listed    == performance_camera_population(cameras, camera_ids, search,
                                                 DOMAIN confirmed \cup DOMAIN dismissed)
      activity(row) == row.total_accidents + row.total_dismissed
      Before(r, s) == \/ activity(r) > activity(s)
                      \/ /\ activity(r) = activity(s)
                         /\ r.name < s.name \/ (r.name = s.name /\ r.camera_id < s.camera_id)
  IN  [global_kpis |-> [total_accidents |-> Total(confirmed), total_dismissed |-> Total(dismissed),
                        precision_score |-> compute_precision(Total(confirmed), Total(dismissed)),
                        avg_accident_confidence |-> weighted_avg(confirmed),
                        avg_dismissed_confidence |-> weighted_avg(dismissed)],
       per_camera |-> SetToSortSeq({PerformanceRow(confirmed, dismissed, c) : c \in listed}, Before)]

\* get_ai_performance: the page is cut here, from the full table.
get_ai_performance(logs, cameras, start_date, end_date, camera_ids, search, offset, limit) ==
  LET data == compute_performance_data(logs, cameras, start_date, end_date, camera_ids, search)
  IN  [data EXCEPT !.per_camera = Page(@, offset, limit)] @@ [total_filtered |-> Len(data.per_camera)]

\* export_performance: the rows that are counted are the rows that are written.
export_performance(logs, cameras, start_date, end_date, camera_ids, search, format) ==
  LET data == compute_performance_data(logs, cameras, start_date, end_date, camera_ids, search)
  IN  IF ~validate_common_filters(IncidentFilters(start_date, end_date, camera_ids, {})) THEN NotExported
      ELSE Exported(Len(data.per_camera), TRUE, data.per_camera, format)

\* _generate_performance.
generate_performance(logs, cameras, p) ==
  File(TRUE, compute_performance_data(logs, cameras, p.start_date, p.end_date, OrEmpty(p.camera_id),
                                      p.search).per_camera)
=============================================================================
