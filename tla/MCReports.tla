------------------------------ MODULE MCReports -------------------------------
(* Reports and Analytics against what a reader of a list, a figure or a file *)
(* takes for granted, for every table and every request out of small sets.   *)
EXTENDS Analytics

Gate == [camera_id |-> 1, name |-> 2, words |-> {"gate"}, is_active |-> TRUE]
Road == [camera_id |-> 2, name |-> 1, words |-> {"gate", "road"}, is_active |-> FALSE]
Cameras == {Gate, Road}

Log(id, camera, status, at, confidence) ==
  [log_id |-> id, camera_id |-> camera, detection_status |-> status, detected_at |-> at,
   confidence_score |-> confidence, verified_by_id |-> IF id = 1 THEN 7 ELSE None,
   closed_by_id |-> None, verified_at |-> IF id = 1 THEN at ELSE None]

Statuses == {"Unverified", "Ongoing", "Cleared", "Dismissed"}

SomeLogs ==
  {{Log(1, c1, s1, t1, 3), Log(2, c2, s2, t2, 1), Log(3, 2, "Cleared", 3, 2)} :
     c1 \in {1, 2}, c2 \in {1, 2}, s1 \in Statuses, s2 \in {"Ongoing", "Dismissed"}, t1 \in 0..3, t2 \in {1, 3}}

Payload == [start_date |-> None, end_date |-> None, search |-> None, status |-> None,
            camera_id |-> None, user_id |-> None, action |-> None, result |-> None,
            target_type |-> None, sort_by |-> None, sort_order |-> None]

Payloads ==
  {Payload,
   [Payload EXCEPT !.start_date = 1, !.end_date = 2, !.status = {"Cleared", "Dismissed"}],
   [Payload EXCEPT !.camera_id = {2}, !.search = [word |-> "road", number |-> None]],
   [Payload EXCEPT !.search = [word |-> "2", number |-> 2], !.user_id = {}],
   [Payload EXCEPT !.user_id = {7}, !.status = {}]}

Sorts == [sort_by : {"detected_at", "verified_at"}, sort_order : {"asc", "desc"}]

\* The pages of a list follow one another without a gap or a repetition, and
\* they hold the rows an export writes and an export job writes (D-010 of the
\* repository: an export matches the screen's filters).
ASSUME ExportsMatchTheScreen ==
  \A logs \in SomeLogs, q \in Payloads, sort \in Sorts :
    LET screen(offset) == get_alerts(logs, Cameras, q, sort, offset, 2)
        export == export_alerts(logs, logs, Cameras, q, sort, "csv")
        job    == generate_incidents(logs, Cameras,
                    [q EXCEPT !.sort_by = sort.sort_by, !.sort_order = sort.sort_order])
    IN  /\ screen(0).logs \o screen(2).logs = export.rows
        /\ job.rows = export.rows /\ ~job.failed
        /\ export.audit.row_count = Len(export.rows) /\ screen(0).total_filtered = Len(export.rows)

AuditRow(id, at, user) ==
  [audit_id |-> id, created_at |-> at, action |-> "LOGIN", result |-> "success", user_id |-> user,
   username |-> user, target_type |-> "user", target_ref |-> user, words |-> {}]

SomeTrails == {{AuditRow(1, 0, u1), AuditRow(2, t2, u2), AuditRow(3, t2 + 1, 5)} :
                 u1 \in {5, 6}, u2 \in {5, 6}, t2 \in {0, 2, 4}}

AuditFilter == [action |-> {}, result |-> {}, user_ids |-> {}, camera_ids |-> {}, target_type |-> {},
                target_ref |-> None, start_date |-> None, end_date |-> None, search |-> None]

\* What is appended to the audit trail while an export of it runs, the row of
\* the export itself first, is not in the export, so that its row count is right.
ASSUME AuditExportsAreExact ==
  \A trail \in SomeTrails, users \in {{}, {5}} :
    LET f == [AuditFilter EXCEPT !.user_ids = users]
        e == export_audit_logs(trail, trail \cup {AuditRow(4, 9, 5), AuditRow(5, 9, 6)}, f,
                               [sort_by |-> "created_at", sort_order |-> "desc"], "csv")
    IN  e.audit.row_count = Len(e.rows) /\ ToSet(e.rows) \subseteq trail

\* The bursts of a page divide it: each begins once, and its size is the number
\* of rows to the next beginning.
ASSUME BurstsDivideThePage ==
  \A trail \in SomeTrails, sort \in [sort_by : {"created_at", "user_id"}, sort_order : {"asc", "desc"}] :
    LET items == list_audit_logs(trail, AuditFilter, sort, 0, 20).items
    IN  /\ MapThenSumSet(LAMBDA i : IF items[i].is_group_head THEN items[i].group_size ELSE 0,
                         DOMAIN items) = Len(items)
        /\ \A i \in DOMAIN items : items[i].is_group_head /\ items[i].group_size > 1
             => \A j \in i + 1..i + items[i].group_size - 1 : ~items[j].is_group_head

SomeUsers == {[user_id |-> 1, is_active |-> TRUE, created_at |-> 1, words |-> {"ana"}],
              [user_id |-> 2, is_active |-> FALSE, created_at |-> 3, words |-> {"ana", "ben"}],
              [user_id |-> 3, is_active |-> TRUE, created_at |-> 2, words |-> {"ben"}]}

\* The active and the deactivated accounts divide the directory, the active ones
\* are what is shown when nothing is asked for, and its pages follow one another.
ASSUME DirectoryIsDivided ==
  \A users \in SUBSET SomeUsers, search \in {None, "ana"} :
    LET list(is_active, offset, limit) ==
          (CHOOSE a \in get_all_users(users, search, is_active, offset, limit) : TRUE).items
    IN  /\ ToSet(list("true", 0, 9)) \cap ToSet(list("false", 0, 9)) = {}
        /\ ToSet(list("true", 0, 9)) \cup ToSet(list("false", 0, 9)) = ToSet(list("null", 0, 9))
        /\ list("omitted", 0, 9) = list("true", 0, 9)
        /\ list("null", 0, 2) \o list("null", 2, 2) = list("null", 0, 9)

Job(id, user, report_type) ==
  [job_id |-> id, requested_by_id |-> user, report_type |-> report_type, status |-> "completed", created_at |-> id \div 2]

\* The last two were requested at the same time.
SomeJobs == {{Job(1, 1, t1), Job(2, u2, t2), Job(3, u3, t3)} :
               u2 \in {1, 2}, u3 \in {1, 2}, t1 \in {"incidents", "performance"},
               t2 \in {"incidents", "performance"}, t3 \in {"audit", "performance"}}

\* An operator's list holds the jobs that he may open and no other, and the list
\* of all users is the administrators' (01_CONTRACTS.md 5.10, quoted in the code).
ASSUME JobsListedAreJobsAllowed ==
  \A jobs \in SomeJobs, role \in {"Operator", "Admin"}, user \in {1, 2}, all_users \in BOOLEAN :
    LET actor == [user_id |-> user, role |-> role]
        may   == {job \in jobs : require_owner_or_admin(job, actor)}
        own   == {job \in jobs : job.requested_by_id = user}
    IN  \A answer \in list_export_jobs(jobs, actor, {}, all_users, 0, 20) :
          IF all_users /\ role = "Operator" THEN answer.status = 403
          ELSE ToSet(answer.items) = IF role = "Operator" \/ all_users THEN may ELSE own

\* An accident is in the window or in the one before, never in both, and the
\* two are as one window of twice the length.
ASSUME WindowsAreAdjacent ==
  \A logs \in SomeLogs, s \in 0..3, e \in 0..3 :
    s <= e =>
      LET window == previous_window(s, e)
          now    == Accidents(logs, Cameras, s, e, {})
          before == Accidents(logs, Cameras, window[1], window[2], {})
      IN  /\ now \cap before = {}
          /\ now \cup before = Accidents(logs, Cameras, window[1], e, {})
          /\ window[2] - window[1] = e - s

\* Every accident that is counted has a place and an hour: the charts add up to
\* the headline.
ASSUME ChartsAddUp ==
  \A logs \in SomeLogs, ids \in {{}, {1}, {2}} :
    LET data   == compute_dashboard_data(logs, Cameras, None, 2, ids)
        places == data.frequency_by_location
    IN  /\ MapThenSumSet(LAMBDA i : places[i].accident_count, DOMAIN places) = data.kpis.total_accidents
        /\ MapThenSumSet(LAMBDA h : data.peak_accident_times[h], 0..23) = data.kpis.total_accidents

\* An average over the cameras is the average over their incidents, and without
\* a search the table adds up to the figures above it, deleted cameras included.
ASSUME TableAddsUp ==
  \A logs \in SomeLogs, ids \in {{}, {1}, {2}} :
    LET data  == compute_performance_data(logs, Cameras, 1, None, ids, None)
        rows  == data.per_camera
        found == Accidents(logs, Cameras, 1, None, ids)
    IN  /\ MapThenSumSet(LAMBDA i : rows[i].total_accidents, DOMAIN rows) = data.global_kpis.total_accidents
        /\ MapThenSumSet(LAMBDA i : rows[i].total_dismissed, DOMAIN rows) = data.global_kpis.total_dismissed
        /\ data.global_kpis.avg_accident_confidence =
             Ratio(MapThenSumSet(LAMBDA log : log.confidence_score, found), Cardinality(found))
        /\ ids = {} => Gate.camera_id \in {rows[i].camera_id : i \in DOMAIN rows}

SomeCaches == {{}} \cup {{[key |-> 1, at |-> t, data |-> 10]} : t \in 0..2}
              \cup {{[key |-> 1, at |-> t, data |-> 10], [key |-> 2, at |-> 1, data |-> 20]} : t \in 0..2}

\* The dashboard is answered from its own filters, with figures that are fresh
\* or within their time, and the cache stays within its size with one answer
\* for a set of filters.
ASSUME CacheIsBoundedAndFresh ==
  \A cache \in SomeCaches, key \in 1..3, now \in 2..5 :
    LET r == get_dashboard_analytics(cache, key, 99, now, now)
    IN  /\ r.answer # 99 => \E e \in cache :
             e.key = key /\ e.data = r.answer /\ now - e.at < DASHBOARD_CACHE_TTL_SECONDS
        /\ Cardinality(r.cache) <= MaxCached
        /\ \A e1, e2 \in r.cache : e1.key = e2.key => e1 = e2

SomeRequests == {[Payload EXCEPT !.start_date = 1, !.end_date = 2],
                 [Payload EXCEPT !.end_date = 3, !.camera_id = {2}],
                 [Payload EXCEPT !.start_date = 0, !.camera_id = {1, 2}, !.search = [word |-> "road", number |-> None]]}

\* The file of a job holds what the same request writes at once, if that is not
\* too long for it, and, of AI Performance, what its pages show.
ASSUME JobsMatchTheScreens ==
  \A logs \in SomeLogs, p \in SomeRequests :
    LET ids       == OrEmpty(p.camera_id)
        dashboard == export_dashboard(logs, logs, Cameras, p.start_date, p.end_date, ids, "csv")
        report    == export_dashboard(logs, logs, Cameras, p.start_date, p.end_date, ids, "pdf")
        table     == export_performance(logs, Cameras, p.start_date, p.end_date, ids, p.search, "csv")
        screen(offset) ==
          get_ai_performance(logs, Cameras, p.start_date, p.end_date, ids, p.search, offset, 1).per_camera
    IN  /\ generate_dashboard(logs, Cameras, p, "csv").rows = dashboard.rows
        /\ dashboard.audit.row_count = generate_dashboard(logs, Cameras, p, "csv").total
        /\ report.status = 200 => generate_dashboard(logs, Cameras, p, "pdf").rows = report.rows
        /\ generate_performance(logs, Cameras, p).rows = table.rows
        /\ screen(0) \o screen(1) = table.rows

\* An audit job holds what an audit export of the same request holds, if it
\* names a column to sort by or no order at all.
ASSUME AuditJobsMatchTheScreen ==
  \A trail \in SomeTrails, users \in {None, {}, {5}}, by \in {None, "created_at"}, order \in {"asc", "desc"} :
    LET p    == [Payload EXCEPT !.user_id = users, !.sort_by = by,
                                !.sort_order = IF by = None THEN None ELSE order]
        sort == [sort_by |-> "created_at", sort_order |-> IF by = None THEN "desc" ELSE order]
    IN  generate_audit(trail, p).rows
          = export_audit_logs(trail, trail, [AuditFilter EXCEPT !.user_ids = OrEmpty(users)], sort, "csv").rows

\* The package for retraining has each incident of its time that an operator
\* decided, once, with the operator's label and no other incident.
ASSUME DecidedIncidentsAreLabelled ==
  \A logs \in SomeLogs, p \in SomeRequests :
    LET manifest == generate_retraining(logs, Cameras, {1}, p)
        labelled(label) == {manifest[i].log_id : i \in {j \in DOMAIN manifest : manifest[j].human_label = label}}
        ids(statuses) ==
          {log.log_id : log \in apply_incident_filters(logs, Cameras,
             IncidentFilters(p.start_date, p.end_date, OrEmpty(p.camera_id), statuses))}
    IN  /\ labelled("true_positive") = ids(ACCIDENT_STATUSES)
        /\ labelled("false_positive") = ids(DISMISSED_STATUSES)
        /\ Len(manifest) = Cardinality(ids(ACCIDENT_STATUSES \cup DISMISSED_STATUSES))
=============================================================================
