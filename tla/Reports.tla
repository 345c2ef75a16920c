------------------------------- MODULE Reports -------------------------------
(***************************************************************************)
(* What a list on the screen shows and what an export of it holds: the     *)
(* shared filters, the order and the pages, the row limits, the audit row  *)
(* of an export, the synchronous exports of incidents and of the audit     *)
(* trail, and what the generators of the export jobs put into a file.      *)
(*                                                                         *)
(* All of it is functions of the rows read, so that there are no actions   *)
(* here; ExportJobs has the life of a job.  A row is a record and a table  *)
(* a set of rows.  Of a text only the search words it contains are kept    *)
(* (words), and of a name its place among the names.  A search is a word   *)
(* and the number it may be.  Times are instants, in UTC.  A value that    *)
(* may be missing is None, a selection that may be missing None or a set.  *)
(***************************************************************************)
EXTENDS Lists

CONSTANTS
  None,
  EXPORT_PDF_MAX_ROWS, EXPORT_CSV_MAX_ROWS,
  AUDIT_GROUP_GAP_SECONDS

ASSUME LimitsAreNumbers == {EXPORT_PDF_MAX_ROWS, EXPORT_CSV_MAX_ROWS, AUDIT_GROUP_GAP_SECONDS} \subseteq Nat
ASSUME NoneIsMissing == None \notin Int

-----------------------------------------------------------------------------
(* Filters and order: services/filters.py *)

\* validate_common_filters.
validate_common_filters(f) ==
  /\ f.start_date # None /\ f.end_date # None => f.start_date <= f.end_date
  /\ \A id \in f.camera_ids \cup f.user_ids : id > 0

\* The rows of a window; both ends belong to it.
Between(t, f) ==
  /\ f.start_date # None => t >= f.start_date
  /\ f.end_date # None => t <= f.end_date

\* An empty selection does not filter.
Selects(selection, value) == selection = {} \/ value \in selection

\* A search finds an incident by its camera's name, and by its own number when
\* it is one.
Finds(search, log, cameras) ==
  \/ search.number # None /\ log.log_id = search.number
  \/ \E c \in cameras : c.camera_id = log.camera_id /\ search.word \in c.words

\* apply_incident_filters.
apply_incident_filters(logs, cameras, f) ==
  {log \in logs :
     /\ f.search # None => Finds(f.search, log, cameras)
     /\ Between(log.detected_at, f)
     /\ Selects(f.statuses, log.detection_status)
     /\ Selects(f.camera_ids, log.camera_id)
     /\ Selects(f.user_ids, log.verified_by_id) \/ Selects(f.user_ids, log.closed_by_id)}

\* _apply_audit_filters.
apply_audit_filters(logs, f) ==
  {log \in logs :
     /\ Selects(f.action, log.action) /\ Selects(f.result, log.result)
     /\ Selects(f.user_ids, log.user_id) /\ Selects(f.target_type, log.target_type)
     /\ f.target_ref # None => log.target_ref = f.target_ref
     /\ Between(log.created_at, f)
     /\ f.search # None => f.search.word \in log.words}

ALERT_SORT_FIELDS == {"log_id", "detected_at", "confidence_score", "detection_status", "camera_id",
                      "verified_at", "closed_at", "created_at", "updated_at"}
AUDIT_SORT_FIELDS == {"audit_id", "created_at", "action", "result", "user_id", "target_type"}

SortAllowed(sort, allowed) == sort.sort_by \in allowed /\ sort.sort_order \in {"asc", "desc"}

\* SQLite puts NULL before every value.
Below(x, y) == y # None /\ (x = None \/ x < y)

\* apply_sort; the tie breaker, which is unique, always descends.
apply_sort(rows, sort, tie_breaker) ==
  LET Before(r, s) == LET x == r[sort.sort_by]
                          y == s[sort.sort_by]
                      IN  IF x = y THEN Below(s[tie_breaker], r[tie_breaker])
                          ELSE IF sort.sort_order = "asc" THEN Below(x, y) ELSE Below(y, x)
  IN  SetToSortSeq(rows, Before)

-----------------------------------------------------------------------------
(* The lists: routes/alerts.py, routes/audit.py, routes/users.py, routes/exports.py *)

OrEmpty(selection) == IF selection = None THEN {} ELSE selection

\* _incident_filters_from_query.
incident_filters_from_query(q) ==
  [start_date |-> q.start_date, end_date |-> q.end_date, search |-> q.search,
   statuses |-> OrEmpty(q.status), camera_ids |-> OrEmpty(q.camera_id), user_ids |-> OrEmpty(q.user_id)]

\* get_alerts.
get_alerts(logs, cameras, q, sort, offset, limit) ==
  LET f    == incident_filters_from_query(q)
      rows == apply_sort(apply_incident_filters(logs, cameras, f), sort, "log_id")
  IN  IF ~validate_common_filters(f) \/ ~SortAllowed(sort, ALERT_SORT_FIELDS)
      THEN [status |-> 422]
      ELSE [status |-> 200, total_filtered |-> Len(rows), logs |-> Page(rows, offset, limit)]

\* What makes two audit rows one burst.
Burst(a, b) ==
  /\ <<a.action, a.result, a.user_id, a.username, a.target_type, a.target_ref>>
       = <<b.action, b.result, b.user_id, b.username, b.target_type, b.target_ref>>
  /\ a.created_at - b.created_at \in -AUDIT_GROUP_GAP_SECONDS..AUDIT_GROUP_GAP_SECONDS

\* _annotate_groups: of each row of a page, whether a burst begins with it and
\* the size of its burst.
annotate_groups(rows, sort_by) ==
  LET head == {i \in DOMAIN rows : i = 1 \/ sort_by # "created_at" \/ ~Burst(rows[i], rows[i - 1])}
      first(i) == Max({h \in head : h <= i})
      size(i)  == Cardinality({j \in DOMAIN rows : first(j) = first(i)})
  IN  [i \in DOMAIN rows |-> [log |-> rows[i], is_group_head |-> i \in head, group_size |-> size(i)]]

\* list_audit_logs.
list_audit_logs(logs, f, sort, offset, limit) ==
  LET rows == apply_sort(apply_audit_filters(logs, f), sort, "audit_id")
  IN  IF ~validate_common_filters(f) \/ ~SortAllowed(sort, AUDIT_SORT_FIELDS)
      THEN [status |-> 422]
      ELSE [status |-> 200, total_filtered |-> Len(rows),
            items |-> annotate_groups(Page(rows, offset, limit), sort.sort_by)]

\* get_all_users: the answers that there may be.
get_all_users(users, search, is_active, offset, limit) ==
  LET selected == parse_is_active_filter(is_active)
      found    == {u \in users : u.is_active \in selected /\ (search # None => search \in u.words)}
  IN  IF selected = {} THEN {[status |-> 422]}
      ELSE {[status |-> 200, total_filtered |-> Cardinality(found), items |-> Page(rows, offset, limit)] :
              rows \in NewestFirst(found)}

IsAdmin(actor) == actor.role = "Admin"

\* list_export_jobs.
list_export_jobs(jobs, actor, statuses, all_users, offset, limit) ==
  LET found == {job \in jobs : /\ (all_users \/ job.requested_by_id = actor.user_id)
                               /\ (IsAdmin(actor) \/ job.report_type # "performance")
                               /\ Selects(statuses, job.status)}
  IN  IF all_users /\ ~IsAdmin(actor) THEN {[status |-> 403]}
      ELSE {[status |-> 200, total_filtered |-> Cardinality(found), items |-> Page(rows, offset, limit)] :
              rows \in NewestFirst(found)}

\* _require_owner_or_admin: who may see and download a job.
require_owner_or_admin(job, actor) ==
  IsAdmin(actor) \/ (job.report_type # "performance" /\ job.requested_by_id = actor.user_id)

-----------------------------------------------------------------------------
(* The synchronous exports: the rows are counted, the attempt is recorded   *)
(* and committed, and only then are the rows read.  What was committed in   *)
(* between makes the table that is read (streamed) another than the one     *)
(* that was counted.                                                        *)

\* row_limit_for.
row_limit_for(format) == IF format = "pdf" THEN EXPORT_PDF_MAX_ROWS ELSE EXPORT_CSV_MAX_ROWS

\* check_row_limit.
check_row_limit(row_count, format) == row_count <= row_limit_for(format)

\* record_export_attempt: the audit row of an attempt.
record_export_attempt(result, row_count, failure_category) ==
  [result |-> result, row_count |-> row_count, failure_category |-> failure_category]

\* The answer and the audit row of an export that counted row_count rows and
\* read these; rows that cannot be sorted are refused after the attempt is
\* recorded as a success.
Exported(row_count, sortable, rows, format) ==
  IF ~check_row_limit(row_count, format)
  THEN [status |-> 413, audit |-> record_export_attempt("failure", row_count, "row_limit_exceeded"),
        rows |-> <<>>]
  ELSE [status |-> IF sortable THEN 200 ELSE 422, audit |-> record_export_attempt("success", row_count, None),
        rows |-> IF sortable THEN rows ELSE <<>>]

NotExported == [status |-> 422, audit |-> None, rows |-> <<>>]

\* export_alerts.
export_alerts(counted, streamed, cameras, q, sort, format) ==
  LET f == incident_filters_from_query(q)
  IN  IF ~validate_common_filters(f) THEN NotExported
      ELSE Exported(Cardinality(apply_incident_filters(counted, cameras, f)),
                    SortAllowed(sort, ALERT_SORT_FIELDS),
                    apply_sort(apply_incident_filters(streamed, cameras, f), sort, "log_id"), format)

\* The newest row of the audit trail; the export's own row comes after it.
Watermark(logs) == Max({log.audit_id : log \in logs} \cup {0})

\* The rows an audit export selects.
UpTo(logs, f, watermark) == {log \in apply_audit_filters(logs, f) : log.audit_id <= watermark}

\* export_audit_logs.
export_audit_logs(counted, streamed, f, sort, format) ==
  LET watermark == Watermark(counted)
  IN  IF ~validate_common_filters(f) THEN NotExported
      ELSE Exported(Cardinality(UpTo(counted, f, watermark)), SortAllowed(sort, AUDIT_SORT_FIELDS),
                    apply_sort(UpTo(streamed, f, watermark), sort, "audit_id"), format)

-----------------------------------------------------------------------------
(* What a job's file holds: services/reports/jobs.py.  A generator that     *)
(* raises fails its job.                                                    *)

\* _job_filters_dict.
job_filters_dict(p) ==
  [start_date |-> p.start_date, end_date |-> p.end_date, search |-> p.search,
   status |-> OrEmpty(p.status), camera_id |-> OrEmpty(p.camera_id), user_id |-> OrEmpty(p.user_id),
   action |-> OrEmpty(p.action), result |-> OrEmpty(p.result), target_type |-> OrEmpty(p.target_type)]

\* _job_sort_dict.  An audit job that gives an order only is given the
\* incidents' column, which the audit trail does not have.
job_sort_dict(p) ==
  IF p.sort_by = None /\ p.sort_order = None THEN None
  ELSE [sort_by |-> IF p.sort_by = None THEN "detected_at" ELSE p.sort_by,
        sort_order |-> IF p.sort_order = None THEN "desc" ELSE p.sort_order]

\* _sort_dict_from_job and the defaults of a generator.
SortOr(sort, column) == IF sort = None THEN [sort_by |-> column, sort_order |-> "desc"] ELSE sort

\* _incident_filters_from_dict.
incident_filters_from_dict(d) ==
  [start_date |-> d.start_date, end_date |-> d.end_date, search |-> d.search,
   statuses |-> d.status, camera_ids |-> d.camera_id, user_ids |-> d.user_id]

File(generated, rows) ==
  IF generated THEN [failed |-> FALSE, rows |-> rows, total |-> Len(rows)]
  ELSE [failed |-> TRUE, rows |-> <<>>, total |-> 0]

\* _generate_incidents.
generate_incidents(logs, cameras, p) ==
  LET f    == incident_filters_from_dict(job_filters_dict(p))
      sort == SortOr(job_sort_dict(p), "detected_at")
  IN  File(SortAllowed(sort, ALERT_SORT_FIELDS),
           apply_sort(apply_incident_filters(logs, cameras, f), sort, "log_id"))

\* _generate_audit.  No job carries a target_ref.
generate_audit(logs, p) ==
  LET d    == job_filters_dict(p)
      f    == [start_date |-> d.start_date, end_date |-> d.end_date, search |-> d.search,
               action |-> d.action, result |-> d.result, target_type |-> d.target_type,
               user_ids |-> d.user_id, camera_ids |-> {}, target_ref |-> None]
      sort == SortOr(job_sort_dict(p), "created_at")
  IN  File(SortAllowed(sort, AUDIT_SORT_FIELDS), apply_sort(UpTo(logs, f, Watermark(logs)), sort, "audit_id"))

RETRAINING_LABELS ==
  [Ongoing |-> "true_positive", Cleared |-> "true_positive", Dismissed |-> "false_positive"]

\* _generate_retraining: the manifest.  snapshots are the incidents whose file
\* still exists.
generate_retraining(logs, cameras, snapshots, p) ==
  LET human == [start_date |-> p.start_date, end_date |-> p.end_date, search |-> None,
                statuses |-> DOMAIN RETRAINING_LABELS, camera_ids |-> OrEmpty(p.camera_id), user_ids |-> {}]
      rows  == apply_sort(apply_incident_filters(logs, cameras, human),
                          [sort_by |-> "log_id", sort_order |-> "asc"], "log_id")
  IN  [i \in DOMAIN rows |-> [log_id             |-> rows[i].log_id,
                              human_label        |-> RETRAINING_LABELS[rows[i].detection_status],
                              snapshot_available |-> rows[i].log_id \in snapshots]]
=============================================================================
