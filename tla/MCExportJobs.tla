---------------------------- MODULE MCExportJobs ----------------------------
EXTENDS ExportJobs, MCReports
=============================================================================
