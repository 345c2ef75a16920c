----------------------------- MODULE MCBackups -----------------------------
EXTENDS Backups, TLC
=============================================================================
