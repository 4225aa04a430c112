----------------------------- MODULE MCBackfill -----------------------------
\* Four bars, two an answer and two a month: windows of one answer and of
\* several, of one month and of two, over and still open when asked for.
EXTENDS Backfill
============================================================================
