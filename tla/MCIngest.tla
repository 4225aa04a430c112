------------------------------ MODULE MCIngest ------------------------------
\* Two symbols, of one of which the exchange may lack bars; a look-back of
\* three bars, of which any may be in the table, and one bar more to come.
EXTENDS Ingest

CONSTANTS btc, eth

MCTargets == <<btc, eth>>

=============================================================================
