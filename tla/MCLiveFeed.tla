------------------------------ MODULE MCLiveFeed ------------------------------
\* The replay is of the race the clients fall back to.
EXTENDS LiveFeed

CONSTANTS d1, live, past

MCDrivers == {d1}
===============================================================================
