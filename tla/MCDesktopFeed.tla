--------------------------- MODULE MCDesktopFeed ---------------------------
EXTENDS DesktopFeed
\* Both Runs are of the first Session.
OneSession == [r \in Runs |-> 1]
=============================================================================
