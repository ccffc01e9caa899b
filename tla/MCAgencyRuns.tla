---------------------------- MODULE MCAgencyRuns ----------------------------
EXTENDS AgencyRuns
CONSTANTS Reply, Legacy
=============================================================================
