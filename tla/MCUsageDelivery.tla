-------------------------- MODULE MCUsageDelivery --------------------------
EXTENDS UsageDelivery
=============================================================================
