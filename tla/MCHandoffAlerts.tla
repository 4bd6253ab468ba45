-------------------------- MODULE MCHandoffAlerts --------------------------
EXTENDS HandoffAlerts

MCKeys == (Handoffs \X EmailUsers) \cup Retained
MCCallers == Handoffs \cup Sweepers \cup Retriers \cup {Mailer}
=============================================================================
