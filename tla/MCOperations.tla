---------------------------- MODULE MCOperations ----------------------------
EXTENDS Operations, TLC

CONSTANTS collector, notifier, maintenance

MCWorkers == {collector, notifier, maintenance}

=============================================================================
