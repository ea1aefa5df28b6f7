------------------------- MODULE MCDeployOperation -------------------------
EXTENDS DeployOperation
=============================================================================
