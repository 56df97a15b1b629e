-------------------------- MODULE MCOriginFirewall --------------------------
EXTENDS OriginFirewall, TLC

=============================================================================
