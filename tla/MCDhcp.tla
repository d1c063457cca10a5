-------------------------------- MODULE MCDhcp --------------------------------
EXTENDS Dhcp
=============================================================================
