----------------------------- MODULE MCFirmware -----------------------------
EXTENDS Firmware
MCLeases == {0, 1}
MCLong == {4}
=============================================================================
