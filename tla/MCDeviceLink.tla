---------------------------- MODULE MCDeviceLink ----------------------------
(* Three devices can follow one another during one answer of two reports.   *)
EXTENDS DeviceLink
=============================================================================
